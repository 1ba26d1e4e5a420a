----------------------- MODULE SessionCommands_proofs -----------------------
(***************************************************************************)
(* Proofs, for any number of connections, commands, nodes and events, that *)
(* the output of lus goes where it belongs and that its events are saved.  *)
(*                                                                         *)
(* What lus prints flows one way: from its input to its output, into the   *)
(* pending response, into the queue and into an answer.  A response can be *)
(* handed out twice, or to the wrong caller, only if the stages overlap:   *)
(* Ordered says how far each is behind the next.                           *)
(***************************************************************************)
EXTENDS SessionCommands, SequenceTheorems, FiniteSetTheorems, TLAPS

(* Commands are numbered in the order they are sent; the probe has two     *)
(* commands with the number 0.                                             *)
Before(x, y) == x < y \/ (x = 0 /\ y = 0)

Handed == UNION { answer[k].from : k \in Ids }

(* A command with a response in the queue, or handed out, has left         *)
(* everything behind it; a cancelled reader leaves lines unread.           *)
Left(x) ==
  /\ \A y \in pending : Before(x, y)
  /\ reader = "reading" => \A i \in DOMAIN output : Before(x, output[i].by)
  /\ \A j \in DOMAIN input : Before(x, input[j].id)

InputOrdered ==
  /\ \A i, j \in DOMAIN input : i < j => Before(input[i].id, input[j].id)
  /\ \A i \in DOMAIN output, j \in DOMAIN input : Before(output[i].by, input[j].id)

OutputOrdered ==
  \A i, j \in DOMAIN output : i < j =>
    /\ output[i].by <= output[j].by
    /\ output[j].prompts > 0 \/ IsTerminal(output[i]) => Before(output[i].by, output[j].by)

PendingOrdered ==
  \A x \in pending :
    /\ \A i \in DOMAIN output : /\ x <= output[i].by
                                /\ output[i].prompts > 0 => Before(x, output[i].by)
    /\ \A j \in DOMAIN input : Before(x, input[j].id)

QueueOrdered ==
  /\ \A q \in DOMAIN queue : queue[q] # {} /\ \A x \in queue[q] : Left(x)
  /\ \A p, q \in DOMAIN queue : p < q => \A x \in queue[p], y \in queue[q] : Before(x, y)
  /\ \A x \in Handed : Left(x) /\ \A q \in DOMAIN queue : \A y \in queue[q] : Before(x, y)

Ordered == InputOrdered /\ OutputOrdered /\ PendingOrdered /\ QueueOrdered

(* What was written to lus and not yet answered.                           *)
Written ==
  { input[j].id : j \in DOMAIN input } \cup { output[i].by : i \in DOMAIN output }
    \cup pending \cup UNION { queue[q] : q \in DOMAIN queue }

(* The lock is a queue of the calls in the order of their numbers, and the *)
(* first alone may have been written.                                      *)
Calls ==
  /\ \A c \in Clients : doing[c].at = "idle" => doing[c] = Idle
  /\ \A c \in Clients : doing[c].at # "idle" => \E k \in DOMAIN lock : lock[k] = c
  /\ \A k \in DOMAIN lock : doing[lock[k]].at # "idle" /\ (k > 1 => doing[lock[k]].at = "locking")
  /\ \A j, k \in DOMAIN lock : j < k => doing[lock[j]].id < doing[lock[k]].id
  /\ \A c \in Clients : doing[c].at # "idle" =>
       /\ answer[doing[c].id] = None
       /\ \A w \in Written : w <= doing[c].id /\ (doing[c].at = "locking" => w < doing[c].id)
       /\ \A k \in Ids : answer[k].kind \in {"response", "timeout"} => k < doing[c].id
  /\ \A w \in Written : w <= asked
  /\ \A k \in Ids : k > asked => answer[k] = None
  /\ \A k \in Ids : answer[k].kind # "response" => answer[k].from = {}

(* Where the two commands of the probe and their lines are.                *)
ProbeLines ==
  /\ \A j \in DOMAIN input : input[j].id = 0 => input[j].op \in {"nodes", "time"}
  /\ \A i, j \in DOMAIN input : i < j /\ input[j].id = 0 => input[i] = Probe[1]
  /\ \A j \in DOMAIN input : input[j] = Probe[1] => j = 1 /\ prompts <= 1
  /\ \A i \in DOMAIN output : IsPrompt(output[i]) /\ ~IsNode(output[i]) =>
       /\ \A j \in DOMAIN output : i < j => output[j].by # 0
       /\ \A j \in DOMAIN input : input[j].id # 0

ProbeDone ==
  /\ status = "starting" => pending = {} /\ queue = <<>> /\ Handed = {}
  /\ status = "ready" => 0 \notin Written
  /\ status # "closed" => 0 \notin Handed
  /\ lus = "booting" => status # "ready" /\ queue = <<>> /\ Handed = {}

ProbeFlow == ProbeLines /\ ProbeDone

(* While no call has timed out, all that is under way is the answer to the *)
(* call that waits.                                                        *)
Untroubled == status # "closed" /\ \A k \in Ids : answer[k].kind # "timeout"

OneAtATime ==
  Untroubled => \A w \in Written : w = 0 \/ \E c \in Clients : doing[c].at = "awaiting" /\ doing[c].id = w

(* The events on their way to the file.                                    *)
EventFlow ==
  /\ \A i \in DOMAIN output : output[i].kind = "event" /\ output[i].prompts > 0 => output[i].ev \in glued
  /\ \A i \in DOMAIN output : output[i].kind = "event" /\ output[i].prompts = 0 =>
       /\ \A f \in DOMAIN file : file[f] < output[i].ev
       /\ \A j \in DOMAIN output : j < i /\ output[j].kind \in {"event", "echo"} => output[j].ev < output[i].ev
  /\ reader = "reading" => \A i \in DOMAIN output : output[i].kind = "echo" =>
       output[i].ev \in glued \cup Range(file)
         \/ \E j \in DOMAIN output : j < i /\ output[j].kind = "event" /\ output[j].ev = output[i].ev

Process ==
  /\ lus = "booting" => output = <<>> /\ prompts = 0 /\ emitted = 0 /\ file = <<>> /\ glued = {} /\ pending = {}
  /\ lus = "up" => prompts >= 1
  /\ reader = "ended" => status = "closed" /\ pending = {}
  /\ \A c \in Clients : doing[c].at # "idle" => doing[c].op \in Ops /\ doing[c].id \in 1 .. asked
  /\ \A i \in DOMAIN output : output[i].kind \in {"event", "echo"} => output[i].ev \in 1 .. emitted

Base == TypeOK /\ Process

CInv ==
  /\ Base /\ Calls /\ Ordered /\ ProbeFlow /\ OneAtATime
  /\ MispairedOnlyAfterTimeout /\ OutputDeliveredOnce

EInv == Base /\ EventFlow /\ EventsSavedInOrder

-----------------------------------------------------------------------------
(* Sequences, as the provers like to see them.                             *)
LEMMA Tails ==
  ASSUME NEW S, NEW s \in Seq(S), s # <<>>
  PROVE  /\ Len(s) \in Nat \ {0} /\ DOMAIN s = 1 .. Len(s) /\ 1 \in DOMAIN s /\ Head(s) = s[1] /\ s[1] \in S
         /\ Tail(s) \in Seq(S) /\ DOMAIN Tail(s) = 1 .. Len(s) - 1
         /\ \A i \in DOMAIN Tail(s) : i + 1 \in DOMAIN s /\ Tail(s)[i] = s[i + 1]
<1>1. Len(s) \in Nat \ {0} /\ DOMAIN s = 1 .. Len(s)
  BY EmptySeq, LenProperties
<1>2. Tail(s) \in Seq(S) /\ Len(Tail(s)) = Len(s) - 1 /\ \A i \in 1 .. Len(Tail(s)) : Tail(s)[i] = s[i + 1]
  BY HeadTailProperties
<1>3. DOMAIN Tail(s) = 1 .. Len(s) - 1
  BY <1>2, LenProperties
<1>4. Head(s) = s[1] /\ s[1] \in S
  BY <1>1, ElementOfSeq
<1> QED
  BY <1>1, <1>2, <1>3, <1>4

LEMMA Appends ==
  ASSUME NEW S, NEW s \in Seq(S), NEW e \in S
  PROVE  /\ Append(s, e) \in Seq(S) /\ Len(s) \in Nat
         /\ DOMAIN s = 1 .. Len(s) /\ DOMAIN Append(s, e) = 1 .. Len(s) + 1
         /\ \A i \in DOMAIN s : Append(s, e)[i] = s[i]
         /\ Append(s, e)[Len(s) + 1] = e
BY AppendProperties, LenProperties

LEMMA Concats ==
  ASSUME NEW S, NEW s \in Seq(S), NEW t \in Seq(S)
  PROVE  /\ s \o t \in Seq(S) /\ Len(s) \in Nat /\ Len(t) \in Nat
         /\ DOMAIN s = 1 .. Len(s) /\ DOMAIN t = 1 .. Len(t) /\ DOMAIN (s \o t) = 1 .. Len(s) + Len(t)
         /\ \A i \in DOMAIN s : (s \o t)[i] = s[i]
         /\ \A i \in DOMAIN t : (s \o t)[Len(s) + i] = t[i]
<1>1. /\ s \o t \in Seq(S) /\ Len(s \o t) = Len(s) + Len(t)
      /\ \A i \in 1 .. Len(s) + Len(t) : (s \o t)[i] = IF i <= Len(s) THEN s[i] ELSE t[i - Len(s)]
  BY ConcatProperties
<1>2. Len(s) \in Nat /\ Len(t) \in Nat /\ DOMAIN s = 1 .. Len(s) /\ DOMAIN t = 1 .. Len(t)
  BY LenProperties
<1>3. DOMAIN (s \o t) = 1 .. Len(s) + Len(t)
  BY <1>1, LenProperties
<1> QED
  BY <1>1, <1>2, <1>3

(* Two kinds of lines that are empty or all alike.                         *)
LEMMA CopiesFacts ==
  ASSUME NEW n \in Nat, NEW kind, NEW S, kind \in S
  PROVE  /\ Copies(n, kind) \in Seq(S) /\ Len(Copies(n, kind)) = n /\ DOMAIN Copies(n, kind) = 1 .. n
         /\ \A i \in 1 .. n : Copies(n, kind)[i] = kind
<1>1. Copies(n, kind) \in [1 .. n -> S]
  BY DEF Copies
<1> QED
  BY <1>1 DEF Copies

Kinds == {"event", "echo", "node", "final", "text"}
Lines == [prompts : Nat, kind : Kinds, by : 0 .. MaxCommands, ev : Nat]
Orders == [id : 0 .. MaxCommands, op : Ops \cup {"nodes", "time"}]

(* What lus prints for one command: events first, one final line at most,  *)
(* and that one last.                                                      *)
LEMMA KindsOf ==
  ASSUME TypeOK, NEW op \in Ops \cup {"nodes", "time"}, NEW kinds \in Prints(op)
  PROVE  /\ kinds \in Seq(Kinds)
         /\ \A i \in DOMAIN kinds : /\ kinds[i] = "final" => i = Len(kinds)
                                    /\ op = "time" => i = 1 /\ kinds[i] = "final"
                                    /\ op = "nodes" => kinds[i] = "node"
                                    /\ kinds[i] = "echo" => Len(kinds) <= emitted
                                    /\ kinds[i] = "event" => \A j \in 1 .. i : kinds[j] = "event"
<1> USE CommandBounds
<1>0. /\ <<"final">> \in Seq(Kinds) /\ Len(<<"final">>) = 1 /\ <<"final">>[1] = "final"
      /\ <<"text">> \in Seq(Kinds) /\ Len(<<"text">>) = 1 /\ <<"text">>[1] = "text"
      /\ <<"event", "final">> \in Seq(Kinds) /\ Len(<<"event", "final">>) = 2
      /\ <<"event", "final">>[1] = "event" /\ <<"event", "final">>[2] = "final"
      /\ <<>> \in Seq(Kinds) /\ Len(<<>>) = 0
  BY DEF Kinds
<1>1. CASE op = "time"
  <2>1. kinds = <<"final">> /\ DOMAIN kinds = 1 .. 1
    BY <1>0, <1>1, LenProperties DEF Prints
  <2> QED
    BY <1>0, <1>1, <2>1
<1>2. CASE op = "step"
  <2>1. PICK n \in 0 .. MaxStepEvents : kinds = Copies(n, "event") \o <<"final">>
    BY <1>2 DEF Prints
  <2>2. n \in Nat /\ "event" \in Kinds /\ <<"final">> \in Seq(Kinds) /\ Len(<<"final">>) = 1 /\ <<"final">>[1] = "final"
    BY DEF Kinds
  <2>3. /\ Copies(n, "event") \in Seq(Kinds) /\ Len(Copies(n, "event")) = n
        /\ \A i \in 1 .. n : Copies(n, "event")[i] = "event"
    BY <2>2, CopiesFacts
  <2>4. /\ kinds \in Seq(Kinds) /\ DOMAIN kinds = 1 .. n + 1 /\ kinds[n + 1] = "final"
        /\ \A i \in 1 .. n : kinds[i] = "event"
    BY <2>1, <2>2, <2>3, Concats
  <2>5. Len(kinds) = n + 1
    BY <2>2, <2>4, LenProperties
  <2> QED
    BY <1>2, <2>2, <2>4, <2>5
<1>3. CASE op = "cmd"
  <2>1. CASE kinds = <<"final">>
    <3>1. DOMAIN kinds = 1 .. 1
      BY <1>0, <2>1, LenProperties
    <3> QED
      BY <1>0, <1>3, <2>1, <3>1
  <2>2. CASE kinds = <<"event", "final">>
    <3>1. DOMAIN kinds = 1 .. 2
      BY <1>0, <2>2, LenProperties
    <3> QED
      BY <1>0, <1>3, <2>2, <3>1
  <2> QED
    BY <1>3, <2>1, <2>2 DEF Prints
<1>4. CASE op = "nodes"
  <2>1. kinds = Copies(nodes, "node") /\ nodes \in Nat
    BY <1>4 DEF Prints, TypeOK
  <2> QED
    BY <1>4, <2>1, CopiesFacts DEF Kinds
<1>5. CASE op = "events"
  <2>1. PICK n \in { m \in 0 .. 2 : m <= emitted } : kinds = Copies(n, "echo")
    BY <1>5 DEF Prints
  <2> QED
    BY <1>5, <2>1, CopiesFacts DEF Kinds
<1>6. CASE op = "lua"
  <2>1. CASE kinds = <<>>
    <3>1. DOMAIN kinds = {}
      BY <2>1
    <3> QED
      BY <1>0, <2>1, <3>1
  <2>2. CASE kinds = <<"final">>
    <3>1. DOMAIN kinds = 1 .. 1
      BY <1>0, <2>2, LenProperties
    <3> QED
      BY <1>0, <1>6, <2>2, <3>1
  <2>3. CASE kinds = <<"text">>
    <3>1. DOMAIN kinds = 1 .. 1
      BY <1>0, <2>3, LenProperties
    <3> QED
      BY <1>0, <1>6, <2>3, <3>1
  <2> QED
    BY <1>6, <2>1, <2>2, <2>3 DEF Prints
<1> QED
  BY <1>1, <1>2, <1>3, <1>4, <1>5, <1>6

(* The lines of one command: the prompts come before the first.            *)
LEMMA PrintedFacts ==
  ASSUME TypeOK, NEW kinds \in Seq(Kinds), NEW by \in 0 .. MaxCommands,
         \A i \in DOMAIN kinds : /\ kinds[i] = "echo" => Len(kinds) <= emitted
                                 /\ kinds[i] = "event" => \A j \in 1 .. i : kinds[j] = "event"
  PROVE  /\ Printed(kinds, by) \in Seq(Lines) /\ DOMAIN Printed(kinds, by) = 1 .. Len(kinds)
         /\ DOMAIN kinds = 1 .. Len(kinds) /\ Len(kinds) \in Nat /\ Len(Printed(kinds, by)) = Len(kinds)
         /\ \A i \in DOMAIN kinds :
              /\ Printed(kinds, by)[i].by = by /\ Printed(kinds, by)[i].kind = kinds[i]
              /\ Printed(kinds, by)[i].prompts = IF i = 1 THEN prompts ELSE 0
              /\ Printed(kinds, by)[i].ev = EventOf(kinds, i)
              /\ kinds[i] = "event" => EventOf(kinds, i) = emitted + i
              /\ kinds[i] = "echo" => EventOf(kinds, i) \in 1 .. emitted
<1> USE CommandBounds
<1>1. Len(kinds) \in Nat /\ DOMAIN kinds = 1 .. Len(kinds)
  BY LenProperties
<1>2. ASSUME NEW i \in DOMAIN kinds
      PROVE  /\ EventOf(kinds, i) \in Nat
             /\ kinds[i] = "event" => EventOf(kinds, i) = emitted + i
             /\ kinds[i] = "echo" => EventOf(kinds, i) \in 1 .. emitted
  <2>1. i \in 1 .. Len(kinds) /\ emitted \in Nat
    BY <1>1, <1>2 DEF TypeOK
  <2>2. CASE kinds[i] = "event"
    BY <2>1, <2>2 DEF EventOf
  <2>3. CASE kinds[i] = "echo"
    <3>1. EventOf(kinds, i) = emitted - Len(kinds) + i
      BY <2>3 DEF EventOf
    <3>2. Len(kinds) <= emitted
      BY <1>2, <2>3
    <3> QED
      BY <1>1, <2>1, <2>3, <3>1, <3>2
  <2>4. CASE kinds[i] \notin {"event", "echo"}
    BY <2>1, <2>4 DEF EventOf
  <2> QED
    BY <2>2, <2>3, <2>4
<1>3. ASSUME NEW i \in DOMAIN kinds PROVE kinds[i] \in Kinds
  BY <1>1, <1>3, ElementOfSeq
<1>4. ASSUME NEW i \in DOMAIN kinds
      PROVE  Line(kinds[i], IF i = 1 THEN prompts ELSE 0, by, EventOf(kinds, i)) \in Lines
  BY <1>2, <1>3, <1>4 DEF Line, Lines, TypeOK
<1>5. Printed(kinds, by) \in [1 .. Len(kinds) -> Lines]
  BY <1>1, <1>4 DEF Printed
<1>6. Printed(kinds, by) \in Seq(Lines) /\ Len(Printed(kinds, by)) = Len(kinds)
  BY <1>1, <1>5
<1> QED
  BY <1>1, <1>2, <1>5, <1>6 DEF Printed, Line

(* The new events are the first lines.                                     *)
LEMMA NewEventsFacts ==
  ASSUME NEW kinds \in Seq(Kinds),
         \A i \in DOMAIN kinds : kinds[i] = "event" => \A j \in 1 .. i : kinds[j] = "event"
  PROVE  /\ NewEvents(kinds) \in Nat /\ NewEvents(kinds) <= Len(kinds)
         /\ \A i \in DOMAIN kinds : kinds[i] = "event" <=> i <= NewEvents(kinds)
<1> DEFINE E == { i \in DOMAIN kinds : kinds[i] = "event" }
<1>1. Len(kinds) \in Nat /\ DOMAIN kinds = 1 .. Len(kinds)
  BY LenProperties
<1>2. IsFiniteSet(E) /\ Cardinality(E) \in Nat /\ NewEvents(kinds) = Cardinality(E)
  <2>1. IsFiniteSet(1 .. Len(kinds))
    <3>1. 1 \in Int /\ Len(kinds) \in Int
      BY <1>1
    <3> QED
      BY <3>1, FS_Interval
  <2>2. E \subseteq 1 .. Len(kinds)
    BY <1>1
  <2> QED
    BY <2>1, <2>2, FS_Subset, FS_CardinalityType DEF NewEvents
<1>3. ASSUME NEW i \in E PROVE i <= Cardinality(E)
  <2>1. i \in 1 .. Len(kinds) /\ 1 .. i \subseteq E
    BY <1>1, <1>3
  <2>2. Cardinality(1 .. i) = i
    BY <1>1, <2>1, FS_Interval
  <2> QED
    BY <1>2, <2>1, <2>2, FS_Subset
<1>4. ASSUME NEW i \in DOMAIN kinds, i \notin E PROVE i > Cardinality(E)
  <2>1. i \in 1 .. Len(kinds) /\ E \subseteq 1 .. i - 1
    BY <1>1, <1>4
  <2>2. IsFiniteSet(1 .. i - 1) /\ Cardinality(1 .. i - 1) = i - 1
    <3>1. 1 \in Int /\ i - 1 \in Int /\ (1 > i - 1 <=> i - 1 = 0) /\ i - 1 - 1 + 1 = i - 1
      BY <1>1, <2>1
    <3> QED
      BY <3>1, FS_Interval
  <2>3. Cardinality(E) <= i - 1
    BY <2>1, <2>2, FS_Subset
  <2> QED
    <3>1. i \in Nat /\ Cardinality(E) \in Nat /\ Cardinality(E) <= i - 1
      BY <1>1, <1>2, <2>1, <2>3
    <3> QED
      BY <3>1
<1>5. Cardinality(E) <= Len(kinds)
  <2>1. IsFiniteSet(1 .. Len(kinds)) /\ Cardinality(1 .. Len(kinds)) = Len(kinds)
    <3>1. 1 \in Int /\ Len(kinds) \in Int /\ (1 > Len(kinds) <=> Len(kinds) = 0) /\ Len(kinds) - 1 + 1 = Len(kinds)
      BY <1>1
    <3> QED
      BY <3>1, FS_Interval
  <2>2. E \in SUBSET (1 .. Len(kinds))
    BY <1>1
  <2> QED
    BY <2>1, <2>2, FS_Subset
<1>6. ASSUME NEW i \in DOMAIN kinds PROVE kinds[i] = "event" <=> i <= NewEvents(kinds)
  <2>1. i \in Nat /\ Cardinality(E) \in Nat /\ NewEvents(kinds) = Cardinality(E)
    BY <1>1, <1>2, <1>6
  <2>2. CASE kinds[i] = "event"
    BY <1>3, <1>6, <2>1, <2>2
  <2>3. CASE kinds[i] # "event"
    <3>1. i > Cardinality(E)
      BY <1>4, <1>6, <2>3
    <3> QED
      BY <2>1, <2>3, <3>1
  <2> QED
    BY <2>2, <2>3
<1> QED
  BY <1>1, <1>2, <1>5, <1>6

-----------------------------------------------------------------------------
(* The type invariant, with what it needs of the process and of the calls. *)
LEMMA TypeOfEach ==
  ASSUME TypeOK
  PROVE  /\ input \in Seq(Orders) /\ output \in Seq(Lines) /\ queue \in Seq(SUBSET (0 .. MaxCommands))
         /\ \A j \in DOMAIN input : input[j] \in Orders /\ input[j].id \in Nat
         /\ \A i \in DOMAIN output : output[i] \in Lines /\ output[i].by \in Nat /\ output[i].by \in 0 .. MaxCommands
         /\ \A q \in DOMAIN queue : queue[q] \subseteq 0 .. MaxCommands
         /\ pending \subseteq 0 .. MaxCommands /\ MaxCommands \in Nat /\ asked \in Nat /\ emitted \in Nat
         /\ prompts \in Nat /\ nodes \in Nat
         /\ \A k \in Ids : answer[k].from \subseteq 0 .. MaxCommands
<1> USE CommandBounds
<1>1. input \in Seq(Orders) /\ output \in Seq(Lines) /\ queue \in Seq(SUBSET (0 .. MaxCommands))
  BY DEF TypeOK, Orders, Lines, Kinds
<1>2. /\ \A j \in DOMAIN input : input[j] \in Orders
      /\ \A i \in DOMAIN output : output[i] \in Lines
      /\ \A q \in DOMAIN queue : queue[q] \in SUBSET (0 .. MaxCommands)
  BY <1>1, ElementOfSeq, LenProperties
<1>3. /\ \A j \in DOMAIN input : input[j].id \in Nat
      /\ \A i \in DOMAIN output : output[i].by \in 0 .. MaxCommands
  BY <1>2 DEF Orders, Lines
<1>4. \A k \in Ids : answer[k].from \subseteq 0 .. MaxCommands
  BY DEF TypeOK
<1>5. /\ pending \subseteq 0 .. MaxCommands /\ MaxCommands \in Nat /\ asked \in Nat /\ emitted \in Nat
      /\ prompts \in Nat /\ nodes \in Nat
  BY DEF TypeOK
<1> QED
  BY <1>1, <1>2, <1>3, <1>4, <1>5

Doings  == [Clients -> [id : 0 .. MaxCommands, op : Ops \cup {"none"}, at : {"idle", "locking", "awaiting"}]]
Answers == [Ids -> [kind : {"none", "response", "error", "timeout"}, from : SUBSET (0 .. MaxCommands)]]
Scalars ==
  /\ status \in {"starting", "ready", "closed"} /\ nodes \in NodeCounts /\ lus \in {"booting", "up", "dead"}
  /\ prompts \in Nat /\ emitted \in Nat /\ asked \in 0 .. MaxCommands
  /\ reader \in {"reading", "ended"} /\ probed \in BOOLEAN
  /\ pending \subseteq 0 .. MaxCommands /\ glued \subseteq 1 .. emitted
Typed ==
  /\ Scalars /\ input \in Seq(Orders) /\ output \in Seq(Lines) /\ queue \in Seq(SUBSET (0 .. MaxCommands))
  /\ file \in Seq(1 .. emitted) /\ lock \in Seq(Clients) /\ doing \in Doings /\ answer \in Answers

LEMMA Types == (TypeOK <=> Typed) /\ (TypeOK <=> Typed)'
<1>1. TypeOK <=> Typed
  BY Zenon DEF TypeOK, Typed, Scalars, Orders, Lines, Kinds, Doings, Answers
<1>2. TypeOK' <=> Typed'
  BY Zenon DEF TypeOK, Typed, Scalars, Orders, Lines, Kinds, Doings, Answers
<1> QED
  BY <1>1, <1>2

LEMMA BaseInit == Init => Base
<1> SUFFICES ASSUME Init PROVE Base
  OBVIOUS
<1> USE CommandBounds
<1>1. Probe \in Seq(Orders)
  BY DEF Probe, Orders
<1>2. answer \in Answers
  BY DEF Init, None, Ids, Answers
<1>3. doing \in Doings
  BY DEF Init, Idle, Doings
<1>4. Scalars
  <2>1. emitted = 0 /\ glued = {} /\ pending = {} /\ prompts = 0 /\ asked = 0 /\ nodes \in NodeCounts
    BY DEF Init
  <2>2. status = "starting" /\ lus = "booting" /\ reader = "reading"
    BY DEF Init
  <2>3. probed \in BOOLEAN
    BY Zenon DEF Init
  <2> QED
    BY <2>1, <2>2, <2>3 DEF Scalars
<1>5. TypeOK
  BY <1>1, <1>2, <1>3, <1>4, Types DEF Init, Typed
<1> QED
  BY <1>5 DEF Init, Base, Process, Idle

(* One command of lus: it prints lines of the given kinds.                 *)
Execution(kinds) ==
  /\ lus = "up" /\ input # <<>> /\ input' = Tail(input) /\ input' \in Seq(Orders)
  /\ UNCHANGED <<status, nodes, lus, readerVars, queue, callVars>>
  /\ Head(input) \in Orders /\ Head(input).id \in 0 .. MaxCommands
  /\ kinds \in Seq(Kinds) /\ Len(kinds) \in Nat
  /\ NewEvents(kinds) \in Nat /\ NewEvents(kinds) <= Len(kinds)
  /\ prompts' = IF kinds = <<>> THEN prompts + 1 ELSE 1
  /\ emitted' = emitted + NewEvents(kinds)
  /\ glued' = IF kinds # <<>> /\ kinds[1] = "event" THEN glued \cup {emitted + 1} ELSE glued
  /\ output' \in Seq(Lines) /\ Len(output) \in Nat
  /\ DOMAIN output = 1 .. Len(output) /\ DOMAIN output' = 1 .. Len(output) + Len(kinds)
  /\ \A i \in DOMAIN output : i \in DOMAIN output' /\ output'[i] = output[i]
  /\ \A i \in DOMAIN output' : i \in DOMAIN output \/ \E k \in 1 .. Len(kinds) : i = Len(output) + k
  /\ \A k \in 1 .. Len(kinds) :
       /\ output'[Len(output) + k].by = Head(input).id /\ output'[Len(output) + k].kind = kinds[k]
       /\ output'[Len(output) + k].prompts = IF k = 1 THEN prompts ELSE 0
       /\ kinds[k] = "event" => output'[Len(output) + k].ev = emitted + k
       /\ kinds[k] = "echo" => output'[Len(output) + k].ev \in 1 .. emitted
       /\ kinds[k] = "event" <=> k <= NewEvents(kinds)
       /\ kinds[k] = "final" => k = Len(kinds)
       /\ Head(input).op = "time" => k = 1 /\ kinds[k] = "final"
       /\ Head(input).op = "nodes" => kinds[k] = "node"

LEMMA Executing ==
  ASSUME TypeOK, LusExecutes
  PROVE  \E kinds \in Prints(Head(input).op) : Execution(kinds)
<1> USE CommandBounds
<1>1. /\ input # <<>> /\ input' = Tail(input) /\ UNCHANGED <<status, nodes, lus, readerVars, queue, callVars>>
      /\ lus = "up"
  BY DEF LusExecutes
<1>2. PICK kinds \in Prints(Head(input).op) :
        /\ output' = output \o Printed(kinds, Head(input).id)
        /\ prompts' = IF kinds = <<>> THEN prompts + 1 ELSE 1
        /\ emitted' = emitted + NewEvents(kinds)
        /\ glued' = IF kinds # <<>> /\ kinds[1] = "event" THEN glued \cup {emitted + 1} ELSE glued
  BY DEF LusExecutes
<1>3. /\ input' \in Seq(Orders) /\ Head(input) \in Orders
      /\ Head(input).id \in 0 .. MaxCommands /\ Head(input).op \in Ops \cup {"nodes", "time"}
  <2>1. input \in Seq(Orders)
    BY TypeOfEach
  <2>2. Tail(input) \in Seq(Orders) /\ Head(input) \in Orders
    BY <1>1, <2>1, Tails
  <2> QED
    BY <1>1, <2>2 DEF Orders
<1>4. /\ kinds \in Seq(Kinds)
      /\ \A i \in DOMAIN kinds : /\ kinds[i] = "final" => i = Len(kinds)
                                 /\ Head(input).op = "time" => i = 1 /\ kinds[i] = "final"
                                 /\ Head(input).op = "nodes" => kinds[i] = "node"
                                 /\ kinds[i] = "echo" => Len(kinds) <= emitted
                                 /\ kinds[i] = "event" => \A j \in 1 .. i : kinds[j] = "event"
  BY <1>3, KindsOf
<1> DEFINE L == Printed(kinds, Head(input).id)
<1>5. /\ L \in Seq(Lines) /\ DOMAIN L = 1 .. Len(kinds) /\ DOMAIN kinds = 1 .. Len(kinds)
      /\ Len(kinds) \in Nat /\ Len(L) = Len(kinds)
      /\ \A i \in DOMAIN kinds : /\ L[i].by = Head(input).id /\ L[i].kind = kinds[i]
                                 /\ L[i].prompts = IF i = 1 THEN prompts ELSE 0
                                 /\ L[i].ev = EventOf(kinds, i)
                                 /\ kinds[i] = "event" => EventOf(kinds, i) = emitted + i
                                 /\ kinds[i] = "echo" => EventOf(kinds, i) \in 1 .. emitted
  BY <1>3, <1>4, PrintedFacts
<1> HIDE DEF L
<1>6. /\ NewEvents(kinds) \in Nat /\ NewEvents(kinds) <= Len(kinds)
      /\ \A i \in DOMAIN kinds : kinds[i] = "event" <=> i <= NewEvents(kinds)
  BY <1>4, NewEventsFacts
<1>7. /\ output' \in Seq(Lines) /\ Len(output) \in Nat
      /\ DOMAIN output = 1 .. Len(output) /\ DOMAIN output' = 1 .. Len(output) + Len(kinds)
      /\ \A i \in DOMAIN output : output'[i] = output[i]
      /\ \A i \in 1 .. Len(kinds) : output'[Len(output) + i] = L[i]
  <2>1. output \in Seq(Lines) /\ L \in Seq(Lines)
    BY <1>5, TypeOfEach
  <2>2. output' = output \o L /\ Len(L) = Len(kinds)
    BY <1>2, <1>5 DEF L
  <2>3. /\ output \o L \in Seq(Lines) /\ Len(output) \in Nat
        /\ DOMAIN output = 1 .. Len(output) /\ DOMAIN L = 1 .. Len(L)
    BY <2>1, Concats
  <2>4. DOMAIN (output \o L) = 1 .. Len(output) + Len(L)
    BY <2>1, Concats
  <2>5. \A i \in DOMAIN output : (output \o L)[i] = output[i]
    BY <2>1, Concats
  <2>6. \A i \in DOMAIN L : (output \o L)[Len(output) + i] = L[i]
    BY <2>1, Concats
  <2> QED
    BY <2>2, <2>3, <2>4, <2>5, <2>6
<1>8. \A i \in DOMAIN output' : i \in DOMAIN output \/ \E k \in 1 .. Len(kinds) : i = Len(output) + k
  <2> SUFFICES ASSUME NEW i \in DOMAIN output', i \notin DOMAIN output
               PROVE  \E k \in 1 .. Len(kinds) : i = Len(output) + k
    OBVIOUS
  <2>1. i - Len(output) \in 1 .. Len(kinds) /\ i = Len(output) + (i - Len(output))
    BY <1>5, <1>7
  <2> QED
    BY <2>1
<1>9. \A i \in DOMAIN output : i \in DOMAIN output'
  BY <1>5, <1>7
<1>10. ASSUME NEW k \in 1 .. Len(kinds)
       PROVE  /\ output'[Len(output) + k].by = Head(input).id /\ output'[Len(output) + k].kind = kinds[k]
              /\ output'[Len(output) + k].prompts = IF k = 1 THEN prompts ELSE 0
              /\ kinds[k] = "event" => output'[Len(output) + k].ev = emitted + k
              /\ kinds[k] = "echo" => output'[Len(output) + k].ev \in 1 .. emitted
  <2>1. output'[Len(output) + k] = L[k] /\ k \in DOMAIN kinds
    BY <1>5, <1>7
  <2> QED
    BY <1>5, <2>1
<1>11. ASSUME NEW k \in 1 .. Len(kinds)
       PROVE  /\ kinds[k] = "event" <=> k <= NewEvents(kinds)
              /\ kinds[k] = "final" => k = Len(kinds)
              /\ Head(input).op = "time" => k = 1 /\ kinds[k] = "final"
              /\ Head(input).op = "nodes" => kinds[k] = "node"
  BY <1>4, <1>5, <1>6
<1>12. /\ kinds \in Seq(Kinds) /\ Len(kinds) \in Nat
       /\ output' \in Seq(Lines) /\ Len(output) \in Nat
       /\ DOMAIN output = 1 .. Len(output) /\ DOMAIN output' = 1 .. Len(output) + Len(kinds)
       /\ \A i \in DOMAIN output : i \in DOMAIN output' /\ output'[i] = output[i]
  BY <1>4, <1>5, <1>7, <1>9
<1>13. Execution(kinds)
  BY <1>1, <1>2, <1>3, <1>6, <1>8, <1>10, <1>11, <1>12, Zenon DEF Execution
<1> QED
  BY <1>13

(* Steps of lus and of the reader.                                         *)
LEMMA BaseLus ==
  ASSUME Base, LusBoots \/ LusExecutes \/ LusDies
  PROVE  Base'
<1> USE CommandBounds
<1>0. TypeOK /\ Typed /\ Process
  BY Types DEF Base
<1>1. CASE LusBoots
  <2>1. /\ Copies(InitEvents, "event") \in Seq(Kinds) /\ Len(Copies(InitEvents, "event")) = InitEvents
        /\ \A i \in 1 .. InitEvents : Copies(InitEvents, "event")[i] = "event"
    BY CopiesFacts DEF Kinds
  <2>2. 0 \in 0 .. MaxCommands
    OBVIOUS
  <2> DEFINE L == Printed(Copies(InitEvents, "event"), 0)
  <2>3. /\ L \in Seq(Lines) /\ DOMAIN L = 1 .. InitEvents
        /\ \A i \in DOMAIN L : L[i].ev = emitted + i
    BY <1>0, <2>1, <2>2, PrintedFacts
  <2>4. emitted = 0 /\ glued = {} /\ file = <<>> /\ output' = L
    BY <1>0, <1>1 DEF LusBoots, Process
  <2>5. Typed'
    BY <1>0, <1>1, <2>3, <2>4 DEF LusBoots, Typed, Scalars, readerVars, callVars
  <2>6. Process'
    BY <1>0, <1>1, <2>3, <2>4 DEF LusBoots, Process, readerVars, callVars
  <2> QED
    BY <2>5, <2>6, Types DEF Base
<1>2. CASE LusExecutes
  <2>1. PICK kinds \in Prints(Head(input).op) : Execution(kinds)
    BY <1>2, Executing DEF Base
  <2>2. /\ emitted \in Nat /\ emitted' \in Nat /\ 1 .. emitted \subseteq 1 .. emitted'
        /\ emitted' = emitted + NewEvents(kinds) /\ NewEvents(kinds) \in Nat
    <3>1. emitted \in Nat
      BY <1>0 DEF Typed, Scalars
    <3>2. emitted' = emitted + NewEvents(kinds) /\ NewEvents(kinds) \in Nat
      BY <2>1 DEF Execution
    <3> QED
      BY <3>1, <3>2
  <2>3. glued' \subseteq 1 .. emitted'
    <3>1. CASE kinds # <<>> /\ kinds[1] = "event"
      <4>1. 1 \in 1 .. Len(kinds) /\ glued' = glued \cup {emitted + 1}
        <5>1. kinds \in Seq(Kinds) /\ Len(kinds) \in Nat
          BY <2>1 DEF Execution
        <5>2. Len(kinds) # 0
          BY <3>1, <5>1, EmptySeq
        <5> QED
          BY <2>1, <3>1, <5>1, <5>2 DEF Execution
      <4>2. 1 <= NewEvents(kinds)
        BY <2>1, <3>1, <4>1 DEF Execution
      <4> QED
        BY <1>0, <2>2, <4>1, <4>2 DEF Typed, Scalars
    <3>2. CASE ~(kinds # <<>> /\ kinds[1] = "event")
      BY <1>0, <2>1, <2>2, <3>2 DEF Typed, Scalars, Execution
    <3> QED
      BY <3>1, <3>2
  <2>4. file' \in Seq(1 .. emitted')
    <3>1. file \in Seq(1 .. emitted) /\ file' = file
      BY <1>0, <2>1 DEF Typed, readerVars, Execution
    <3> QED
      BY <2>2, <3>1
  <2>5. prompts' \in Nat /\ prompts' >= 1
    <3>1. prompts' = IF kinds = <<>> THEN prompts + 1 ELSE 1
      BY <2>1 DEF Execution
    <3>2. prompts \in Nat
      BY <1>0 DEF Typed, Scalars
    <3> QED
      BY <3>1, <3>2
  <2>6. Typed'
    BY <1>0, <2>1, <2>2, <2>3, <2>4, <2>5 DEF Typed, Scalars, readerVars, callVars, Execution
  <2>7. ASSUME NEW i \in DOMAIN output', output'[i].kind \in {"event", "echo"} PROVE output'[i].ev \in 1 .. emitted'
    <3>1. CASE i \in DOMAIN output
      <4>1. output'[i] = output[i]
        BY <2>1, <3>1 DEF Execution
      <4>2. output[i].ev \in 1 .. emitted
        BY <1>0, <2>7, <3>1, <4>1 DEF Process
      <4> QED
        BY <2>2, <4>1, <4>2
    <3>2. ASSUME NEW k \in 1 .. Len(kinds), i = Len(output) + k PROVE output'[i].ev \in 1 .. emitted'
      <4>1. CASE kinds[k] = "event"
        <5>1. output'[Len(output) + k].ev = emitted + k /\ k <= NewEvents(kinds)
          BY <2>1, <4>1 DEF Execution
        <5> QED
          BY <2>2, <3>2, <5>1
      <4>2. CASE kinds[k] = "echo"
        <5>1. output'[Len(output) + k].ev \in 1 .. emitted
          BY <2>1, <4>2 DEF Execution
        <5> QED
          BY <2>2, <3>2, <5>1
      <4> QED
        BY <2>1, <2>7, <3>2, <4>1, <4>2 DEF Execution
    <3> QED
      BY <2>1, <3>1, <3>2 DEF Execution
  <2>8. Process'
    BY <1>0, <2>1, <2>5, <2>7 DEF Process, readerVars, callVars, Execution
  <2> QED
    BY <2>6, <2>8, Types DEF Base
<1>3. CASE LusDies
  <2>1. input' \in Seq(Orders)
    BY <1>3 DEF LusDies
  <2>2. Typed'
    BY <1>0, <1>3, <2>1 DEF LusDies, Typed, Scalars, readerVars, callVars
  <2>3. Process'
    BY <1>0, <1>3 DEF LusDies, Process, readerVars, callVars
  <2> QED
    BY <2>2, <2>3, Types DEF Base
<1> QED
  BY <1>1, <1>2, <1>3

(* What one iteration of the reader takes from the output.                 *)
LEMMA Taking ==
  ASSUME Base, Reading
  PROVE  /\ reader = "reading" /\ output' \in Seq(Lines) /\ Head(output) = output[1] /\ 1 \in DOMAIN output
         /\ output[1] \in Lines /\ output[1].by \in 0 .. MaxCommands
         /\ DOMAIN output \subseteq Nat \ {0} /\ DOMAIN output' \subseteq Nat \ {0}
         /\ \A i \in DOMAIN output' : i + 1 \in DOMAIN output /\ output'[i] = output[i + 1]
         /\ \A i \in DOMAIN output : i # 1 => i - 1 \in DOMAIN output' /\ output'[i - 1] = output[i]
<1>1. output \in Seq(Lines) /\ output # <<>> /\ output' = Tail(output) /\ reader = "reading"
  BY TypeOfEach DEF Base, Reading
<1>2. /\ Len(output) \in Nat \ {0} /\ DOMAIN output = 1 .. Len(output) /\ Head(output) = output[1] /\ output[1] \in Lines
      /\ Tail(output) \in Seq(Lines) /\ DOMAIN Tail(output) = 1 .. Len(output) - 1
      /\ \A i \in DOMAIN Tail(output) : Tail(output)[i] = output[i + 1]
  BY <1>1, Tails
<1>3. output[1].by \in 0 .. MaxCommands
  BY <1>2 DEF Lines
<1> QED
  BY <1>1, <1>2, <1>3

(* The response under way is put into the queue.                           *)
LEMMA Flushes ==
  ASSUME Base
  PROVE  /\ FlushPending(queue) \in Seq(SUBSET (0 .. MaxCommands)) /\ Len(queue) \in Nat /\ DOMAIN queue = 1 .. Len(queue)
         /\ pending = {} => FlushPending(queue) = queue
         /\ pending # {} => /\ DOMAIN FlushPending(queue) = 1 .. Len(queue) + 1
                            /\ Len(FlushPending(queue)) = Len(queue) + 1
                            /\ FlushPending(queue)[Len(queue) + 1] = pending
         /\ \A q \in DOMAIN queue : FlushPending(queue)[q] = queue[q]
<1>1. queue \in Seq(SUBSET (0 .. MaxCommands)) /\ pending \in SUBSET (0 .. MaxCommands)
  BY TypeOfEach DEF Base
<1>2. Len(queue) \in Nat /\ DOMAIN queue = 1 .. Len(queue)
  BY <1>1, LenProperties
<1>3. CASE pending = {}
  BY <1>1, <1>2, <1>3 DEF FlushPending
<1>4. CASE pending # {}
  <2>1. FlushPending(queue) = Append(queue, pending)
    BY <1>4 DEF FlushPending
  <2>2. /\ Append(queue, pending) \in Seq(SUBSET (0 .. MaxCommands))
        /\ DOMAIN Append(queue, pending) = 1 .. Len(queue) + 1
        /\ \A q \in DOMAIN queue : Append(queue, pending)[q] = queue[q]
        /\ Append(queue, pending)[Len(queue) + 1] = pending
    BY <1>1, Appends
  <2>3. Len(Append(queue, pending)) = Len(queue) + 1
    BY <1>1, AppendProperties
  <2> QED
    BY <1>2, <1>4, <2>1, <2>2, <2>3
<1> QED
  BY <1>3, <1>4

LEMMA BaseReader ==
  ASSUME Base, SaveEvent \/ ReadProbe \/ ReadResponse \/ ReaderEnds \/ CloseSession \/ CancelReader
  PROVE  Base'
<1> USE CommandBounds
<1>0. TypeOK /\ Typed /\ Process
  BY Types DEF Base
<1>1. CASE SaveEvent
  <2>1. Reading /\ file' = Append(file, output[1].ev) /\ output[1].kind \in {"event", "echo"}
    BY <1>1, Taking DEF SaveEvent, IsEvent, Base
  <2>2. /\ UNCHANGED <<status, nodes, lus, input, prompts, emitted, glued, reader, probed, pending, queue, callVars>>
        /\ lus # "booting"
    BY <1>0, <1>1 DEF SaveEvent, Process, Reading
  <2>3. output[1].ev \in 1 .. emitted
    BY <1>0, <2>1, Taking DEF Process, Base
  <2>4. file' \in Seq(1 .. emitted)
    BY <1>0, <2>1, <2>3, Appends DEF Typed
  <2>5. output' \in Seq(Lines)
    BY <2>1, Taking
  <2>6. Typed'
    BY <1>0, <2>2, <2>4, <2>5 DEF Typed, Scalars, callVars
  <2>7. Process'
    BY <1>0, <2>1, <2>2, Taking DEF Process, callVars
  <2> QED
    BY <2>6, <2>7, Types DEF Base
<1>2. CASE ReadProbe
  <2>1. /\ Reading /\ probed' \in BOOLEAN /\ status' \in {"starting", "ready", "closed"}
        /\ status = "starting"
        /\ UNCHANGED <<nodes, lus, input, prompts, emitted, glued, reader, pending, queue, file, callVars>>
    <3>1. probed \in BOOLEAN /\ status \in {"starting", "ready", "closed"}
      BY <1>0 DEF Typed, Scalars
    <3>2. probed' \in BOOLEAN
      BY <1>2, <3>1, Zenon DEF ReadProbe, IsNode
    <3> QED
      BY <1>2, <3>1, <3>2 DEF ReadProbe
  <2>2. lus # "booting" /\ reader = "reading"
    BY <1>0, <2>1 DEF Process, Reading
  <2>3. Typed'
    BY <1>0, <2>1, Taking DEF Typed, Scalars, callVars
  <2>4. Process'
    BY <1>0, <2>1, <2>2, Taking DEF Process, callVars
  <2> QED
    BY <2>3, <2>4, Types DEF Base
<1>3. CASE ReadResponse
  <2>1. /\ Reading
        /\ UNCHANGED <<status, nodes, lus, input, prompts, emitted, glued, reader, probed, file, callVars>>
    BY <1>3 DEF ReadResponse
  <2>2. lus # "booting" /\ reader = "reading"
    BY <1>0, <2>1 DEF Process, Reading
  <2>3. output' \in Seq(Lines) /\ Head(output).by \in 0 .. MaxCommands
    BY <2>1, Taking
  <2>4. FlushPending(queue) \in Seq(SUBSET (0 .. MaxCommands)) /\ {Head(output).by} \in SUBSET (0 .. MaxCommands)
    BY <2>3, Flushes
  <2>5. Append(FlushPending(queue), {Head(output).by}) \in Seq(SUBSET (0 .. MaxCommands))
    BY <2>4
  <2>6. queue' \in Seq(SUBSET (0 .. MaxCommands)) /\ pending' \subseteq 0 .. MaxCommands
    BY <1>0, <1>3, <2>3, <2>4, <2>5 DEF ReadResponse, Typed, Scalars
  <2>7. Typed'
    BY <1>0, <2>1, <2>3, <2>6 DEF Typed, Scalars, callVars
  <2>8. Process'
    BY <1>0, <2>1, <2>2, Taking DEF Process, callVars
  <2> QED
    BY <2>7, <2>8, Types DEF Base
<1>4. CASE ReaderEnds \/ CancelReader
  <2>1. /\ reader' = "ended" /\ status' = "closed" /\ queue' = FlushPending(queue) /\ pending' = {}
        /\ UNCHANGED <<lusVars, probed, file, callVars>>
    BY <1>4 DEF ReaderEnds, CancelReader, StatusAtEof
  <2>2. Typed'
    BY <1>0, <2>1, Flushes DEF Typed, Scalars, lusVars, callVars
  <2>3. Process'
    BY <1>0, <2>1 DEF Process, lusVars, callVars
  <2> QED
    BY <2>2, <2>3, Types DEF Base
<1>5. CASE CloseSession
  <2>1. Typed'
    BY <1>0, <1>5 DEF CloseSession, Typed, Scalars, lusVars, readerVars, callVars
  <2>2. Process'
    BY <1>0, <1>5 DEF CloseSession, Process, lusVars, readerVars, callVars
  <2> QED
    BY <2>1, <2>2, Types DEF Base
<1> QED
  BY <1>1, <1>2, <1>3, <1>4, <1>5

(* A command is appended to stdin, unless nobody reads it any more.        *)
LEMMA Sends ==
  ASSUME Base, NEW id \in 0 .. MaxCommands, NEW op \in Ops
  PROVE  /\ Sent(id, op) \in Seq(Orders) /\ Len(input) \in Nat /\ DOMAIN input = 1 .. Len(input)
         /\ \A j \in DOMAIN input : j \in DOMAIN Sent(id, op) /\ Sent(id, op)[j] = input[j]
         /\ \A j \in DOMAIN Sent(id, op) : j \in Nat /\ (j \in DOMAIN input
              \/ (j = Len(input) + 1 /\ Sent(id, op)[j] = [id |-> id, op |-> op]))
<1>1. input \in Seq(Orders) /\ [id |-> id, op |-> op] \in Orders
  BY TypeOfEach DEF Base, Orders
<1>2. Len(input) \in Nat /\ DOMAIN input = 1 .. Len(input)
  BY <1>1, LenProperties
<1>3. CASE lus = "dead"
  BY <1>1, <1>2, <1>3 DEF Sent
<1>4. CASE lus # "dead"
  <2>1. Sent(id, op) = Append(input, [id |-> id, op |-> op])
    BY <1>4 DEF Sent
  <2>2. /\ Append(input, [id |-> id, op |-> op]) \in Seq(Orders)
        /\ DOMAIN Append(input, [id |-> id, op |-> op]) = 1 .. Len(input) + 1
        /\ \A j \in DOMAIN input : Append(input, [id |-> id, op |-> op])[j] = input[j]
        /\ Append(input, [id |-> id, op |-> op])[Len(input) + 1] = [id |-> id, op |-> op]
    BY <1>1, Appends
  <2> QED
    BY <1>2, <2>1, <2>2
<1> QED
  BY <1>3, <1>4

(* A call ends: its connection is idle, its command answered.              *)
LEMMA Releases ==
  ASSUME Base, NEW c \in Clients, Holds(c), doing[c].at # "idle",
         NEW a \in [kind : {"none", "response", "error", "timeout"}, from : SUBSET (0 .. MaxCommands)], Release(c, a)
  PROVE  /\ lock' \in Seq(Clients) /\ doing' \in Doings /\ answer' \in Answers
         /\ doing' = [doing EXCEPT ![c] = Idle] /\ doing'[c] = Idle
         /\ \A d \in Clients : d # c => doing'[d] = doing[d]
         /\ doing[c].id \in Ids /\ doing[c].id \in 1 .. asked /\ answer'[doing[c].id] = a
         /\ \A k \in Ids : k # doing[c].id => answer'[k] = answer[k]
         /\ 1 \in DOMAIN lock /\ lock[1] = c /\ DOMAIN lock \subseteq Nat \ {0} /\ DOMAIN lock' \subseteq Nat \ {0}
         /\ \A k \in DOMAIN lock' : k + 1 \in DOMAIN lock /\ lock'[k] = lock[k + 1]
         /\ \A k \in DOMAIN lock : k # 1 => k - 1 \in DOMAIN lock' /\ lock'[k - 1] = lock[k]
<1> USE CommandBounds
<1>1. /\ lock \in Seq(Clients) /\ doing \in Doings /\ answer \in Answers /\ asked \in 0 .. MaxCommands
      /\ doing[c].id \in 1 .. asked
  BY Types DEF Base, Typed, Process, Scalars
<1>2. lock # <<>> /\ Head(lock) = c /\ lock' = Tail(lock)
  BY DEF Holds, Release
<1>3. /\ Len(lock) \in Nat \ {0} /\ DOMAIN lock = 1 .. Len(lock) /\ lock[1] = c /\ 1 \in DOMAIN lock
      /\ lock' \in Seq(Clients) /\ DOMAIN lock' = 1 .. Len(lock) - 1
      /\ \A k \in DOMAIN lock' : lock'[k] = lock[k + 1]
  BY <1>1, <1>2, Tails
<1>4. doing[c].id \in Ids
  BY <1>1 DEF Ids
<1>5. /\ doing' = [doing EXCEPT ![c] = Idle] /\ answer' = [answer EXCEPT ![doing[c].id] = a]
      /\ Idle \in [id : 0 .. MaxCommands, op : Ops \cup {"none"}, at : {"idle", "locking", "awaiting"}]
  BY DEF Release, Idle
<1>6. /\ doing' \in Doings /\ doing'[c] = Idle /\ \A d \in Clients : d # c => doing'[d] = doing[d]
  BY <1>1, <1>5 DEF Doings
<1>7. /\ answer' \in Answers /\ answer'[doing[c].id] = a
      /\ \A k \in Ids : k # doing[c].id => answer'[k] = answer[k]
  BY <1>1, <1>4, <1>5 DEF Answers
<1>8. /\ 1 \in DOMAIN lock /\ lock[1] = c /\ DOMAIN lock \subseteq Nat \ {0} /\ DOMAIN lock' \subseteq Nat \ {0}
      /\ \A k \in DOMAIN lock' : k + 1 \in DOMAIN lock /\ lock'[k] = lock[k + 1]
  BY <1>3
<1>9. \A k \in DOMAIN lock : k # 1 => k - 1 \in DOMAIN lock' /\ lock'[k - 1] = lock[k]
  BY <1>3
<1> QED
  BY <1>1, <1>3, <1>4, <1>5, <1>6, <1>7, <1>8, <1>9

LEMMA BaseCalls ==
  ASSUME Base, NEW c \in Clients,
         \/ Refuse(c) \/ Write(c) \/ StdinBroken(c) \/ GetResponse(c) \/ TimeOut(c)
         \/ \E op \in Ops : Ask(c, op)
  PROVE  Base'
<1> USE CommandBounds
<1>0. TypeOK /\ Typed /\ Process
  BY Types DEF Base
<1>1. CASE Refuse(c)
  <2>1. /\ asked' = asked + 1 /\ asked < MaxCommands /\ (queue' = queue \/ queue' = <<>>)
        /\ answer' = [answer EXCEPT ![asked + 1] = Failed("error")]
        /\ UNCHANGED <<status, lusVars, readerVars, lock, doing>>
    BY <1>1 DEF Refuse, Drained
  <2>2. answer' \in Answers
    BY <1>0, <2>1 DEF Typed, Answers, Failed
  <2>3. queue' \in Seq(SUBSET (0 .. MaxCommands)) /\ asked' \in 0 .. MaxCommands /\ asked \in Nat
    <3>1. asked \in 0 .. MaxCommands /\ queue \in Seq(SUBSET (0 .. MaxCommands))
      BY <1>0 DEF Typed, Scalars
    <3>2. <<>> \in Seq(SUBSET (0 .. MaxCommands))
      OBVIOUS
    <3>3. queue' \in Seq(SUBSET (0 .. MaxCommands))
      BY <2>1, <3>1, <3>2
    <3> QED
      BY <2>1, <3>1, <3>3
  <2>4. Typed'
    BY <1>0, <2>1, <2>2, <2>3 DEF Typed, Scalars, lusVars, readerVars
  <2>5. Process'
    BY <1>0, <2>1, <2>3 DEF Process, lusVars, readerVars
  <2> QED
    BY <2>4, <2>5, Types DEF Base
<1>2. CASE Write(c)
  <2>1. /\ doing[c].at = "locking" /\ doing' = [doing EXCEPT ![c].at = "awaiting"]
        /\ input' = Sent(doing[c].id, doing[c].op)
        /\ UNCHANGED <<status, nodes, lus, output, prompts, emitted, glued, readerVars, queue, lock, asked, answer>>
    BY <1>2 DEF Write
  <2>2. doing[c].id \in 0 .. MaxCommands /\ doing[c].op \in Ops /\ doing[c].id \in 1 .. asked
    <3>1. doing[c].op \in Ops /\ doing[c].id \in 1 .. asked
      BY <1>0, <2>1 DEF Process
    <3>2. asked \in 0 .. MaxCommands
      BY <1>0 DEF Typed, Scalars
    <3> QED
      BY <3>1, <3>2
  <2>3. input' \in Seq(Orders)
    BY <2>1, <2>2, Sends
  <2>4. doing' \in Doings
    BY <1>0, <2>1 DEF Typed, Doings
  <2>5. Typed'
    BY <1>0, <2>1, <2>3, <2>4 DEF Typed, Scalars, readerVars
  <2>6. \A d \in Clients : doing'[d].at # "idle" => doing'[d].op \in Ops /\ doing'[d].id \in 1 .. asked'
    BY <1>0, <2>1, <2>2 DEF Process, Typed, Doings
  <2>7. Process'
    BY <1>0, <2>1, <2>6 DEF Process, readerVars
  <2> QED
    BY <2>5, <2>7, Types DEF Base
<1>3. CASE StdinBroken(c) \/ GetResponse(c) \/ TimeOut(c)
  <2>1. /\ Holds(c) /\ doing[c].at # "idle"
        /\ UNCHANGED <<status, lusVars, readerVars, asked>>
    BY <1>3 DEF StdinBroken, GetResponse, TimeOut
  <2>2. PICK a \in [kind : {"none", "response", "error", "timeout"}, from : SUBSET (0 .. MaxCommands)] : Release(c, a)
    <3>1. CASE StdinBroken(c)
      <4>1. Failed("error") \in [kind : {"none", "response", "error", "timeout"}, from : SUBSET (0 .. MaxCommands)]
        BY DEF Failed
      <4> QED
        BY <3>1, <4>1 DEF StdinBroken, Unlocked
    <3>2. CASE GetResponse(c)
      <4>1. queue # <<>> /\ queue \in Seq(SUBSET (0 .. MaxCommands))
        BY <1>0, <3>2 DEF GetResponse, Typed
      <4>2. Head(queue) \in SUBSET (0 .. MaxCommands)
        BY <4>1, Tails
      <4>3. Replied(Head(queue)) \in [kind : {"none", "response", "error", "timeout"}, from : SUBSET (0 .. MaxCommands)]
        BY <4>2 DEF Replied
      <4> QED
        BY <3>2, <4>3 DEF GetResponse
    <3>3. CASE TimeOut(c)
      <4>1. Failed("timeout") \in [kind : {"none", "response", "error", "timeout"}, from : SUBSET (0 .. MaxCommands)]
        BY DEF Failed
      <4> QED
        BY <3>3, <4>1 DEF TimeOut
    <3> QED
      BY <1>3, <3>1, <3>2, <3>3
  <2>3. /\ lock' \in Seq(Clients) /\ doing' \in Doings /\ answer' \in Answers /\ doing'[c] = Idle
        /\ \A d \in Clients : d # c => doing'[d] = doing[d]
    BY <2>1, <2>2, Releases
  <2>4. queue' \in Seq(SUBSET (0 .. MaxCommands))
    <3>1. queue' = queue \/ (queue # <<>> /\ queue' = Tail(queue))
      BY <1>3 DEF StdinBroken, GetResponse, TimeOut, Taken
    <3>2. queue \in Seq(SUBSET (0 .. MaxCommands))
      BY <1>0 DEF Typed
    <3>3. queue # <<>> => Tail(queue) \in Seq(SUBSET (0 .. MaxCommands))
      BY <3>2, Tails
    <3> QED
      BY <3>1, <3>2, <3>3
  <2>5. Typed'
    BY <1>0, <2>1, <2>3, <2>4 DEF Typed, Scalars, lusVars, readerVars
  <2>6. Process'
    BY <1>0, <2>1, <2>3 DEF Process, Idle, lusVars, readerVars
  <2> QED
    BY <2>5, <2>6, Types DEF Base
<1>4. ASSUME NEW op \in Ops, Ask(c, op) PROVE Base'
  <2>1. /\ doing[c] = Idle /\ asked < MaxCommands /\ asked' = asked + 1 /\ queue' = <<>>
        /\ lock' = Append(lock, c)
        /\ doing' = [doing EXCEPT ![c] = [id |-> asked + 1, op |-> op,
                                          at |-> IF lock = <<>> THEN "awaiting" ELSE "locking"]]
        /\ input' = IF lock = <<>> THEN Sent(asked + 1, op) ELSE input
        /\ UNCHANGED <<status, nodes, lus, output, prompts, emitted, glued, readerVars, answer>>
    BY <1>4 DEF Ask, Drained
  <2>2. asked + 1 \in 0 .. MaxCommands /\ asked + 1 \in 1 .. asked' /\ asked \in Nat
    BY <1>0, <2>1 DEF Typed, Scalars
  <2>3. input' \in Seq(Orders)
    BY <1>0, <2>1, <2>2, Sends DEF Typed
  <2>4. doing' \in Doings
    BY <1>0, <2>1, <2>2 DEF Typed, Doings
  <2>5. lock' \in Seq(Clients)
    BY <1>0, <2>1, Appends DEF Typed
  <2>6. Typed'
    BY <1>0, <2>1, <2>2, <2>3, <2>4, <2>5 DEF Typed, Scalars, readerVars
  <2>7. \A d \in Clients : doing'[d].at # "idle" => doing'[d].op \in Ops /\ doing'[d].id \in 1 .. asked'
    BY <1>0, <2>1, <2>2 DEF Process, Typed, Doings
  <2>8. Process'
    BY <1>0, <2>1, <2>7 DEF Process, readerVars
  <2> QED
    BY <2>6, <2>8, Types DEF Base
<1> QED
  BY <1>1, <1>2, <1>3, <1>4

LEMMA BaseIdle ==
  ASSUME Base, UNCHANGED vars
  PROVE  Base'
BY Zenon DEF Base, TypeOK, Process, vars, lusVars, readerVars, callVars

LEMMA BaseKept ==
  ASSUME Base, [Next]_vars
  PROVE  Base'
<1>1. CASE UNCHANGED vars
  BY <1>1, BaseIdle
<1>2. CASE LusBoots \/ LusExecutes \/ LusDies
  BY <1>2, BaseLus
<1>3. CASE SaveEvent \/ ReadProbe \/ ReadResponse \/ ReaderEnds \/ CloseSession \/ CancelReader
  BY <1>3, BaseReader
<1>4. ASSUME NEW c \in Clients,
             \/ Refuse(c) \/ Write(c) \/ StdinBroken(c) \/ GetResponse(c) \/ TimeOut(c)
             \/ \E op \in Ops : Ask(c, op)
      PROVE  Base'
  BY <1>4, BaseCalls
<1> QED
  BY <1>1, <1>2, <1>3, <1>4 DEF Next, Quiet

(* In every reachable state each variable of a session has its type, and   *)
(* events.ndjson holds only events that lus emitted.                       *)
THEOREM TypeCorrect == Spec => []TypeOK
<1>1. Base /\ [Next]_vars => Base'
  BY BaseKept
<1>2. Base => TypeOK
  BY DEF Base
<1> QED
  BY <1>1, <1>2, BaseInit, PTL DEF Spec

-----------------------------------------------------------------------------
(* The events.                                                             *)
LEMMA EventsExecuted ==
  ASSUME EInv, LusExecutes
  PROVE  EventFlow' /\ EventsSavedInOrder'
<1>0. Base /\ Typed /\ Process /\ EventFlow /\ EventsSavedInOrder
  BY Types DEF EInv, Base
<1>1. PICK kinds \in Prints(Head(input).op) : Execution(kinds)
  BY <1>0, Executing DEF Base
<1>2. /\ reader' = reader /\ file' = file /\ emitted' = emitted + NewEvents(kinds) /\ NewEvents(kinds) \in Nat
      /\ glued \subseteq glued' /\ emitted \in Nat /\ glued \subseteq 1 .. emitted /\ prompts >= 1 /\ prompts \in Nat
      /\ Len(output) \in Nat /\ Len(kinds) \in Nat /\ NewEvents(kinds) <= Len(kinds)
      /\ DOMAIN output = 1 .. Len(output) /\ DOMAIN output' = 1 .. Len(output) + Len(kinds)
  BY <1>0, <1>1 DEF Execution, Typed, Scalars, Process, readerVars
<1>3. /\ \A i \in DOMAIN output : i \in DOMAIN output' /\ output'[i] = output[i]
      /\ \A i \in DOMAIN output' : i \in DOMAIN output \/ \E k \in 1 .. Len(kinds) : i = Len(output) + k
  BY <1>1 DEF Execution
<1>4. \A k \in 1 .. Len(kinds) :
        /\ output'[Len(output) + k].kind = kinds[k]
        /\ output'[Len(output) + k].prompts = IF k = 1 THEN prompts ELSE 0
        /\ kinds[k] = "event" => output'[Len(output) + k].ev = emitted + k
        /\ kinds[k] = "echo" => output'[Len(output) + k].ev \in 1 .. emitted
        /\ kinds[k] = "event" <=> k <= NewEvents(kinds)
  BY <1>1 DEF Execution
<1>5. kinds # <<>> /\ kinds[1] = "event" => emitted + 1 \in glued'
  BY <1>1 DEF Execution
<1>6. \A i \in DOMAIN output : output[i].kind \in {"event", "echo"} => output[i].ev \in 1 .. emitted
  BY <1>0 DEF Process
<1>7. \A f \in DOMAIN file : file[f] \in 1 .. emitted
  BY <1>0, ElementOfSeq, LenProperties DEF Typed
<1>8. ASSUME NEW i \in DOMAIN output', output'[i].kind = "event", output'[i].prompts > 0 PROVE output'[i].ev \in glued'
  <2>1. CASE i \in DOMAIN output
    BY <1>0, <1>2, <1>3, <1>8, <2>1 DEF EventFlow
  <2>2. ASSUME NEW k \in 1 .. Len(kinds), i = Len(output) + k PROVE output'[i].ev \in glued'
    <3>1. kinds[k] = "event" /\ output'[i].ev = emitted + k /\ k = 1
      BY <1>4, <1>8, <2>2
    <3>2. kinds # <<>>
      BY <2>2
    <3> QED
      BY <1>5, <3>1, <3>2
  <2> QED
    BY <1>3, <2>1, <2>2
<1>9. ASSUME NEW i \in DOMAIN output', output'[i].kind = "event", output'[i].prompts = 0
      PROVE  /\ \A f \in DOMAIN file' : file'[f] < output'[i].ev
             /\ \A j \in DOMAIN output' : j < i /\ output'[j].kind \in {"event", "echo"} => output'[j].ev < output'[i].ev
  <2>1. CASE i \in DOMAIN output
    <3>1. \A f \in DOMAIN file' : file'[f] < output'[i].ev
      BY <1>0, <1>2, <1>3, <1>9, <2>1 DEF EventFlow
    <3>2. \A j \in DOMAIN output' : j < i => j \in DOMAIN output
      BY <1>2, <2>1
    <3> QED
      BY <1>0, <1>3, <1>9, <2>1, <3>1, <3>2 DEF EventFlow
  <2>2. ASSUME NEW k \in 1 .. Len(kinds), i = Len(output) + k
        PROVE  /\ \A f \in DOMAIN file' : file'[f] < output'[i].ev
               /\ \A j \in DOMAIN output' : j < i /\ output'[j].kind \in {"event", "echo"} => output'[j].ev < output'[i].ev
    <3>1. kinds[k] = "event" /\ output'[i].ev = emitted + k /\ k <= NewEvents(kinds) /\ k \in Nat /\ k >= 1
      BY <1>4, <1>9, <2>2
    <3>2. \A f \in DOMAIN file' : file'[f] < output'[i].ev
      BY <1>2, <1>7, <3>1
    <3>3. ASSUME NEW j \in DOMAIN output', j < i, output'[j].kind \in {"event", "echo"} PROVE output'[j].ev < output'[i].ev
      <4>1. CASE j \in DOMAIN output
        BY <1>2, <1>3, <1>6, <3>1, <3>3, <4>1
      <4>2. ASSUME NEW m \in 1 .. Len(kinds), j = Len(output) + m PROVE output'[j].ev < output'[i].ev
        <5>1. m < k /\ m \in Nat
          BY <1>2, <2>2, <3>3, <4>2
        <5>2. kinds[m] = "event"
          BY <1>2, <1>4, <3>1, <5>1
        <5>3. output'[j].ev = emitted + m
          BY <1>4, <4>2, <5>2
        <5> QED
          BY <1>2, <3>1, <5>1, <5>3
      <4> QED
        BY <1>3, <4>1, <4>2
    <3> QED
      BY <3>2, <3>3
  <2> QED
    BY <1>3, <2>1, <2>2
<1>10. ASSUME reader = "reading", NEW e \in 1 .. emitted PROVE e \in Range(file) \cup glued \/ Unread(e)
  BY <1>0, <1>10 DEF EventsSavedInOrder
<1>11. ASSUME reader' = "reading", NEW i \in DOMAIN output', output'[i].kind = "echo"
       PROVE  output'[i].ev \in glued' \cup Range(file')
                \/ \E j \in DOMAIN output' : j < i /\ output'[j].kind = "event" /\ output'[j].ev = output'[i].ev
  <2>1. CASE i \in DOMAIN output
    <3>1. output[i].ev \in glued \cup Range(file)
            \/ \E j \in DOMAIN output : j < i /\ output[j].kind = "event" /\ output[j].ev = output[i].ev
      BY <1>0, <1>2, <1>3, <1>11, <2>1 DEF EventFlow
    <3> QED
      BY <1>2, <1>3, <2>1, <3>1
  <2>2. ASSUME NEW k \in 1 .. Len(kinds), i = Len(output) + k
        PROVE  output'[i].ev \in glued' \cup Range(file')
                 \/ \E j \in DOMAIN output' : j < i /\ output'[j].kind = "event" /\ output'[j].ev = output'[i].ev
    <3>1. output'[i].ev \in 1 .. emitted
      BY <1>4, <1>11, <2>2
    <3>2. output'[i].ev \in Range(file) \cup glued \/ Unread(output'[i].ev)
      BY <1>2, <1>10, <1>11, <3>1
    <3>3. CASE Unread(output'[i].ev)
      <4>1. PICK j \in DOMAIN output : output[j].kind = "event" /\ output[j].ev = output'[i].ev
        BY <3>3 DEF Unread
      <4>2. j \in DOMAIN output' /\ j < i /\ output'[j] = output[j]
        BY <1>2, <1>3, <2>2
      <4> QED
        BY <4>1, <4>2
    <3> QED
      BY <1>2, <3>2, <3>3
  <2> QED
    BY <1>3, <2>1, <2>2
<1>12. ASSUME reader' = "reading", NEW e \in 1 .. emitted' PROVE e \in Range(file') \cup glued' \/ Unread(e)'
  <2>1. CASE e \in 1 .. emitted
    <3>1. e \in Range(file) \cup glued \/ Unread(e)
      BY <1>2, <1>10, <1>12, <2>1
    <3> QED
      BY <1>2, <1>3, <3>1 DEF Unread
  <2>2. CASE e \notin 1 .. emitted
    <3>1. e - emitted \in 1 .. Len(kinds) /\ e - emitted <= NewEvents(kinds) /\ emitted + (e - emitted) = e
      BY <1>2, <2>2
    <3>2. output'[Len(output) + (e - emitted)].kind = "event" /\ output'[Len(output) + (e - emitted)].ev = e
      BY <1>4, <3>1
    <3>3. Len(output) + (e - emitted) \in DOMAIN output'
      BY <1>2, <3>1
    <3> QED
      BY <3>2, <3>3 DEF Unread
  <2> QED
    BY <2>1, <2>2
<1>13. EventFlow'
  BY <1>8, <1>9, <1>11 DEF EventFlow
<1>14. \A j \in DOMAIN file' :
         \/ file'[j] \in glued'
         \/ \E i \in 1 .. j - 1 : file'[i] = file'[j]
         \/ \A i \in 1 .. j - 1 : file'[i] < file'[j]
  BY <1>0, <1>2 DEF EventsSavedInOrder
<1> QED
  BY <1>12, <1>13, <1>14 DEF EventsSavedInOrder

LEMMA EventsBooted ==
  ASSUME EInv, LusBoots
  PROVE  EventFlow' /\ EventsSavedInOrder'
<1> USE CommandBounds
<1>0. Base /\ TypeOK /\ Process
  BY DEF EInv, Base
<1>1. /\ Copies(InitEvents, "event") \in Seq(Kinds) /\ Len(Copies(InitEvents, "event")) = InitEvents
      /\ \A i \in 1 .. InitEvents : Copies(InitEvents, "event")[i] = "event"
  BY CopiesFacts DEF Kinds
<1>2. 0 \in 0 .. MaxCommands
  OBVIOUS
<1> DEFINE L == Printed(Copies(InitEvents, "event"), 0)
<1>3. DOMAIN L = 1 .. InitEvents
  BY <1>0, <1>1, <1>2, PrintedFacts
<1>4. \A i \in 1 .. InitEvents : L[i].ev = emitted + i /\ L[i].kind = "event" /\ L[i].prompts = IF i = 1 THEN prompts ELSE 0
  BY <1>0, <1>1, <1>2, PrintedFacts
<1>5. /\ emitted = 0 /\ prompts = 0 /\ file = <<>> /\ file' = file /\ output' = L /\ emitted' = InitEvents
  BY <1>0 DEF LusBoots, Process, readerVars
<1> HIDE DEF L
<1>6. /\ DOMAIN output' = 1 .. InitEvents /\ DOMAIN file' = {}
      /\ \A i \in 1 .. InitEvents : output'[i].ev = i /\ output'[i].kind = "event" /\ output'[i].prompts = 0
  BY <1>3, <1>4, <1>5
<1>7. EventFlow'
  BY <1>6 DEF EventFlow
<1>8. EventsSavedInOrder'
  BY <1>5, <1>6 DEF EventsSavedInOrder, Unread
<1> QED
  BY <1>7, <1>8

(* The reader saves a line or drops it.                                    *)
LEMMA EventsRead ==
  ASSUME EInv, SaveEvent \/ ReadProbe \/ ReadResponse
  PROVE  EventFlow' /\ EventsSavedInOrder'
<1>0. Base /\ Typed /\ Process /\ EventFlow /\ EventsSavedInOrder
  BY Types DEF EInv, Base
<1>1. /\ Reading /\ reader' = reader /\ emitted' = emitted /\ glued' = glued
  BY DEF SaveEvent, ReadProbe, ReadResponse
<1>2. /\ reader = "reading" /\ 1 \in DOMAIN output /\ Head(output) = output[1]
      /\ DOMAIN output \subseteq Nat \ {0} /\ DOMAIN output' \subseteq Nat \ {0}
      /\ \A i \in DOMAIN output' : i + 1 \in DOMAIN output /\ output'[i] = output[i + 1]
      /\ \A i \in DOMAIN output : i # 1 => i - 1 \in DOMAIN output' /\ output'[i - 1] = output[i]
      /\ output[1] \in Lines
  BY <1>0, <1>1, Taking
<1>3. file \in Seq(1 .. emitted) /\ Len(file) \in Nat /\ DOMAIN file = 1 .. Len(file)
  BY <1>0, LenProperties DEF Typed
<1>4. \/ file' = file /\ (output[1].kind \notin {"event", "echo"} \/ output[1].prompts > 0)
      \/ /\ output[1].kind \in {"event", "echo"} /\ output[1].prompts = 0
         /\ DOMAIN file' = 1 .. Len(file) + 1 /\ file'[Len(file) + 1] = output[1].ev
         /\ \A f \in DOMAIN file : file'[f] = file[f]
  <2>1. CASE SaveEvent
    <3>1. file' = Append(file, output[1].ev) /\ output[1].kind \in {"event", "echo"} /\ output[1].prompts = 0
      BY <1>2, <2>1 DEF SaveEvent, IsEvent
    <3>2. output[1].ev \in 1 .. emitted
      BY <1>0, <1>2, <3>1 DEF Process
    <3>3. DOMAIN Append(file, output[1].ev) = 1 .. Len(file) + 1
      BY <1>3, <3>2, Appends
    <3>4. Append(file, output[1].ev)[Len(file) + 1] = output[1].ev
      BY <1>3, <3>2, Appends
    <3>5. \A f \in DOMAIN file : Append(file, output[1].ev)[f] = file[f]
      BY <1>3, <3>2, Appends
    <3> QED
      BY <3>1, <3>3, <3>4, <3>5
  <2>2. CASE ReadProbe \/ ReadResponse
    <3>1. file' = file /\ ~IsEvent(output[1])
      BY <1>2, <2>2 DEF ReadProbe, ReadResponse
    <3>2. output[1].prompts \in Nat
      BY <1>2 DEF Lines
    <3> QED
      BY <3>1, <3>2 DEF IsEvent
  <2> QED
    BY <2>1, <2>2
<1>5. \A f \in DOMAIN file : f \in DOMAIN file' /\ file'[f] = file[f]
  BY <1>3, <1>4
<1>6. Range(file) \subseteq Range(file')
  BY <1>5 DEF Range
<1>7. ASSUME output[1].kind = "event" PROVE output[1].ev \in glued' \cup Range(file')
  <2>1. CASE file' = file
    BY <1>0, <1>1, <1>2, <1>4, <1>7, <2>1 DEF EventFlow
  <2>2. CASE file' # file
    <3>1. file'[Len(file) + 1] = output[1].ev /\ Len(file) + 1 \in DOMAIN file'
      BY <1>3, <1>4, <2>2
    <3> QED
      BY <3>1 DEF Range
  <2> QED
    BY <2>1, <2>2
<1>8. ASSUME NEW i \in DOMAIN output', output'[i].kind = "event", output'[i].prompts > 0 PROVE output'[i].ev \in glued'
  BY <1>0, <1>1, <1>2, <1>8 DEF EventFlow
<1>9. ASSUME NEW i \in DOMAIN output', output'[i].kind = "event", output'[i].prompts = 0
      PROVE  /\ \A f \in DOMAIN file' : file'[f] < output'[i].ev
             /\ \A j \in DOMAIN output' : j < i /\ output'[j].kind \in {"event", "echo"} => output'[j].ev < output'[i].ev
  <2>1. /\ i + 1 \in DOMAIN output /\ output'[i] = output[i + 1] /\ i \in Nat \ {0}
        /\ \A f \in DOMAIN file : file[f] < output'[i].ev
        /\ \A j \in DOMAIN output : j < i + 1 /\ output[j].kind \in {"event", "echo"} => output[j].ev < output'[i].ev
    BY <1>0, <1>2, <1>9 DEF EventFlow
  <2>2. \A f \in DOMAIN file' : file'[f] < output'[i].ev
    <3>1. CASE file' = file
      BY <2>1, <3>1
    <3>2. CASE file' # file
      <4>1. output[1].ev < output'[i].ev
        BY <1>2, <1>4, <2>1, <3>2
      <4> QED
        BY <1>3, <1>4, <2>1, <3>2, <4>1
    <3> QED
      BY <3>1, <3>2
  <2>3. \A j \in DOMAIN output' : j < i /\ output'[j].kind \in {"event", "echo"} => output'[j].ev < output'[i].ev
    BY <1>2, <2>1
  <2> QED
    BY <2>2, <2>3
<1>10. ASSUME NEW i \in DOMAIN output', output'[i].kind = "echo"
       PROVE  output'[i].ev \in glued' \cup Range(file')
                \/ \E j \in DOMAIN output' : j < i /\ output'[j].kind = "event" /\ output'[j].ev = output'[i].ev
  <2>1. i + 1 \in DOMAIN output /\ output'[i] = output[i + 1] /\ i \in Nat \ {0}
    BY <1>2
  <2>2. output'[i].ev \in glued \cup Range(file)
          \/ \E j \in DOMAIN output : j < i + 1 /\ output[j].kind = "event" /\ output[j].ev = output'[i].ev
    BY <1>0, <1>2, <1>10, <2>1 DEF EventFlow
  <2>3. ASSUME NEW j \in DOMAIN output, j < i + 1, output[j].kind = "event", output[j].ev = output'[i].ev
        PROVE  output'[i].ev \in glued' \cup Range(file')
                 \/ \E m \in DOMAIN output' : m < i /\ output'[m].kind = "event" /\ output'[m].ev = output'[i].ev
    <3>1. CASE j = 1
      BY <1>7, <2>3, <3>1
    <3>2. CASE j # 1
      <4>1. j - 1 \in DOMAIN output' /\ output'[j - 1] = output[j] /\ j - 1 < i
        BY <1>2, <2>1, <2>3, <3>2
      <4> QED
        BY <2>3, <4>1
    <3> QED
      BY <3>1, <3>2
  <2> QED
    BY <1>1, <1>6, <2>2, <2>3
<1>11. EventFlow'
  BY <1>8, <1>9, <1>10 DEF EventFlow
<1>12. ASSUME NEW e \in 1 .. emitted' PROVE e \in Range(file') \cup glued' \/ Unread(e)'
  <2>1. e \in Range(file) \cup glued \/ Unread(e)
    BY <1>0, <1>1, <1>2, <1>12 DEF EventsSavedInOrder
  <2>2. CASE Unread(e)
    <3>1. PICK i \in DOMAIN output : output[i].kind = "event" /\ output[i].ev = e
      BY <2>2 DEF Unread
    <3>2. CASE i = 1
      BY <1>7, <3>1, <3>2
    <3>3. CASE i # 1
      BY <1>2, <3>1, <3>3 DEF Unread
    <3> QED
      BY <3>2, <3>3
  <2> QED
    BY <1>1, <1>6, <2>1, <2>2
<1>13. ASSUME NEW j \in DOMAIN file'
       PROVE  \/ file'[j] \in glued'
              \/ \E i \in 1 .. j - 1 : file'[i] = file'[j]
              \/ \A i \in 1 .. j - 1 : file'[i] < file'[j]
  <2>1. CASE j \in DOMAIN file
    <3>1. \/ file[j] \in glued
          \/ \E i \in 1 .. j - 1 : file[i] = file[j]
          \/ \A i \in 1 .. j - 1 : file[i] < file[j]
      BY <1>0, <2>1 DEF EventsSavedInOrder
    <3>2. \A i \in 1 .. j - 1 : i \in DOMAIN file
      BY <1>3, <2>1
    <3> QED
      BY <1>1, <1>5, <2>1, <3>1, <3>2
  <2>2. CASE j \notin DOMAIN file
    <3>1. /\ output[1].kind \in {"event", "echo"} /\ output[1].prompts = 0 /\ j = Len(file) + 1 /\ file'[j] = output[1].ev
          /\ 1 .. j - 1 = DOMAIN file
      BY <1>3, <1>4, <2>2
    <3>2. CASE output[1].kind = "event"
      <4>1. \A f \in DOMAIN file : file[f] < output[1].ev
        BY <1>0, <1>2, <3>1, <3>2 DEF EventFlow
      <4> QED
        BY <1>5, <3>1, <4>1
    <3>3. CASE output[1].kind = "echo"
      <4>1. output[1].ev \in glued \cup Range(file)
        BY <1>0, <1>2, <3>3 DEF EventFlow
      <4> QED
        BY <1>1, <1>5, <3>1, <4>1 DEF Range
    <3> QED
      BY <3>1, <3>2, <3>3
  <2> QED
    BY <2>1, <2>2
<1> QED
  BY <1>11, <1>12, <1>13 DEF EventsSavedInOrder

LEMMA EventsKept ==
  ASSUME EInv, UNCHANGED <<output, emitted, glued, file>>, reader' = "reading" => reader = "reading"
  PROVE  EventFlow' /\ EventsSavedInOrder'
<1>1. EventFlow'
  BY DEF EInv, EventFlow
<1>2. EventsSavedInOrder'
  BY DEF EInv, EventsSavedInOrder, Unread
<1> QED
  BY <1>1, <1>2

(* Of the events that the reader has passed, events.ndjson lacks only      *)
(* those that lus printed on the line of a prompt, and it holds the others *)
(* in the order of their emission.                                         *)
THEOREM EventFileIsTrue == Spec => []EventsSavedInOrder
<1>1. Init => EInv
  <2> SUFFICES ASSUME Init PROVE EInv
    OBVIOUS
  <2>1. EventFlow /\ EventsSavedInOrder
    BY DEF Init, EventFlow, EventsSavedInOrder
  <2> QED
    BY <2>1, BaseInit DEF EInv
<1>2. EInv /\ [Next]_vars => EInv'
  <2> SUFFICES ASSUME EInv, [Next]_vars PROVE EInv'
    OBVIOUS
  <2>0. Base'
    BY BaseKept DEF EInv
  <2>1. CASE LusBoots
    BY <2>0, <2>1, EventsBooted DEF EInv
  <2>2. CASE LusExecutes
    BY <2>0, <2>2, EventsExecuted DEF EInv
  <2>3. CASE SaveEvent \/ ReadProbe \/ ReadResponse
    BY <2>0, <2>3, EventsRead DEF EInv
  <2>4. CASE LusDies \/ ReaderEnds \/ CloseSession \/ CancelReader \/ UNCHANGED vars
    <3>1. UNCHANGED <<output, emitted, glued, file>> /\ (reader' = "reading" => reader = "reading")
      BY <2>4 DEF LusDies, ReaderEnds, CloseSession, CancelReader, vars, lusVars, readerVars
    <3> QED
      BY <2>0, <3>1, EventsKept DEF EInv
  <2>5. ASSUME NEW c \in Clients,
               \/ Refuse(c) \/ Write(c) \/ StdinBroken(c) \/ GetResponse(c) \/ TimeOut(c)
               \/ \E op \in Ops : Ask(c, op)
        PROVE  EInv'
    <3>1. UNCHANGED <<output, emitted, glued, file>> /\ (reader' = "reading" => reader = "reading")
      BY <2>5 DEF Refuse, Write, StdinBroken, GetResponse, TimeOut, Ask, lusVars, readerVars
    <3> QED
      BY <2>0, <3>1, EventsKept DEF EInv
  <2> QED
    BY <2>1, <2>2, <2>3, <2>4, <2>5 DEF Next, Quiet
<1>3. EInv => EventsSavedInOrder
  BY DEF EInv
<1> QED
  BY <1>1, <1>2, <1>3, PTL DEF Spec

-----------------------------------------------------------------------------
(* The order of the stages.  First the steps by which a stage only loses   *)
(* its first elements, or all of them, and the first response may be       *)
(* handed out.                                                             *)
LEMMA BeforeIsTransitive ==
  ASSUME NEW x \in Nat, NEW y \in Nat, NEW z \in Nat
  PROVE  /\ Before(x, y) /\ (Before(y, z) \/ y <= z) => Before(x, z)
         /\ x <= y /\ Before(y, z) => Before(x, z)
         /\ Before(x, y) => x <= y
         /\ Before(x, x) => x = 0
         /\ Before(0, x)
         /\ x < y => Before(x, y)
BY DEF Before

LEMMA Numbers ==
  ASSUME TypeOK
  PROVE  /\ Written \subseteq 0 .. MaxCommands /\ Handed \subseteq 0 .. MaxCommands
         /\ \A x \in Written \cup Handed : x \in Nat
         /\ \A q \in DOMAIN queue : \A x \in queue[q] : x \in Nat
         /\ \A x \in pending : x \in Nat
         /\ \A i \in DOMAIN output : output[i].by \in Nat
         /\ \A j \in DOMAIN input : input[j].id \in Nat
         /\ DOMAIN queue \subseteq Nat \ {0} /\ DOMAIN input \subseteq Nat \ {0} /\ DOMAIN output \subseteq Nat \ {0}
<1> USE CommandBounds
<1>1. /\ input \in Seq(Orders) /\ output \in Seq(Lines) /\ queue \in Seq(SUBSET (0 .. MaxCommands))
      /\ \A j \in DOMAIN input : input[j] \in Orders /\ input[j].id \in Nat
      /\ \A i \in DOMAIN output : output[i].by \in 0 .. MaxCommands
      /\ \A q \in DOMAIN queue : queue[q] \subseteq 0 .. MaxCommands
      /\ pending \subseteq 0 .. MaxCommands
      /\ \A k \in Ids : answer[k].from \subseteq 0 .. MaxCommands
  BY TypeOfEach
<1>2. \A j \in DOMAIN input : input[j].id \in 0 .. MaxCommands
  BY <1>1 DEF Orders
<1>3. Written \subseteq 0 .. MaxCommands
  BY <1>1, <1>2 DEF Written
<1>4. Handed \subseteq 0 .. MaxCommands
  BY <1>1 DEF Handed
<1>5. DOMAIN queue \subseteq Nat \ {0} /\ DOMAIN input \subseteq Nat \ {0} /\ DOMAIN output \subseteq Nat \ {0}
  BY <1>1, LenProperties
<1>6. MaxCommands \in Nat /\ \A x \in 0 .. MaxCommands : x \in Nat
  OBVIOUS
<1>7. \A x \in Written \cup Handed : x \in Nat
  BY <1>3, <1>4, <1>6
<1>8. \A q \in DOMAIN queue : \A x \in queue[q] : x \in Nat
  BY <1>1, <1>6
<1>9. (\A x \in pending : x \in Nat) /\ \A i \in DOMAIN output : output[i].by \in Nat
  BY <1>1, <1>6
<1>10. \A j \in DOMAIN input : input[j].id \in Nat
  BY <1>1
<1> QED
  BY <1>3, <1>4, <1>5, <1>7, <1>8, <1>9, <1>10

LEMMA DomainsAfter ==
  ASSUME TypeOK'
  PROVE  /\ DOMAIN output' \subseteq Nat \ {0} /\ DOMAIN queue' \subseteq Nat \ {0} /\ DOMAIN input' \subseteq Nat \ {0}
<1>1. output' \in Seq(Lines) /\ queue' \in Seq(SUBSET (0 .. MaxCommands)) /\ input' \in Seq(Orders)
  BY Types DEF Typed
<1>2. /\ Len(output') \in Nat /\ DOMAIN output' = 1 .. Len(output')
      /\ Len(queue') \in Nat /\ DOMAIN queue' = 1 .. Len(queue')
      /\ Len(input') \in Nat /\ DOMAIN input' = 1 .. Len(input')
  BY <1>1, LenProperties
<1> QED
  BY <1>2

LEMMA OrderedShrinks ==
  ASSUME Base, Ordered, NEW a \in Nat, NEW b \in Nat, TypeOK',
         \A i \in DOMAIN output' : i + a \in DOMAIN output /\ output'[i] = output[i + a],
         \A q \in DOMAIN queue' : q + b \in DOMAIN queue /\ queue'[q] = queue[q + b],
         \A j \in DOMAIN input' : j \in DOMAIN input /\ input'[j] = input[j],
         pending' = pending, reader' = reader,
         \A x \in Handed' : x \in Handed \/ (b = 1 /\ 1 \in DOMAIN queue /\ x \in queue[1])
  PROVE  Ordered'
<1>1. /\ DOMAIN output' \subseteq Nat \ {0} /\ DOMAIN queue' \subseteq Nat \ {0}
      /\ DOMAIN output \subseteq Nat \ {0} /\ DOMAIN queue \subseteq Nat \ {0}
  BY Numbers, DomainsAfter DEF Base
<1>2. InputOrdered'
  BY DEF Ordered, InputOrdered
<1>3. OutputOrdered'
  BY <1>1 DEF Ordered, OutputOrdered
<1>4. PendingOrdered'
  BY DEF Ordered, PendingOrdered
<1>5. ASSUME NEW x, Left(x) PROVE Left(x)'
  BY <1>5 DEF Left
<1>6. QueueOrdered'
  <2>1. \A q \in DOMAIN queue' : queue'[q] # {} /\ \A x \in queue'[q] : Left(x)'
    BY <1>5 DEF Ordered, QueueOrdered
  <2>2. \A p, q \in DOMAIN queue' : p < q => \A x \in queue'[p], y \in queue'[q] : Before(x, y)
    BY <1>1 DEF Ordered, QueueOrdered
  <2>3. ASSUME NEW x \in Handed'
        PROVE  Left(x)' /\ \A q \in DOMAIN queue' : \A y \in queue'[q] : Before(x, y)
    <3>1. CASE x \in Handed
      BY <1>5, <3>1 DEF Ordered, QueueOrdered
    <3>2. CASE b = 1 /\ 1 \in DOMAIN queue /\ x \in queue[1]
      <4>1. Left(x)'
        BY <1>5, <3>2 DEF Ordered, QueueOrdered
      <4>2. ASSUME NEW q \in DOMAIN queue', NEW y \in queue'[q] PROVE Before(x, y)
        <5>1. 1 < q + 1 /\ q + 1 \in DOMAIN queue /\ y \in queue[q + 1]
          BY <1>1, <3>2, <4>2
        <5> QED
          BY <3>2, <5>1 DEF Ordered, QueueOrdered
      <4> QED
        BY <4>1, <4>2
    <3> QED
      BY <2>3, <3>1, <3>2
  <2> QED
    BY <2>1, <2>2, <2>3 DEF QueueOrdered
<1> QED
  BY <1>2, <1>3, <1>4, <1>6 DEF Ordered

(* A command is written behind everything else.                            *)
LEMMA OrderedSent ==
  ASSUME Base, Ordered, TypeOK', NEW id \in Nat, NEW op,
         \A w \in Written \cup Handed : w < id,
         \A j \in DOMAIN input' : j \in Nat /\ (\/ j \in DOMAIN input /\ input'[j] = input[j]
                                                \/ j \notin DOMAIN input /\ input'[j] = [id |-> id, op |-> op]),
         \A j \in DOMAIN input : \A i \in DOMAIN input' : i < j => i \in DOMAIN input,
         \A i, j \in DOMAIN input' : i \notin DOMAIN input /\ j \notin DOMAIN input => i = j,
         UNCHANGED <<output, pending, reader, Handed>>, queue' = queue \/ queue' = <<>>
  PROVE  Ordered'
<1>0. /\ TypeOK /\ DOMAIN input \subseteq Nat \ {0}
      /\ \A i \in DOMAIN output : output[i].by \in Nat /\ output[i].by \in Written
      /\ \A j \in DOMAIN input : input[j].id \in Nat /\ input[j].id \in Written
      /\ \A x \in pending : x \in Written
      /\ \A q \in DOMAIN queue : \A x \in queue[q] : x \in Written
  BY Numbers DEF Base, Written
<1>1. \A j \in DOMAIN input' : \/ j \in DOMAIN input /\ input'[j].id = input[j].id
                               \/ j \notin DOMAIN input /\ input'[j].id = id
  OBVIOUS
<1>2. InputOrdered'
  <2>1. ASSUME NEW i \in DOMAIN input', NEW j \in DOMAIN input', i < j PROVE Before(input'[i].id, input'[j].id)
    <3>1. CASE j \in DOMAIN input
      BY <1>1, <2>1, <3>1 DEF Ordered, InputOrdered
    <3>2. CASE j \notin DOMAIN input
      <4>1. i \in DOMAIN input
        BY <2>1, <3>2
      <4>2. input'[i].id < id /\ input'[j].id = id
        BY <1>0, <1>1, <3>2, <4>1
      <4> QED
        BY <4>2 DEF Before
    <3> QED
      BY <3>1, <3>2
  <2>2. ASSUME NEW i \in DOMAIN output', NEW j \in DOMAIN input' PROVE Before(output'[i].by, input'[j].id)
    BY <1>0, <1>1 DEF Ordered, InputOrdered, Before
  <2> QED
    BY <2>1, <2>2 DEF InputOrdered
<1>3. OutputOrdered'
  BY DEF Ordered, OutputOrdered
<1>4. PendingOrdered'
  BY <1>0, <1>1 DEF Ordered, PendingOrdered, Before
<1>5. ASSUME NEW x, Left(x), x < id PROVE Left(x)'
  BY <1>1, <1>5 DEF Left, Before
<1>6. QueueOrdered'
  <2>1. \A x \in Handed' : Left(x)'
    BY <1>5 DEF Ordered, QueueOrdered
  <2>2. CASE queue' = queue
    BY <1>0, <1>5, <2>1, <2>2 DEF Ordered, QueueOrdered
  <2>3. CASE queue' = <<>>
    <3>1. DOMAIN queue' = {}
      BY <2>3
    <3> QED
      BY <2>1, <3>1 DEF QueueOrdered
  <2> QED
    BY <2>2, <2>3
<1> QED
  BY <1>2, <1>3, <1>4, <1>6 DEF Ordered

(* lus prints the lines of its next command.                               *)
LEMMA OrderedExecuted ==
  ASSUME Base, Ordered, LusExecutes
  PROVE  Ordered'
<1>0. TypeOK /\ InputOrdered /\ OutputOrdered /\ PendingOrdered /\ QueueOrdered
  BY DEF Base, Ordered
<1>1. PICK kinds \in Prints(Head(input).op) : Execution(kinds)
  BY <1>0, Executing
<1>2. /\ Len(output) \in Nat /\ Len(kinds) \in Nat
      /\ DOMAIN output = 1 .. Len(output) /\ DOMAIN output' = 1 .. Len(output) + Len(kinds)
      /\ \A i \in DOMAIN output : i \in DOMAIN output' /\ output'[i] = output[i]
      /\ \A i \in DOMAIN output' : i \in DOMAIN output \/ \E k \in 1 .. Len(kinds) : i = Len(output) + k
      /\ reader' = reader /\ pending' = pending /\ queue' = queue /\ answer' = answer
  BY <1>1 DEF Execution, readerVars, callVars
<1> DEFINE h == Head(input).id
<1>3. \A k \in 1 .. Len(kinds) :
        /\ output'[Len(output) + k].by = h /\ output'[Len(output) + k].kind = kinds[k]
        /\ k # 1 => output'[Len(output) + k].prompts = 0
        /\ kinds[k] = "final" => k = Len(kinds)
  BY <1>1 DEF Execution
<1>4. /\ 1 \in DOMAIN input /\ input[1].id = h /\ h \in Nat /\ DOMAIN input \subseteq Nat \ {0}
      /\ \A j \in DOMAIN input' : j + 1 \in DOMAIN input /\ input'[j] = input[j + 1] /\ j \in Nat \ {0}
  <2>1. input \in Seq(Orders) /\ input # <<>> /\ input' = Tail(input)
    BY <1>0, <1>1, TypeOfEach DEF Execution
  <2>2. /\ Len(input) \in Nat \ {0} /\ DOMAIN input = 1 .. Len(input) /\ 1 \in DOMAIN input /\ Head(input) = input[1]
        /\ DOMAIN Tail(input) = 1 .. Len(input) - 1
        /\ \A j \in DOMAIN Tail(input) : j + 1 \in DOMAIN input /\ Tail(input)[j] = input[j + 1]
    BY <2>1, Tails
  <2>3. h \in Nat
    BY <1>0, <2>2, Numbers
  <2> QED
    BY <2>1, <2>2, <2>3
<1> HIDE DEF h
<1>5. \A j \in DOMAIN input' : Before(h, input'[j].id)
  BY <1>0, <1>4 DEF InputOrdered
<1>6. /\ \A i \in DOMAIN output : output[i].by \in Nat /\ Before(output[i].by, h)
      /\ \A x \in pending : x \in Nat /\ Before(x, h)
      /\ \A x \in Nat : Left(x) => Before(x, h)
  <2>1. \A i \in DOMAIN output : output[i].by \in Nat /\ Before(output[i].by, h)
    BY <1>0, <1>4, Numbers DEF InputOrdered
  <2>2. \A x \in pending : x \in Nat /\ Before(x, h)
    BY <1>0, <1>4, Numbers DEF PendingOrdered
  <2>3. \A x \in Nat : Left(x) => Before(x, h)
    BY <1>4 DEF Left
  <2> QED
    BY <2>1, <2>2, <2>3
<1>7. InputOrdered'
  <2>1. ASSUME NEW i \in DOMAIN input', NEW j \in DOMAIN input', i < j
        PROVE  Before(input'[i].id, input'[j].id)
    <3>1. i + 1 \in DOMAIN input /\ j + 1 \in DOMAIN input /\ i + 1 < j + 1
      BY <1>4, <2>1
    <3> QED
      BY <1>0, <1>4, <3>1 DEF InputOrdered
  <2>2. ASSUME NEW i \in DOMAIN output', NEW j \in DOMAIN input'
        PROVE  Before(output'[i].by, input'[j].id)
    <3>1. CASE i \in DOMAIN output
      <4>1. j + 1 \in DOMAIN input /\ input'[j] = input[j + 1] /\ output'[i] = output[i]
        BY <1>2, <1>4, <3>1
      <4> QED
        BY <1>0, <3>1, <4>1 DEF InputOrdered
    <3>2. CASE output'[i].by = h
      BY <1>5, <3>2
    <3> QED
      BY <1>2, <1>3, <3>1, <3>2
  <2> QED
    BY <2>1, <2>2 DEF InputOrdered
<1>8. ASSUME NEW i \in DOMAIN output', NEW j \in DOMAIN output', i < j
      PROVE  /\ output'[i].by <= output'[j].by
             /\ output'[j].prompts > 0 \/ IsTerminal(output'[i]) => Before(output'[i].by, output'[j].by)
  <2>1. CASE j \in DOMAIN output
    <3>1. i \in DOMAIN output
      BY <1>2, <1>8, <2>1
    <3> QED
      BY <1>0, <1>2, <1>8, <2>1, <3>1 DEF OutputOrdered, IsTerminal
  <2>2. ASSUME NEW k \in 1 .. Len(kinds), j = Len(output) + k, i \in DOMAIN output
        PROVE  output'[i].by <= output'[j].by /\ Before(output'[i].by, output'[j].by)
    BY <1>2, <1>3, <1>4, <1>6, <2>2, BeforeIsTransitive
  <2>3. ASSUME NEW k \in 1 .. Len(kinds), j = Len(output) + k, NEW m \in 1 .. Len(kinds), i = Len(output) + m
        PROVE  output'[i].by <= output'[j].by /\ ~(output'[j].prompts > 0) /\ ~IsTerminal(output'[i])
    <3>1. m < k /\ k # 1 /\ m # Len(kinds)
      BY <1>2, <1>8, <2>3
    <3>2. output'[i].by = h /\ output'[j].by = h /\ output'[j].prompts = 0 /\ output'[i].kind # "final"
      BY <1>3, <2>3, <3>1
    <3> QED
      BY <1>4, <3>2 DEF IsTerminal
  <2> QED
    BY <1>2, <2>1, <2>2, <2>3
<1>9. PendingOrdered'
  <2> SUFFICES ASSUME NEW x \in pending
               PROVE  /\ \A i \in DOMAIN output' : x <= output'[i].by /\ (output'[i].prompts > 0 => Before(x, output'[i].by))
                      /\ \A j \in DOMAIN input' : Before(x, input'[j].id)
    BY <1>2 DEF PendingOrdered
  <2>1. \A j \in DOMAIN input' : Before(x, input'[j].id)
    BY <1>0, <1>4 DEF PendingOrdered
  <2>2. Before(x, h) /\ x <= h
    BY <1>4, <1>6, BeforeIsTransitive
  <2> QED
    BY <1>0, <1>2, <1>3, <2>1, <2>2 DEF PendingOrdered
<1>10. ASSUME NEW x \in Nat, Left(x) PROVE Left(x)'
  <2>1. Before(x, h)
    BY <1>6, <1>10
  <2>2. \A y \in pending' : Before(x, y)
    BY <1>2, <1>10 DEF Left
  <2>3. reader' = "reading" => \A i \in DOMAIN output' : Before(x, output'[i].by)
    <3> SUFFICES ASSUME reader = "reading", NEW i \in DOMAIN output' PROVE Before(x, output'[i].by)
      BY <1>2
    <3>1. CASE i \in DOMAIN output
      BY <1>2, <1>10, <3>1 DEF Left
    <3>2. CASE i \notin DOMAIN output
      BY <1>2, <1>3, <2>1, <3>2
    <3> QED
      BY <3>1, <3>2
  <2>4. \A j \in DOMAIN input' : Before(x, input'[j].id)
    BY <1>4, <1>10 DEF Left
  <2> QED
    BY <2>2, <2>3, <2>4 DEF Left
<1>11. QueueOrdered'
  <2>1. Handed' = Handed
    BY <1>2 DEF Handed
  <2>2. \A x \in Handed : x \in Nat
    BY <1>0, Numbers
  <2>3. \A q \in DOMAIN queue : \A x \in queue[q] : x \in Nat
    BY <1>0, Numbers
  <2> QED
    BY <1>0, <1>2, <1>10, <2>1, <2>2, <2>3 DEF QueueOrdered
<1>12. OutputOrdered'
  BY <1>8 DEF OutputOrdered
<1> QED
  BY <1>7, <1>9, <1>11, <1>12 DEF Ordered

(* lus starts: only the probe's lines are printed, and nothing was read.   *)
LEMMA OrderedBooted ==
  ASSUME Base, Ordered, ProbeFlow, LusBoots
  PROVE  Ordered' /\ \A i \in DOMAIN output' : output'[i].by = 0 /\ output'[i].prompts = 0
<1> USE CommandBounds
<1>0. TypeOK /\ Process /\ InputOrdered /\ \A j \in DOMAIN input : input[j].id \in Nat
  BY Numbers DEF Base, Ordered
<1>1. /\ Copies(InitEvents, "event") \in Seq(Kinds) /\ Len(Copies(InitEvents, "event")) = InitEvents
      /\ \A i \in 1 .. InitEvents : Copies(InitEvents, "event")[i] = "event"
  BY CopiesFacts DEF Kinds
<1>2. 0 \in 0 .. MaxCommands
  OBVIOUS
<1> DEFINE L == Printed(Copies(InitEvents, "event"), 0)
<1>3. DOMAIN L = 1 .. InitEvents
  BY <1>0, <1>1, <1>2, PrintedFacts
<1>4. \A i \in 1 .. InitEvents : L[i].by = 0 /\ L[i].kind = "event" /\ L[i].prompts = IF i = 1 THEN prompts ELSE 0
  BY <1>0, <1>1, <1>2, PrintedFacts
<1>5. /\ prompts = 0 /\ output' = L /\ pending' = {} /\ queue' = <<>> /\ input' = input /\ Handed' = {}
  BY <1>0 DEF LusBoots, Process, ProbeFlow, ProbeDone, readerVars, callVars, Handed
<1> HIDE DEF L
<1>6. \A i \in DOMAIN output' : output'[i].by = 0 /\ output'[i].prompts = 0 /\ output'[i].kind = "event"
  BY <1>3, <1>4, <1>5
<1>7. InputOrdered' /\ PendingOrdered'
  BY <1>0, <1>5, <1>6, BeforeIsTransitive DEF InputOrdered, PendingOrdered
<1>8. OutputOrdered'
  BY <1>6, BeforeIsTransitive DEF OutputOrdered
<1>9. QueueOrdered'
  <2>1. DOMAIN queue' = {}
    BY <1>5
  <2> QED
    BY <1>5, <2>1 DEF QueueOrdered
<1> QED
  BY <1>6, <1>7, <1>8, <1>9 DEF Ordered

(* What the reader sees in the first line of the output.                   *)
LEMMA FirstLine ==
  ASSUME Base, Ordered, Reading
  PROVE  /\ output[1].by \in Nat
         /\ \A i \in DOMAIN output' : /\ output[1].by <= output'[i].by
                                      /\ output'[i].prompts > 0 \/ IsTerminal(output[1]) => Before(output[1].by, output'[i].by)
         /\ \A j \in DOMAIN input : Before(output[1].by, input[j].id)
         /\ \A x \in pending : x <= output[1].by /\ (output[1].prompts > 0 => Before(x, output[1].by))
         /\ \A x : Left(x) => Before(x, output[1].by)
<1>1. /\ reader = "reading" /\ 1 \in DOMAIN output /\ output[1].by \in 0 .. MaxCommands
      /\ DOMAIN output' \subseteq Nat \ {0}
      /\ \A i \in DOMAIN output' : i + 1 \in DOMAIN output /\ output'[i] = output[i + 1]
  BY Taking
<1>2. ASSUME NEW i \in DOMAIN output'
      PROVE  /\ output[1].by <= output'[i].by
             /\ output'[i].prompts > 0 \/ IsTerminal(output[1]) => Before(output[1].by, output'[i].by)
  <2>1. 1 < i + 1 /\ i + 1 \in DOMAIN output /\ output'[i] = output[i + 1]
    BY <1>1, <1>2
  <2> QED
    BY <1>1, <2>1 DEF Ordered, OutputOrdered
<1>3. \A j \in DOMAIN input : Before(output[1].by, input[j].id)
  BY <1>1 DEF Ordered, InputOrdered
<1>4. \A x \in pending : x <= output[1].by /\ (output[1].prompts > 0 => Before(x, output[1].by))
  BY <1>1 DEF Ordered, PendingOrdered
<1>5. \A x : Left(x) => Before(x, output[1].by)
  BY <1>1 DEF Left
<1>6. output[1].by \in Nat
  BY <1>1
<1> QED
  BY <1>2, <1>3, <1>4, <1>5, <1>6

(* The reader ends and flushes the response under way.                     *)
LEMMA OrderedFlushed ==
  ASSUME Base, Ordered, ReaderEnds \/ CancelReader
  PROVE  Ordered'
<1>1. /\ reader' = "ended" /\ queue' = FlushPending(queue) /\ pending' = {} /\ input' = input /\ output' = output
      /\ answer' = answer
  BY DEF ReaderEnds, CancelReader, lusVars, callVars
<1>2. /\ Len(queue) \in Nat /\ DOMAIN queue = 1 .. Len(queue)
      /\ pending = {} => queue' = queue
      /\ pending # {} => DOMAIN queue' = 1 .. Len(queue) + 1 /\ queue'[Len(queue) + 1] = pending
      /\ \A q \in DOMAIN queue : queue'[q] = queue[q]
  BY <1>1, Flushes
<1>3. Handed' = Handed
  BY <1>1 DEF Handed
<1>4. InputOrdered' /\ OutputOrdered' /\ PendingOrdered'
  BY <1>1 DEF Ordered, InputOrdered, OutputOrdered, PendingOrdered
<1>5. ASSUME NEW x, Left(x) \/ x \in pending PROVE Left(x)'
  BY <1>1, <1>5 DEF Left, Ordered, PendingOrdered
<1>6. ASSUME NEW q \in DOMAIN queue', q \notin DOMAIN queue
      PROVE  pending # {} /\ q = Len(queue) + 1 /\ queue'[q] = pending
  BY <1>2, <1>6
<1>7. ASSUME NEW q \in DOMAIN queue' PROVE queue'[q] # {} /\ \A x \in queue'[q] : Left(x)'
  <2>1. CASE q \in DOMAIN queue
    BY <1>2, <1>5, <2>1 DEF Ordered, QueueOrdered
  <2>2. CASE q \notin DOMAIN queue
    BY <1>5, <1>6, <2>2
  <2> QED
    BY <2>1, <2>2
<1>8. ASSUME NEW p \in DOMAIN queue', NEW q \in DOMAIN queue', p < q, NEW x \in queue'[p], NEW y \in queue'[q]
      PROVE  Before(x, y)
  <2>1. p \in DOMAIN queue
    BY <1>2, <1>6, <1>8
  <2>2. CASE q \in DOMAIN queue
    BY <1>2, <1>8, <2>1, <2>2 DEF Ordered, QueueOrdered
  <2>3. CASE q \notin DOMAIN queue
    <3>1. Left(x) /\ y \in pending
      BY <1>2, <1>6, <1>8, <2>1, <2>3 DEF Ordered, QueueOrdered
    <3> QED
      BY <3>1 DEF Left
  <2> QED
    BY <2>2, <2>3
<1>9. ASSUME NEW x \in Handed', NEW q \in DOMAIN queue', NEW y \in queue'[q] PROVE Before(x, y)
  <2>1. CASE q \in DOMAIN queue
    BY <1>2, <1>3, <1>9, <2>1 DEF Ordered, QueueOrdered
  <2>2. CASE q \notin DOMAIN queue
    BY <1>3, <1>6, <1>9, <2>2 DEF Ordered, QueueOrdered, Left
  <2> QED
    BY <2>1, <2>2
<1>10. \A x \in Handed' : Left(x)'
  BY <1>3, <1>5 DEF Ordered, QueueOrdered
<1>11. QueueOrdered'
  BY <1>7, <1>8, <1>9, <1>10 DEF QueueOrdered
<1> QED
  BY <1>4, <1>11 DEF Ordered

(* A line of a response: a prompt flushes what was collected before, and a *)
(* terminal line is a response by itself.                                  *)
LEMMA OrderedRead ==
  ASSUME Base, Ordered, ReadResponse
  PROVE  Ordered'
<1>0. PICK b : b = output[1].by
  OBVIOUS
<1>1. /\ Reading /\ UNCHANGED <<input, reader, answer>>
      /\ IF IsPrompt(output[1])
         THEN /\ queue' = IF IsTerminal(output[1]) THEN Append(FlushPending(queue), {b}) ELSE FlushPending(queue)
              /\ pending' = IF IsTerminal(output[1]) THEN {} ELSE {b}
         ELSE pending' = pending \cup {b} /\ queue' = queue
  BY <1>0, Taking DEF ReadResponse, callVars
<1>2. /\ reader = "reading" /\ 1 \in DOMAIN output /\ b \in 0 .. MaxCommands /\ output[1].prompts \in Nat
      /\ DOMAIN output' \subseteq Nat \ {0}
      /\ \A i \in DOMAIN output' : i + 1 \in DOMAIN output /\ output'[i] = output[i + 1]
  BY <1>0, <1>1, Taking DEF Lines
<1>3. /\ b \in Nat
      /\ \A i \in DOMAIN output' : /\ b <= output'[i].by /\ output'[i].by \in Nat
                                   /\ output'[i].prompts > 0 \/ IsTerminal(output[1]) => Before(b, output'[i].by)
      /\ \A j \in DOMAIN input : Before(b, input[j].id)
      /\ \A x \in pending : x <= b /\ x \in Nat /\ (output[1].prompts > 0 => Before(x, b))
      /\ \A x : Left(x) => Before(x, b)
  BY <1>0, <1>1, <1>2, FirstLine, Numbers DEF Base
<1>4. /\ Len(queue) \in Nat /\ DOMAIN queue = 1 .. Len(queue)
      /\ FlushPending(queue) \in Seq(SUBSET (0 .. MaxCommands))
      /\ pending = {} => FlushPending(queue) = queue
      /\ pending # {} => /\ DOMAIN FlushPending(queue) = 1 .. Len(queue) + 1
                         /\ Len(FlushPending(queue)) = Len(queue) + 1
                         /\ FlushPending(queue)[Len(queue) + 1] = pending
      /\ \A q \in DOMAIN queue : FlushPending(queue)[q] = queue[q]
  BY Flushes
<1> DEFINE F == FlushPending(queue)
<1>5. /\ Len(F) \in Nat /\ DOMAIN F = 1 .. Len(F) /\ DOMAIN Append(F, {b}) = 1 .. Len(F) + 1
      /\ \A q \in DOMAIN F : Append(F, {b})[q] = F[q]
      /\ Append(F, {b})[Len(F) + 1] = {b}
  <2>1. {b} \in SUBSET (0 .. MaxCommands) /\ F \in Seq(SUBSET (0 .. MaxCommands))
    BY <1>2, <1>4
  <2> QED
    BY <2>1, Appends
<1>6. /\ IsPrompt(output[1]) /\ IsTerminal(output[1]) => queue' = Append(F, {b}) /\ pending' = {}
      /\ IsPrompt(output[1]) /\ ~IsTerminal(output[1]) => queue' = F
      /\ ~IsPrompt(output[1]) => queue' = queue
      /\ IsPrompt(output[1]) <=> output[1].prompts > 0
  BY <1>1 DEF IsPrompt
<1>7. /\ \A q \in DOMAIN queue : F[q] = queue[q]
      /\ (pending = {} /\ F = queue) \/ (pending # {} /\ Len(F) = Len(queue) + 1 /\ F[Len(queue) + 1] = pending)
  BY <1>4
<1> HIDE DEF F
<1>8. ASSUME NEW q \in DOMAIN queue PROVE q \in DOMAIN queue' /\ queue'[q] = queue[q]
  <2>1. q \in DOMAIN F /\ F[q] = queue[q]
    <3>1. CASE F = queue
      BY <1>8, <3>1
    <3>2. CASE Len(F) = Len(queue) + 1
      <4>1. q \in 1 .. Len(F)
        BY <1>4, <1>8, <3>2
      <4> QED
        BY <1>5, <1>7, <1>8, <4>1
    <3> QED
      BY <1>7, <3>1, <3>2
  <2>2. q \in DOMAIN Append(F, {b}) /\ Append(F, {b})[q] = queue[q]
    BY <1>5, <2>1
  <2> QED
    BY <1>6, <1>8, <2>1, <2>2
<1>9. ASSUME NEW q \in DOMAIN queue', q \notin DOMAIN queue
      PROVE  /\ output[1].prompts > 0 /\ q \in Nat /\ q > Len(queue)
             /\ \/ queue'[q] = pending /\ pending # {} /\ q = Len(queue) + 1
                \/ queue'[q] = {b} /\ IsTerminal(output[1]) /\ pending' = {}
                     /\ (q # Len(queue) + 1 => pending # {} /\ q = Len(queue) + 2)
  <2>1. IsPrompt(output[1]) /\ output[1].prompts > 0
    BY <1>6, <1>9
  <2>2. ASSUME q \in DOMAIN F PROVE F[q] = pending /\ pending # {} /\ q = Len(queue) + 1
    <3>1. pending # {} /\ Len(F) = Len(queue) + 1 /\ F[Len(queue) + 1] = pending
      BY <1>9, <1>7, <2>2
    <3>2. q = Len(queue) + 1
      BY <1>4, <1>5, <1>9, <2>2, <3>1
    <3> QED
      BY <3>1, <3>2
  <2>3. CASE IsTerminal(output[1])
    <3>1. queue' = Append(F, {b}) /\ pending' = {}
      BY <1>6, <2>1, <2>3
    <3>2. CASE q \in DOMAIN F
      <4>1. queue'[q] = pending /\ pending # {} /\ q = Len(queue) + 1
        BY <1>5, <2>2, <3>1, <3>2
      <4> QED
        BY <1>4, <2>1, <4>1
    <3>3. CASE q \notin DOMAIN F
      <4>1. q = Len(F) + 1 /\ queue'[q] = {b}
        BY <1>5, <1>9, <3>1, <3>3
      <4>2. (pending = {} /\ q = Len(queue) + 1) \/ (pending # {} /\ q = Len(queue) + 2)
        BY <1>4, <1>7, <4>1
      <4> QED
        BY <1>4, <2>1, <2>3, <3>1, <4>1, <4>2
    <3> QED
      BY <3>2, <3>3
  <2>4. CASE ~IsTerminal(output[1])
    <3>1. queue' = F
      BY <1>6, <2>1, <2>4
    <3>2. queue'[q] = pending /\ pending # {} /\ q = Len(queue) + 1
      BY <1>9, <2>2, <3>1
    <3> QED
      BY <1>4, <2>1, <3>2
  <2> QED
    BY <2>3, <2>4
<1>10. ASSUME NEW x \in Nat, Left(x) PROVE Left(x)' /\ Before(x, b) /\ \A y \in pending : Before(x, y)
  <2>1. Before(x, b) /\ \A y \in pending : Before(x, y)
    BY <1>3, <1>10 DEF Left
  <2>2. \A y \in pending' : y \in pending \/ y = b
    BY <1>1
  <2>3. \A i \in DOMAIN output' : Before(x, output'[i].by)
    BY <1>2, <1>10 DEF Left
  <2>4. \A j \in DOMAIN input' : Before(x, input'[j].id)
    BY <1>1, <1>10 DEF Left
  <2> QED
    BY <2>1, <2>2, <2>3, <2>4 DEF Left
<1>11. ASSUME NEW x \in pending, output[1].prompts > 0 PROVE Left(x)' /\ Before(x, b)
  <2>1. Before(x, b) /\ x \in Nat
    BY <1>3, <1>11
  <2>2. \A y \in pending' : y = b
    BY <1>1, <1>11 DEF IsPrompt
  <2>3. \A i \in DOMAIN output' : Before(x, output'[i].by)
    BY <1>3, <2>1, BeforeIsTransitive
  <2>4. \A j \in DOMAIN input' : Before(x, input'[j].id)
    BY <1>1 DEF Ordered, PendingOrdered
  <2> QED
    BY <2>1, <2>2, <2>3, <2>4 DEF Left
<1>12. ASSUME IsTerminal(output[1]), pending' = {} PROVE Left(b)'
  <2>1. \A i \in DOMAIN output' : Before(b, output'[i].by)
    BY <1>3, <1>12
  <2>2. \A j \in DOMAIN input' : Before(b, input'[j].id)
    BY <1>1, <1>3
  <2>3. \A y \in pending' : Before(b, y)
    BY <1>12
  <2> QED
    BY <2>1, <2>2, <2>3 DEF Left
<1>13. /\ \A q \in DOMAIN queue : queue[q] # {} /\ \A x \in queue[q] : x \in Nat /\ Left(x)
       /\ \A x \in Handed : x \in Nat /\ Left(x)
       /\ Handed' = Handed
  BY <1>1, Numbers DEF Base, Ordered, QueueOrdered, Handed
<1>14. ASSUME NEW q \in DOMAIN queue' PROVE queue'[q] # {} /\ \A x \in queue'[q] : Left(x)'
  <2>1. CASE q \in DOMAIN queue
    BY <1>8, <1>10, <1>13, <2>1
  <2>2. CASE q \notin DOMAIN queue
    <3>1. CASE queue'[q] = pending /\ pending # {}
      BY <1>9, <1>11, <2>2, <3>1
    <3>2. CASE queue'[q] = {b} /\ IsTerminal(output[1]) /\ pending' = {}
      BY <1>12, <3>2
    <3> QED
      BY <1>9, <2>2, <3>1, <3>2
  <2> QED
    BY <2>1, <2>2
<1>15. ASSUME NEW p \in DOMAIN queue', NEW q \in DOMAIN queue', p < q, NEW x \in queue'[p], NEW y \in queue'[q]
       PROVE  Before(x, y)
  <2>1. CASE q \in DOMAIN queue
    <3>1. p \in DOMAIN queue
      BY <1>4, <1>9, <1>15, <2>1
    <3> QED
      BY <1>8, <1>15, <2>1, <3>1 DEF Ordered, QueueOrdered
  <2>2. CASE q \notin DOMAIN queue /\ p \in DOMAIN queue
    <3>1. x \in Nat /\ Left(x)
      BY <1>8, <1>13, <1>15, <2>2
    <3>2. y \in pending \/ y = b
      BY <1>9, <1>15, <2>2
    <3> QED
      BY <1>10, <3>1, <3>2
  <2>3. CASE q \notin DOMAIN queue /\ p \notin DOMAIN queue
    <3>1. q # Len(queue) + 1
      BY <1>4, <1>9, <1>15, <2>3
    <3>2. queue'[q] = {b} /\ q = Len(queue) + 2 /\ output[1].prompts > 0
      BY <1>9, <2>3, <3>1
    <3>3. queue'[p] = pending
      <4>1. p \in Nat /\ p > Len(queue) /\ p < Len(queue) + 2
        BY <1>9, <1>15, <2>3, <3>2
      <4>2. p = Len(queue) + 1 /\ pending # {}
        BY <1>4, <1>9, <2>3, <3>1, <4>1
      <4>3. 1 .. Len(queue) + 1 \subseteq DOMAIN F /\ F[p] = pending
        BY <1>5, <1>7, <4>2
      <4>4. IsPrompt(output[1]) /\ IsTerminal(output[1]) => queue'[p] = Append(F, {b})[p]
        BY <1>6
      <4>5. p \in DOMAIN F
        BY <1>4, <4>2, <4>3
      <4> QED
        BY <1>5, <1>6, <3>2, <4>3, <4>4, <4>5
    <3> QED
      BY <1>11, <1>15, <3>2, <3>3
  <2> QED
    BY <2>1, <2>2, <2>3
<1>16. ASSUME NEW x \in Handed', NEW q \in DOMAIN queue', NEW y \in queue'[q] PROVE Before(x, y)
  <2>1. CASE q \in DOMAIN queue
    BY <1>8, <1>13, <1>16, <2>1 DEF Ordered, QueueOrdered
  <2>2. CASE q \notin DOMAIN queue
    <3>1. y \in pending \/ y = b
      BY <1>9, <1>16, <2>2
    <3> QED
      BY <1>10, <1>13, <1>16, <3>1
  <2> QED
    BY <2>1, <2>2
<1>17. QueueOrdered'
  BY <1>10, <1>13, <1>14, <1>15, <1>16 DEF QueueOrdered
<1>18. PendingOrdered'
  <2> SUFFICES ASSUME NEW x \in pending'
               PROVE  /\ \A i \in DOMAIN output' : x <= output'[i].by /\ (output'[i].prompts > 0 => Before(x, output'[i].by))
                      /\ \A j \in DOMAIN input' : Before(x, input'[j].id)
    BY DEF PendingOrdered
  <2>1. x \in pending \/ x = b
    BY <1>1
  <2>2. CASE x = b
    BY <1>1, <1>3, <2>2
  <2>3. CASE x \in pending
    BY <1>1, <1>2, <2>3 DEF Ordered, PendingOrdered
  <2> QED
    BY <2>1, <2>2, <2>3
<1>19. InputOrdered'
  BY <1>1, <1>2 DEF Ordered, InputOrdered
<1>20. OutputOrdered'
  BY <1>2 DEF Ordered, OutputOrdered
<1> QED
  BY <1>17, <1>18, <1>19, <1>20 DEF Ordered

-----------------------------------------------------------------------------
(* What is under way: no step of lus or of the reader adds to it, but for  *)
(* the lines of the probe.                                                 *)
LEMMA WrittenIs ==
  ASSUME NEW w
  PROVE  /\ w \in Written <=>
              \/ \E j \in DOMAIN input : input[j].id = w
              \/ \E i \in DOMAIN output : output[i].by = w
              \/ w \in pending
              \/ \E q \in DOMAIN queue : w \in queue[q]
         /\ w \in Written' <=>
              \/ \E j \in DOMAIN input' : input'[j].id = w
              \/ \E i \in DOMAIN output' : output'[i].by = w
              \/ w \in pending'
              \/ \E q \in DOMAIN queue' : w \in queue'[q]
BY DEF Written

LEMMA WrittenByLus ==
  ASSUME Base
  PROVE  /\ LusExecutes \/ LusDies => Written' \subseteq Written
         /\ LusBoots /\ Ordered /\ ProbeFlow => Written' \subseteq Written \cup {0}
<1>1. ASSUME LusExecutes PROVE Written' \subseteq Written
  <2>1. PICK kinds \in Prints(Head(input).op) : Execution(kinds)
    BY <1>1, Executing DEF Base
  <2>2. /\ 1 \in DOMAIN input /\ input[1] = Head(input)
        /\ \A j \in DOMAIN input' : j + 1 \in DOMAIN input /\ input'[j] = input[j + 1]
    <3>1. input \in Seq(Orders) /\ input # <<>> /\ input' = Tail(input)
      BY <2>1, TypeOfEach DEF Execution, Base
    <3> QED
      BY <3>1, Tails
  <2>3. \A i \in DOMAIN output' : output'[i].by = Head(input).id \/ (i \in DOMAIN output /\ output'[i] = output[i])
    BY <2>1 DEF Execution
  <2>4. pending' = pending /\ queue' = queue
    BY <2>1 DEF Execution, readerVars
  <2> SUFFICES ASSUME NEW w \in Written' PROVE w \in Written
    OBVIOUS
  <2>5. CASE \E j \in DOMAIN input' : input'[j].id = w
    BY <2>2, <2>5, WrittenIs
  <2>6. CASE \E i \in DOMAIN output' : output'[i].by = w
    <3>1. PICK i \in DOMAIN output' : output'[i].by = w
      BY <2>6
    <3>2. CASE i \in DOMAIN output /\ output'[i] = output[i]
      BY <3>1, <3>2, WrittenIs
    <3>3. CASE output'[i].by = Head(input).id
      BY <2>2, <3>1, <3>3, WrittenIs
    <3> QED
      BY <2>3, <3>2, <3>3
  <2>7. CASE w \in pending' \/ \E q \in DOMAIN queue' : w \in queue'[q]
    BY <2>4, <2>7, WrittenIs
  <2> QED
    BY <2>5, <2>6, <2>7, WrittenIs
<1>2. ASSUME LusDies PROVE Written' \subseteq Written
  <2>1. DOMAIN input' = {} /\ UNCHANGED <<output, pending, queue>>
    BY <1>2 DEF LusDies, readerVars
  <2> QED
    BY <2>1, WrittenIs
<1>3. ASSUME LusBoots, Ordered, ProbeFlow PROVE Written' \subseteq Written \cup {0}
  <2>1. UNCHANGED <<input, pending, queue>> /\ \A i \in DOMAIN output' : output'[i].by = 0
    BY <1>3, OrderedBooted DEF LusBoots, readerVars
  <2> SUFFICES ASSUME NEW w \in Written' PROVE w \in Written \/ w = 0
    OBVIOUS
  <2> QED
    BY <2>1, WrittenIs
<1> QED
  BY <1>1, <1>2, <1>3

LEMMA WrittenByReader ==
  ASSUME Base, SaveEvent \/ ReadProbe \/ ReadResponse \/ ReaderEnds \/ CloseSession \/ CancelReader
  PROVE  Written' \subseteq Written
<1> SUFFICES ASSUME NEW w \in Written' PROVE w \in Written
  OBVIOUS
<1>1. CASE SaveEvent \/ ReadProbe
  <2>1. Reading /\ UNCHANGED <<input, pending, queue>>
    BY <1>1 DEF SaveEvent, ReadProbe
  <2>2. \A i \in DOMAIN output' : i + 1 \in DOMAIN output /\ output'[i] = output[i + 1]
    BY <2>1, Taking
  <2> QED
    BY <2>1, <2>2, WrittenIs
<1>2. CASE CloseSession
  BY <1>2, WrittenIs DEF CloseSession, lusVars, readerVars
<1>3. CASE ReaderEnds \/ CancelReader
  <2>1. UNCHANGED <<input, output>> /\ pending' = {} /\ queue' = FlushPending(queue)
    BY <1>3 DEF ReaderEnds, CancelReader, lusVars
  <2>2. \A q \in DOMAIN queue' : queue'[q] = pending \/ (q \in DOMAIN queue /\ queue'[q] = queue[q])
    BY <2>1, Flushes
  <2> QED
    BY <2>1, <2>2, WrittenIs
<1>4. CASE ReadResponse
  <2>1. Reading /\ UNCHANGED input /\ \A y \in pending' : y \in pending \/ y = output[1].by
    BY <1>4, Taking DEF ReadResponse
  <2>2. /\ 1 \in DOMAIN output /\ \A i \in DOMAIN output' : i + 1 \in DOMAIN output /\ output'[i] = output[i + 1]
        /\ {output[1].by} \in SUBSET (0 .. MaxCommands)
    BY <2>1, Taking
  <2>3. \/ queue' = Append(FlushPending(queue), {output[1].by})
        \/ queue' = FlushPending(queue) \/ queue' = queue
    BY <1>4, <2>1, Taking DEF ReadResponse
  <2>4. /\ FlushPending(queue) \in Seq(SUBSET (0 .. MaxCommands))
        /\ \A q \in DOMAIN FlushPending(queue) :
             FlushPending(queue)[q] = pending \/ (q \in DOMAIN queue /\ FlushPending(queue)[q] = queue[q])
    BY Flushes
  <2>5. ASSUME NEW q \in DOMAIN queue'
        PROVE  queue'[q] = pending \/ queue'[q] = {output[1].by} \/ (q \in DOMAIN queue /\ queue'[q] = queue[q])
    <3>1. CASE queue' = Append(FlushPending(queue), {output[1].by})
      <4>1. q \in DOMAIN FlushPending(queue) \/ queue'[q] = {output[1].by}
        BY <2>2, <2>4, <2>5, <3>1, Appends
      <4>2. q \in DOMAIN FlushPending(queue) => queue'[q] = FlushPending(queue)[q]
        BY <2>2, <2>4, <3>1, Appends
      <4> QED
        BY <2>4, <4>1, <4>2
    <3> QED
      BY <2>3, <2>4, <2>5, <3>1
  <2> QED
    BY <2>1, <2>2, <2>5, WrittenIs
<1> QED
  BY <1>1, <1>2, <1>3, <1>4

LEMMA WrittenByCall ==
  ASSUME Base, NEW c \in Clients, Refuse(c) \/ StdinBroken(c) \/ GetResponse(c) \/ TimeOut(c)
  PROVE  /\ Written' \subseteq Written
         /\ queue' = queue \/ queue' = <<>> \/ (queue # <<>> /\ queue' = Tail(queue))
<1>1. /\ UNCHANGED <<input, output, pending>>
      /\ queue' = queue \/ queue' = <<>> \/ (queue # <<>> /\ queue' = Tail(queue))
  BY DEF Refuse, StdinBroken, GetResponse, TimeOut, Taken, Drained, lusVars, readerVars
<1>2. \A q \in DOMAIN queue' : \E p \in DOMAIN queue : queue'[q] = queue[p]
  <2>1. CASE queue # <<>> /\ queue' = Tail(queue)
    BY <2>1, Tails, TypeOfEach DEF Base
  <2>2. CASE queue' = <<>>
    BY <2>2
  <2> QED
    BY <1>1, <2>1, <2>2
<1> QED
  BY <1>1, <1>2, WrittenIs

LEMMA WrittenBySender ==
  ASSUME Base, NEW id, NEW op, input' = Sent(id, op), id \in 0 .. MaxCommands, op \in Ops,
         UNCHANGED <<output, pending>>, queue' = queue \/ queue' = <<>>
  PROVE  Written' \subseteq Written \cup {id}
<1>1. \A j \in DOMAIN input' : input'[j].id = id \/ (j \in DOMAIN input /\ input'[j] = input[j])
  BY Sends
<1>2. \A q \in DOMAIN queue' : q \in DOMAIN queue /\ queue'[q] = queue[q]
  OBVIOUS
<1> QED
  BY <1>1, <1>2, WrittenIs

-----------------------------------------------------------------------------
(* The calls: what each of them holds of the lock.                         *)
LEMMA CallsKept ==
  ASSUME Base, Calls, UNCHANGED callVars, Written' \subseteq Written \cup {0}
  PROVE  Calls'
<1>1. /\ UNCHANGED <<lock, doing, asked, answer>> /\ asked \in Nat
      /\ \A c \in Clients : doing[c].at # "idle" => doing[c].id \in Nat /\ doing[c].id > 0
  BY TypeOfEach DEF callVars, Base, Process
<1>2. ASSUME NEW c \in Clients, doing[c].at # "idle", NEW w \in Written'
      PROVE  w <= doing[c].id /\ (doing[c].at = "locking" => w < doing[c].id)
  <2>1. CASE w \in Written
    BY <1>2, <2>1 DEF Calls
  <2>2. CASE w = 0
    BY <1>1, <1>2, <2>2
  <2> QED
    BY <1>2, <2>1, <2>2
<1>3. \A w \in Written' : w <= asked
  BY <1>1 DEF Calls
<1> QED
  BY <1>1, <1>2, <1>3 DEF Calls

(* The calls in the lock have different numbers, the first the smallest.   *)
LEMMA LockOrder ==
  ASSUME Base, Calls, NEW c \in Clients, Holds(c)
  PROVE  /\ 1 \in DOMAIN lock /\ lock[1] = c /\ doing[c].at # "idle" /\ doing[c].id \in Nat
         /\ \A d \in Clients : d # c /\ doing[d].at # "idle" =>
              /\ doing[d].at = "locking" /\ doing[c].id < doing[d].id
              /\ \E k \in DOMAIN lock : k > 1 /\ lock[k] = d
         /\ \A k \in DOMAIN lock : k \in Nat \ {0} /\ lock[k] \in Clients /\ (k # 1 => lock[k] # c)
<1>1. lock \in Seq(Clients) /\ lock # <<>> /\ Head(lock) = c
  BY Types DEF Base, Typed, Holds
<1>2. /\ 1 \in DOMAIN lock /\ lock[1] = c
      /\ \A k \in DOMAIN lock : k \in Nat \ {0} /\ lock[k] \in Clients
  BY <1>1, Tails, ElementOfSeq
<1>3. doing[c].at # "idle"
  BY <1>2 DEF Calls
<1>4. \A d \in Clients : doing[d].at # "idle" => doing[d].id \in Nat
  BY TypeOfEach DEF Base, Process
<1>5. ASSUME NEW k \in DOMAIN lock, k # 1 PROVE doing[c].id < doing[lock[k]].id /\ doing[lock[k]].at = "locking"
  BY <1>2, <1>5 DEF Calls
<1>6. ASSUME NEW k \in DOMAIN lock, k # 1 PROVE lock[k] # c
  BY <1>3, <1>4, <1>5, <1>6
<1>7. ASSUME NEW d \in Clients, d # c, doing[d].at # "idle"
      PROVE  /\ doing[d].at = "locking" /\ doing[c].id < doing[d].id
             /\ \E k \in DOMAIN lock : k > 1 /\ lock[k] = d
  <2>1. PICK k \in DOMAIN lock : lock[k] = d
    BY <1>7 DEF Calls
  <2>2. k # 1 /\ k > 1
    BY <1>2, <1>7, <2>1
  <2> QED
    BY <1>5, <2>1, <2>2
<1> QED
  BY <1>2, <1>3, <1>4, <1>6, <1>7

(* A call ends with an answer.                                             *)
LEMMA CallsReleased ==
  ASSUME Base, Calls, NEW c \in Clients, Holds(c), UNCHANGED asked, Written' \subseteq Written,
         NEW a \in [kind : {"none", "response", "error", "timeout"}, from : SUBSET (0 .. MaxCommands)], Release(c, a),
         a.kind # "response" => a.from = {}
  PROVE  /\ Calls'
         /\ doing[c].id \in Ids /\ answer[doing[c].id] = None /\ answer'[doing[c].id] = a
         /\ \A k \in Ids : k # doing[c].id => answer'[k] = answer[k]
         /\ doing'[c] = Idle /\ \A d \in Clients : d # c => doing'[d] = doing[d]
<1>1. /\ 1 \in DOMAIN lock /\ lock[1] = c /\ doing[c].at # "idle" /\ doing[c].id \in Nat
      /\ \A d \in Clients : d # c /\ doing[d].at # "idle" =>
           /\ doing[d].at = "locking" /\ doing[c].id < doing[d].id
           /\ \E k \in DOMAIN lock : k > 1 /\ lock[k] = d
      /\ \A k \in DOMAIN lock : k \in Nat \ {0} /\ lock[k] \in Clients /\ (k # 1 => lock[k] # c)
  BY LockOrder
<1>2. /\ doing'[c] = Idle /\ \A d \in Clients : d # c => doing'[d] = doing[d]
      /\ doing[c].id \in Ids /\ doing[c].id \in 1 .. asked /\ answer'[doing[c].id] = a
      /\ \A k \in Ids : k # doing[c].id => answer'[k] = answer[k]
  BY <1>1, Releases
<1>3. /\ DOMAIN lock' \subseteq Nat \ {0}
      /\ \A k \in DOMAIN lock' : k + 1 \in DOMAIN lock /\ lock'[k] = lock[k + 1]
      /\ \A k \in DOMAIN lock : k # 1 => k - 1 \in DOMAIN lock' /\ lock'[k - 1] = lock[k]
  BY <1>1, Releases
<1>4. \A k \in DOMAIN lock' : /\ lock'[k] \in Clients /\ lock'[k] # c /\ doing'[lock'[k]] = doing[lock[k + 1]]
                              /\ k + 1 \in DOMAIN lock /\ k + 1 > 1 /\ lock'[k] = lock[k + 1]
  BY <1>1, <1>2, <1>3
<1>5. \A d \in Clients : doing'[d].at = "idle" => doing'[d] = Idle
  BY <1>2 DEF Calls
<1>6. ASSUME NEW d \in Clients, doing'[d].at # "idle" PROVE \E k \in DOMAIN lock' : lock'[k] = d
  <2>1. d # c /\ doing[d].at # "idle"
    BY <1>2, <1>6 DEF Idle
  <2>2. PICK k \in DOMAIN lock : k > 1 /\ lock[k] = d
    BY <1>1, <2>1
  <2>3. k # 1
    BY <2>2
  <2> QED
    BY <1>3, <2>2, <2>3
<1>7. \A k \in DOMAIN lock' : doing'[lock'[k]].at # "idle" /\ (k > 1 => doing'[lock'[k]].at = "locking")
  BY <1>4 DEF Calls
<1>8. \A j, k \in DOMAIN lock' : j < k => doing'[lock'[j]].id < doing'[lock'[k]].id
  <2> SUFFICES ASSUME NEW j \in DOMAIN lock', NEW k \in DOMAIN lock', j < k
               PROVE  doing'[lock'[j]].id < doing'[lock'[k]].id
    OBVIOUS
  <2>1. j + 1 < k + 1
    BY <1>3
  <2> QED
    BY <1>4, <2>1 DEF Calls
<1>9. ASSUME NEW d \in Clients, doing'[d].at # "idle"
      PROVE  /\ answer'[doing'[d].id] = None
             /\ \A w \in Written' : w <= doing'[d].id /\ (doing'[d].at = "locking" => w < doing'[d].id)
             /\ \A k \in Ids : answer'[k].kind \in {"response", "timeout"} => k < doing'[d].id
  <2>1. d # c /\ doing'[d] = doing[d] /\ doing[d].at # "idle" /\ doing[c].id < doing[d].id
    BY <1>1, <1>2, <1>9 DEF Idle
  <2>2. doing[d].id \in Ids
    BY <2>1, TypeOfEach DEF Base, Process, Ids, TypeOK
  <2>3. answer'[doing[d].id] = None
    BY <1>1, <1>2, <2>1, <2>2 DEF Calls, Ids
  <2>4. \A k \in Ids : answer'[k].kind \in {"response", "timeout"} => k < doing[d].id
    BY <1>2, <2>1 DEF Calls
  <2> QED
    BY <2>1, <2>3, <2>4 DEF Calls
<1>10. \A w \in Written' : w <= asked'
  BY DEF Calls
<1>11. /\ \A k \in Ids : k > asked' => answer'[k] = None
       /\ \A k \in Ids : answer'[k].kind # "response" => answer'[k].from = {}
  <2>1. asked \in Nat /\ MaxCommands \in Nat /\ doing[c].id <= asked /\ asked' = asked
    BY <1>2, TypeOfEach DEF Base
  <2>2. ASSUME NEW k \in Ids, k > asked' PROVE answer'[k] = None
    <3>1. k # doing[c].id
      BY <1>2, <2>1, <2>2 DEF Ids
    <3> QED
      BY <1>2, <2>1, <2>2, <3>1 DEF Calls
  <2>3. ASSUME NEW k \in Ids, answer'[k].kind # "response" PROVE answer'[k].from = {}
    BY <1>2, <2>3 DEF Calls
  <2> QED
    BY <2>2, <2>3
<1>12. Calls'
  BY <1>5, <1>6, <1>7, <1>8, <1>9, <1>10, <1>11 DEF Calls
<1>13. answer[doing[c].id] = None
  BY <1>1 DEF Calls
<1> QED
  BY <1>2, <1>12, <1>13

LEMMA CallsRefused ==
  ASSUME Base, Calls, NEW c \in Clients, Refuse(c)
  PROVE  /\ Calls' /\ UNCHANGED doing
         /\ \A k \in Ids : answer'[k] = answer[k] \/ (answer[k] = None /\ answer'[k] = Failed("error"))
<1>1. /\ asked < MaxCommands /\ asked' = asked + 1 /\ answer' = [answer EXCEPT ![asked + 1] = Failed("error")]
      /\ UNCHANGED <<lock, doing>> /\ asked \in Nat /\ MaxCommands \in Nat
  BY TypeOfEach DEF Refuse, Base
<1>2. asked + 1 \in Ids /\ answer[asked + 1] = None
  BY <1>1 DEF Calls, Ids
<1>3. answer \in Answers
  BY Types DEF Base, Typed
<1>4. /\ answer'[asked + 1] = Failed("error")
      /\ \A k \in Ids : k # asked + 1 => answer'[k] = answer[k]
  BY <1>1, <1>2, <1>3 DEF Answers
<1>5. Written' \subseteq Written
  BY WrittenByCall
<1>6. ASSUME NEW d \in Clients, doing[d].at # "idle" PROVE answer'[doing[d].id] = None
  <2>1. doing[d].id \in 1 .. asked
    BY <1>6 DEF Base, Process
  <2>2. doing[d].id \in Ids /\ doing[d].id # asked + 1
    BY <1>1, <2>1 DEF Ids
  <2> QED
    BY <1>4, <1>6, <2>2 DEF Calls
<1>7. ASSUME NEW d \in Clients, doing[d].at # "idle", NEW k \in Ids, answer'[k].kind \in {"response", "timeout"}
      PROVE  k < doing[d].id
  <2>1. k # asked + 1
    BY <1>4, <1>7 DEF Failed
  <2> QED
    BY <1>4, <1>7, <2>1 DEF Calls
<1>8. \A w \in Written' : w <= asked'
  <2>1. \A w \in Written : w \in Nat /\ w <= asked
    BY Numbers DEF Calls, Base
  <2> QED
    BY <1>1, <1>5, <2>1
<1>9. \A k \in Ids : k > asked' => answer'[k] = None
  <2> SUFFICES ASSUME NEW k \in Ids, k > asked' PROVE answer'[k] = None
    OBVIOUS
  <2>1. k # asked + 1 /\ k > asked
    BY <1>1 DEF Ids
  <2> QED
    BY <1>4, <2>1 DEF Calls
<1>10. \A k \in Ids : answer'[k].kind # "response" => answer'[k].from = {}
  BY <1>4 DEF Calls, Failed
<1>11. Calls'
  BY <1>1, <1>5, <1>6, <1>7, <1>8, <1>9, <1>10 DEF Calls
<1> QED
  BY <1>1, <1>2, <1>4, <1>11

(* The first in the lock writes its command.                               *)
LEMMA CallsWritten ==
  ASSUME Base, Calls, NEW c \in Clients, Write(c)
  PROVE  /\ Calls' /\ UNCHANGED answer /\ Written' \subseteq Written \cup {doing[c].id}
         /\ doing[c].id \in Ids /\ doing'[c].id = doing[c].id /\ doing'[c].at = "awaiting"
         /\ \A d \in Clients : d # c => doing'[d] = doing[d]
<1>1. /\ doing[c].at = "locking" /\ doing' = [doing EXCEPT ![c].at = "awaiting"]
      /\ input' = Sent(doing[c].id, doing[c].op) /\ Holds(c)
      /\ UNCHANGED <<output, pending, queue, lock, asked, answer>>
  BY DEF Write, readerVars
<1>2. doing \in Doings
  BY Types DEF Base, Typed
<1>3. /\ doing'[c].id = doing[c].id /\ doing'[c].at = "awaiting"
      /\ \A d \in Clients : d # c => doing'[d] = doing[d]
  BY <1>1, <1>2 DEF Doings
<1>4. doing[c].id \in 1 .. asked /\ doing[c].op \in Ops /\ asked \in Nat /\ MaxCommands \in Nat /\ asked <= MaxCommands
  <2>1. doing[c].id \in 1 .. asked /\ doing[c].op \in Ops
    BY <1>1 DEF Base, Process
  <2>2. asked \in 0 .. MaxCommands /\ MaxCommands \in Nat
    BY TypeOfEach, Types DEF Base, Typed, Scalars
  <2> QED
    BY <2>1, <2>2
<1>5. doing[c].id \in Ids /\ doing[c].id \in 0 .. MaxCommands
  BY <1>4 DEF Ids
<1>6. Written' \subseteq Written \cup {doing[c].id}
  BY <1>1, <1>4, <1>5, WrittenBySender
<1>7. /\ 1 \in DOMAIN lock /\ lock[1] = c
      /\ \A d \in Clients : d # c /\ doing[d].at # "idle" => doing[d].at = "locking" /\ doing[c].id < doing[d].id
      /\ \A k \in DOMAIN lock : k \in Nat \ {0} /\ lock[k] \in Clients /\ (k # 1 => lock[k] # c)
  BY <1>1, LockOrder
<1>8. \A w \in Written : w \in Nat
  BY Numbers DEF Base
<1>9. ASSUME NEW d \in Clients, doing'[d].at # "idle"
      PROVE  /\ answer'[doing'[d].id] = None
             /\ \A w \in Written' : w <= doing'[d].id /\ (doing'[d].at = "locking" => w < doing'[d].id)
             /\ \A k \in Ids : answer'[k].kind \in {"response", "timeout"} => k < doing'[d].id
  <2>1. CASE d = c
    <3>1. \A w \in Written' : w <= doing[c].id
      BY <1>1, <1>4, <1>6 DEF Calls
    <3> QED
      BY <1>1, <1>3, <2>1, <3>1 DEF Calls
  <2>2. CASE d # c
    <3>1. doing'[d] = doing[d] /\ doing[d].at = "locking" /\ doing[c].id < doing[d].id
      BY <1>3, <1>7, <1>9, <2>2
    <3>2. \A w \in Written' : w < doing[d].id /\ w <= doing[d].id
      BY <1>4, <1>6, <1>8, <3>1, TypeOfEach DEF Calls, Base, Process
    <3> QED
      BY <1>1, <3>1, <3>2 DEF Calls
  <2> QED
    BY <2>1, <2>2
<1>10. /\ \A d \in Clients : doing'[d].at = "idle" => doing'[d] = Idle
       /\ \A d \in Clients : doing'[d].at # "idle" => \E k \in DOMAIN lock' : lock'[k] = d
       /\ \A k \in DOMAIN lock' : doing'[lock'[k]].at # "idle" /\ (k > 1 => doing'[lock'[k]].at = "locking")
  BY <1>1, <1>3, <1>7 DEF Calls
<1>11. \A j, k \in DOMAIN lock' : j < k => doing'[lock'[j]].id < doing'[lock'[k]].id
  <2>1. \A d \in Clients : doing'[d].id = doing[d].id
    BY <1>3
  <2> QED
    BY <1>1, <1>7, <2>1 DEF Calls
<1>12. \A w \in Written' : w <= asked'
  BY <1>1, <1>4, <1>6 DEF Calls
<1>13. Calls'
  BY <1>1, <1>9, <1>10, <1>11, <1>12 DEF Calls
<1> QED
  BY <1>1, <1>3, <1>5, <1>6, <1>13

(* A new call takes its place in the lock, and writes if it is the first.  *)
LEMMA CallsAsked ==
  ASSUME Base, Calls, NEW c \in Clients, NEW op \in Ops, Ask(c, op)
  PROVE  /\ Calls' /\ UNCHANGED answer /\ asked + 1 \in Ids
         /\ Written' \subseteq Written \cup {asked + 1} /\ (lock # <<>> => Written' \subseteq Written)
         /\ doing[c] = Idle /\ doing'[c].id = asked + 1
         /\ doing'[c].at = IF lock = <<>> THEN "awaiting" ELSE "locking"
         /\ \A d \in Clients : d # c => doing'[d] = doing[d]
<1>1. /\ doing[c] = Idle /\ asked < MaxCommands /\ asked' = asked + 1 /\ queue' = <<>>
      /\ lock' = Append(lock, c)
      /\ doing' = [doing EXCEPT ![c] = [id |-> asked + 1, op |-> op,
                                        at |-> IF lock = <<>> THEN "awaiting" ELSE "locking"]]
      /\ input' = IF lock = <<>> THEN Sent(asked + 1, op) ELSE input
      /\ UNCHANGED <<output, pending, answer>>
  BY DEF Ask, Drained, readerVars
<1>2. doing \in Doings /\ lock \in Seq(Clients) /\ asked \in Nat /\ MaxCommands \in Nat
  BY Types, TypeOfEach DEF Base, Typed
<1>3. asked + 1 \in Ids /\ asked + 1 \in 0 .. MaxCommands
  BY <1>1, <1>2 DEF Ids
<1>4. /\ doing'[c].id = asked + 1 /\ doing'[c].at = IF lock = <<>> THEN "awaiting" ELSE "locking"
      /\ \A d \in Clients : d # c => doing'[d] = doing[d]
  BY <1>1, <1>2 DEF Doings
<1>5. \A w \in Written : w \in Nat /\ w <= asked
  BY Numbers DEF Base, Calls
<1>6. \A q \in DOMAIN queue' : FALSE
  BY <1>1
<1>7. lock # <<>> => Written' \subseteq Written
  <2> SUFFICES ASSUME lock # <<>>, NEW w \in Written' PROVE w \in Written
    OBVIOUS
  <2>1. input' = input
    BY <1>1
  <2> QED
    BY <1>1, <1>6, <2>1, WrittenIs
<1>8. Written' \subseteq Written \cup {asked + 1}
  <2>1. CASE lock = <<>>
    <3>1. input' = Sent(asked + 1, op)
      BY <1>1, <2>1
    <3> QED
      BY <1>1, <1>3, <3>1, WrittenBySender
  <2> QED
    BY <1>7, <2>1
<1>9. /\ Len(lock) \in Nat /\ DOMAIN lock = 1 .. Len(lock) /\ DOMAIN lock' = 1 .. Len(lock) + 1
      /\ \A k \in DOMAIN lock : k \in DOMAIN lock' /\ lock'[k] = lock[k] /\ lock[k] \in Clients
      /\ lock'[Len(lock) + 1] = c /\ (lock = <<>> <=> Len(lock) = 0)
  <2>1. /\ Len(lock) \in Nat /\ DOMAIN lock = 1 .. Len(lock) /\ DOMAIN Append(lock, c) = 1 .. Len(lock) + 1
        /\ \A k \in DOMAIN lock : Append(lock, c)[k] = lock[k]
        /\ Append(lock, c)[Len(lock) + 1] = c
    BY <1>2, Appends
  <2>2. \A k \in DOMAIN lock : lock[k] \in Clients
    BY <1>2, <2>1, ElementOfSeq
  <2>3. lock = <<>> <=> Len(lock) = 0
    BY <1>2, EmptySeq
  <2>4. \A k \in DOMAIN lock : k \in DOMAIN Append(lock, c)
    BY <2>1
  <2> QED
    BY <1>1, <2>1, <2>2, <2>3, <2>4
<1>10. \A k \in DOMAIN lock : lock[k] # c /\ doing'[lock[k]] = doing[lock[k]]
  BY <1>1, <1>4, <1>9 DEF Calls, Idle
<1>11. \A d \in Clients : doing'[d].at = "idle" => doing'[d] = Idle
  BY <1>4 DEF Calls
<1>12. \A d \in Clients : doing'[d].at # "idle" => \E k \in DOMAIN lock' : lock'[k] = d
  <2>1. Len(lock) + 1 \in DOMAIN lock'
    BY <1>9
  <2> QED
    BY <1>4, <1>9, <2>1 DEF Calls
<1>13. \A k \in DOMAIN lock' : k \in DOMAIN lock \/ k = Len(lock) + 1
  BY <1>9
<1>14. ASSUME NEW k \in DOMAIN lock'
       PROVE  doing'[lock'[k]].at # "idle" /\ (k > 1 => doing'[lock'[k]].at = "locking")
  <2>1. CASE k \in DOMAIN lock
    BY <1>9, <1>10, <2>1 DEF Calls
  <2>2. CASE k = Len(lock) + 1
    <3>1. lock'[k] = c /\ (k > 1 => lock # <<>>)
      BY <1>9, <2>2
    <3> QED
      BY <1>4, <3>1
  <2> QED
    BY <1>13, <2>1, <2>2
<1>15. \A d \in Clients : doing[d].at # "idle" => doing[d].id \in Nat /\ doing[d].id < asked + 1
  BY <1>2 DEF Base, Process
<1>16. ASSUME NEW j \in DOMAIN lock', NEW k \in DOMAIN lock', j < k
       PROVE  doing'[lock'[j]].id < doing'[lock'[k]].id
  <2>1. j \in DOMAIN lock
    BY <1>9, <1>13, <1>16
  <2>2. CASE k \in DOMAIN lock
    BY <1>9, <1>10, <1>16, <2>1, <2>2 DEF Calls
  <2>3. CASE k = Len(lock) + 1
    <3>1. doing'[lock'[k]].id = asked + 1 /\ doing'[lock'[j]].id = doing[lock[j]].id
      BY <1>4, <1>9, <1>10, <2>1, <2>3
    <3> QED
      BY <1>9, <1>15, <2>1, <3>1 DEF Calls
  <2> QED
    BY <1>13, <2>2, <2>3
<1>17. ASSUME NEW d \in Clients, doing'[d].at # "idle"
       PROVE  /\ answer'[doing'[d].id] = None
              /\ \A w \in Written' : w <= doing'[d].id /\ (doing'[d].at = "locking" => w < doing'[d].id)
              /\ \A k \in Ids : answer'[k].kind \in {"response", "timeout"} => k < doing'[d].id
  <2>1. CASE d = c
    <3>1. \A w \in Written' : w <= asked + 1 /\ (lock # <<>> => w < asked + 1)
      BY <1>2, <1>5, <1>7, <1>8
    <3>2. answer[asked + 1] = None
      BY <1>2, <1>3 DEF Calls
    <3>3. ASSUME NEW k \in Ids, answer[k].kind \in {"response", "timeout"} PROVE k < asked + 1
      <4>1. answer[k] # None
        BY <3>3 DEF None
      <4>2. ~(k > asked) /\ k \in Nat
        BY <1>2, <4>1 DEF Calls, Ids
      <4> QED
        BY <1>2, <4>2
    <3> QED
      BY <1>1, <1>4, <2>1, <3>1, <3>2, <3>3
  <2>2. CASE d # c
    <3>1. doing'[d] = doing[d] /\ doing[d].at # "idle"
      BY <1>4, <1>17, <2>2
    <3>2. lock # <<>>
      BY <1>9, <3>1 DEF Calls
    <3> QED
      BY <1>1, <1>7, <3>1, <3>2 DEF Calls
  <2> QED
    BY <2>1, <2>2
<1>18. \A w \in Written' : w <= asked'
  BY <1>1, <1>2, <1>5, <1>8
<1>19. /\ \A k \in Ids : k > asked' => answer'[k] = None
       /\ \A k \in Ids : answer'[k].kind # "response" => answer'[k].from = {}
  BY <1>1, <1>2 DEF Calls, Ids
<1>20. Calls'
  BY <1>11, <1>12, <1>14, <1>16, <1>17, <1>18, <1>19 DEF Calls
<1> QED
  BY <1>1, <1>3, <1>4, <1>7, <1>8, <1>20

-----------------------------------------------------------------------------
(* The probe.                                                              *)
LEMMA ProbeLinesKept ==
  ASSUME ProbeLines, NEW a \in Nat, prompts' = prompts,
         DOMAIN output \subseteq Nat, DOMAIN output' \subseteq Nat, DOMAIN input \subseteq Nat, DOMAIN input' \subseteq Nat,
         \A i \in DOMAIN output' : i + a \in DOMAIN output /\ output'[i] = output[i + a],
         \A j \in DOMAIN input' : (j \in DOMAIN input /\ input'[j] = input[j]) \/ input'[j].id # 0,
         \A j \in DOMAIN input : \A i \in DOMAIN input' : i < j => i \in DOMAIN input /\ input'[i] = input[i]
  PROVE  ProbeLines'
<1>0. Probe[1].id = 0 /\ Probe' = Probe
  BY DEF Probe
<1>1. \A j \in DOMAIN input' : input'[j].id = 0 => input'[j].op \in {"nodes", "time"}
  BY DEF ProbeLines
<1>2. \A i, j \in DOMAIN input' : i < j /\ input'[j].id = 0 => input'[i] = Probe[1]
  BY DEF ProbeLines
<1>3. \A j \in DOMAIN input' : input'[j] = Probe[1] => j = 1 /\ prompts' <= 1
  BY <1>0 DEF ProbeLines
<1>4. ASSUME NEW i \in DOMAIN output', IsPrompt(output'[i]), ~IsNode(output'[i])
      PROVE  /\ \A j \in DOMAIN output' : i < j => output'[j].by # 0
             /\ \A j \in DOMAIN input' : input'[j].id # 0
  <2>1. i + a \in DOMAIN output /\ IsPrompt(output[i + a]) /\ ~IsNode(output[i + a])
    BY <1>4
  <2>2. ASSUME NEW j \in DOMAIN output', i < j PROVE output'[j].by # 0
    <3>1. i + a < j + a /\ j + a \in DOMAIN output /\ output'[j] = output[j + a]
      BY <2>2
    <3> QED
      BY <2>1, <3>1 DEF ProbeLines
  <2>3. \A j \in DOMAIN input' : input'[j].id # 0
    BY <2>1 DEF ProbeLines
  <2> QED
    BY <2>2, <2>3
<1> QED
  BY <1>0, <1>1, <1>2, <1>3, <1>4 DEF ProbeLines

LEMMA ProbeDoneKept ==
  ASSUME ProbeDone, status' = status \/ status' = "closed", lus' = "booting" => lus = "booting",
         0 \in Written' => 0 \in Written,
         status = "starting" \/ lus' = "booting" => queue' = <<>> /\ Handed' = {},
         status = "starting" => pending' = {},
         status' # "closed" /\ 0 \in Handed' => 0 \in Handed
  PROVE  ProbeDone'
BY DEF ProbeDone

LEMMA ProbeExecuted ==
  ASSUME Base, ProbeFlow, LusExecutes
  PROVE  ProbeFlow'
<1>0. TypeOK /\ Process /\ ProbeLines /\ ProbeDone /\ prompts \in Nat
  BY TypeOfEach DEF Base, ProbeFlow
<1>1. PICK kinds \in Prints(Head(input).op) : Execution(kinds)
  BY <1>0, Executing
<1>2. /\ lus = "up" /\ lus' = lus /\ Len(output) \in Nat /\ Len(kinds) \in Nat /\ status' = status
      /\ UNCHANGED <<pending, queue, answer>>
      /\ DOMAIN output = 1 .. Len(output) /\ DOMAIN output' = 1 .. Len(output) + Len(kinds)
      /\ \A i \in DOMAIN output : i \in DOMAIN output' /\ output'[i] = output[i]
      /\ \A i \in DOMAIN output' : i \in DOMAIN output \/ \E k \in 1 .. Len(kinds) : i = Len(output) + k
      /\ kinds # <<>> => prompts' = 1
  BY <1>1 DEF Execution, readerVars, callVars
<1>3. \A k \in 1 .. Len(kinds) :
        /\ output'[Len(output) + k].by = Head(input).id /\ output'[Len(output) + k].kind = kinds[k]
        /\ output'[Len(output) + k].prompts = IF k = 1 THEN prompts ELSE 0
        /\ Head(input).op = "time" => k = 1
        /\ Head(input).op = "nodes" => kinds[k] = "node"
  BY <1>1 DEF Execution
<1>4. /\ 1 \in DOMAIN input /\ input[1] = Head(input) /\ DOMAIN input \subseteq Nat \ {0}
      /\ \A j \in DOMAIN input' : j + 1 \in DOMAIN input /\ input'[j] = input[j + 1] /\ j \in Nat \ {0}
      /\ input[1] \in Orders
  <2>1. input \in Seq(Orders) /\ input # <<>> /\ input' = Tail(input)
    BY <1>0, <1>1, TypeOfEach DEF Execution
  <2>2. /\ Len(input) \in Nat \ {0} /\ DOMAIN input = 1 .. Len(input) /\ 1 \in DOMAIN input /\ Head(input) = input[1]
        /\ DOMAIN Tail(input) = 1 .. Len(input) - 1 /\ input[1] \in Orders
        /\ \A j \in DOMAIN Tail(input) : j + 1 \in DOMAIN input /\ Tail(input)[j] = input[j + 1]
    BY <2>1, Tails
  <2> QED
    BY <2>1, <2>2
<1>5. Probe[1] = [id |-> 0, op |-> "nodes"] /\ Probe' = Probe
  BY DEF Probe
<1>6. ASSUME NEW j \in DOMAIN input' PROVE j + 1 > 1 /\ j + 1 # 1 /\ (input'[j].id = 0 => input[1] = Probe[1])
  <2>1. j + 1 > 1 /\ j + 1 # 1 /\ 1 < j + 1 /\ j + 1 \in DOMAIN input /\ input'[j] = input[j + 1]
    BY <1>4
  <2> QED
    BY <1>0, <1>4, <2>1 DEF ProbeLines
<1>7. \A j \in DOMAIN input' : input'[j].id = 0 => input'[j].op \in {"nodes", "time"}
  BY <1>0, <1>4 DEF ProbeLines
<1>8. \A i, j \in DOMAIN input' : i < j /\ input'[j].id = 0 => input'[i] = Probe[1]
  BY <1>0, <1>4 DEF ProbeLines
<1>9. \A j \in DOMAIN input' : input'[j] # Probe[1]
  BY <1>0, <1>4, <1>6 DEF ProbeLines
<1>10. ASSUME NEW i \in DOMAIN output', IsPrompt(output'[i]), ~IsNode(output'[i])
       PROVE  /\ \A j \in DOMAIN output' : i < j => output'[j].by # 0
              /\ \A j \in DOMAIN input' : input'[j].id # 0
  <2>1. CASE i \in DOMAIN output
    <3>1. /\ \A j \in DOMAIN output : i < j => output[j].by # 0
          /\ \A j \in DOMAIN input : input[j].id # 0
      BY <1>0, <1>2, <1>10, <2>1 DEF ProbeLines
    <3>2. \A j \in DOMAIN input' : input'[j].id # 0
      BY <1>4, <3>1
    <3>3. Head(input).id # 0
      BY <1>4, <3>1
    <3>4. ASSUME NEW j \in DOMAIN output', i < j PROVE output'[j].by # 0
      <4>1. CASE j \in DOMAIN output
        BY <1>2, <3>1, <3>4, <4>1
      <4>2. ASSUME NEW k \in 1 .. Len(kinds), j = Len(output) + k PROVE output'[j].by # 0
        BY <1>3, <3>3, <4>2
      <4> QED
        BY <1>2, <4>1, <4>2
    <3> QED
      BY <3>2, <3>4
  <2>2. ASSUME NEW k \in 1 .. Len(kinds), i = Len(output) + k
        PROVE  /\ \A j \in DOMAIN output' : i < j => output'[j].by # 0
               /\ \A j \in DOMAIN input' : input'[j].id # 0
    <3>1. k = 1 /\ output'[i].prompts = prompts /\ output'[i].kind = kinds[k]
      BY <1>3, <1>10, <2>2 DEF IsPrompt
    <3>2. CASE input[1].id # 0
      <4>1. input[1] # Probe[1]
        BY <1>5, <3>2
      <4>2. \A j \in DOMAIN input' : input'[j].id # 0
        BY <1>6, <4>1
      <4>3. ASSUME NEW j \in DOMAIN output', i < j PROVE output'[j].by # 0
        <5>1. j \notin DOMAIN output
          BY <1>2, <2>2, <4>3
        <5> QED
          BY <1>2, <1>3, <1>4, <3>2, <5>1
      <4> QED
        BY <4>2, <4>3
    <3>3. CASE input[1].id = 0 /\ input[1].op = "nodes"
      <4>1. input[1] = Probe[1]
        BY <1>4, <1>5, <3>3 DEF Orders
      <4>2. prompts <= 1 /\ kinds[k] = "node"
        BY <1>0, <1>3, <1>4, <3>3, <4>1 DEF ProbeLines
      <4> QED
        BY <1>10, <3>1, <4>2 DEF IsNode
    <3>4. CASE input[1].id = 0 /\ input[1].op = "time"
      <4>1. input[1] # Probe[1]
        BY <1>5, <3>4
      <4>2. \A j \in DOMAIN input' : input'[j].id # 0
        BY <1>6, <4>1
      <4>3. Len(kinds) = 1
        <5>1. Len(kinds) \in 1 .. Len(kinds)
          BY <1>2, <2>2
        <5> QED
          BY <1>3, <1>4, <3>4, <5>1
      <4>4. \A j \in DOMAIN output' : ~(i < j)
        BY <1>2, <2>2, <3>1, <4>3
      <4> QED
        BY <4>2, <4>4
    <3> QED
      BY <1>0, <1>4, <3>2, <3>3, <3>4 DEF ProbeLines
  <2> QED
    BY <1>2, <2>1, <2>2
<1>11. ProbeLines'
  BY <1>5, <1>7, <1>8, <1>9, <1>10 DEF ProbeLines
<1>12. Written' \subseteq Written
  BY <1>0, WrittenByLus
<1>13. Handed' = Handed
  BY <1>2 DEF Handed
<1>14. ProbeDone'
  BY <1>0, <1>2, <1>12, <1>13 DEF ProbeDone
<1> QED
  BY <1>11, <1>14 DEF ProbeFlow

LEMMA ProbeBooted ==
  ASSUME Base, Ordered, ProbeFlow, LusBoots
  PROVE  ProbeFlow'
<1>1. /\ \A i \in DOMAIN output' : output'[i].by = 0 /\ output'[i].prompts = 0
      /\ UNCHANGED <<status, input, pending, queue, answer>> /\ prompts' = 1 /\ lus' = "up" /\ lus = "booting"
  BY OrderedBooted DEF LusBoots, readerVars, callVars
<1>2. Handed' = Handed /\ Probe' = Probe
  BY <1>1 DEF Handed, Probe
<1>3. ProbeLines'
  BY <1>1, <1>2 DEF ProbeFlow, ProbeLines, IsPrompt
<1>4. ProbeDone'
  BY <1>1, <1>2 DEF ProbeFlow, ProbeDone
<1> QED
  BY <1>3, <1>4 DEF ProbeFlow

(* The end of the list of nodes makes the session ready: what the probe    *)
(* printed has been read by then.                                          *)
LEMMA ProbeRead ==
  ASSUME Base, ProbeFlow, ReadProbe
  PROVE  ProbeFlow'
<1>0. ProbeLines /\ ProbeDone /\ Process
  BY DEF ProbeFlow, Base
<1>1. /\ Reading /\ status = "starting" /\ status' = (IF EndsProbe(output[1]) THEN "ready" ELSE status)
      /\ UNCHANGED <<lus, input, prompts, pending, queue, answer>>
  BY Taking DEF ReadProbe, callVars
<1>2. /\ 1 \in DOMAIN output /\ DOMAIN output \subseteq Nat \ {0} /\ DOMAIN output' \subseteq Nat \ {0}
      /\ \A i \in DOMAIN output' : i + 1 \in DOMAIN output /\ output'[i] = output[i + 1]
      /\ lus # "booting" /\ DOMAIN input \subseteq Nat
  BY <1>0, <1>1, Taking, Numbers DEF Process, Reading, Base
<1>3. ProbeLines'
  <2>1. 1 \in Nat
    OBVIOUS
  <2> QED
    BY <1>0, <1>1, <1>2, <2>1, ProbeLinesKept
<1>4. Handed' = Handed
  BY <1>1 DEF Handed
<1>5. pending' = {} /\ queue' = <<>> /\ Handed' = {}
  BY <1>0, <1>1, <1>4 DEF ProbeDone
<1>6. ASSUME EndsProbe(output[1]) PROVE 0 \notin Written'
  <2>1. IsPrompt(output[1]) /\ ~IsNode(output[1])
    BY <1>6 DEF EndsProbe
  <2>2. ASSUME NEW i \in DOMAIN output' PROVE output'[i].by # 0
    <3>1. 1 < i + 1 /\ i + 1 \in DOMAIN output /\ output'[i] = output[i + 1]
      BY <1>2, <2>2
    <3> QED
      BY <1>0, <1>2, <2>1, <3>1 DEF ProbeLines
  <2>3. \A j \in DOMAIN input' : input'[j].id # 0
    BY <1>0, <1>1, <1>2, <2>1 DEF ProbeLines
  <2>4. \A q \in DOMAIN queue' : FALSE
    BY <1>5
  <2> QED
    BY <1>5, <2>2, <2>3, <2>4, WrittenIs
<1>7. ProbeDone'
  BY <1>1, <1>2, <1>5, <1>6 DEF ProbeDone
<1> QED
  BY <1>3, <1>7 DEF ProbeFlow

-----------------------------------------------------------------------------
(* What was handed out, and the calls.                                     *)
LEMMA HandedIs ==
  ASSUME NEW x
  PROVE  /\ x \in Handed <=> \E k \in Ids : x \in answer[k].from
         /\ x \in Handed' <=> \E k \in Ids : x \in answer'[k].from
BY DEF Handed

LEMMA AnswersKept ==
  ASSUME MispairedOnlyAfterTimeout, OutputDeliveredOnce, UNCHANGED answer, status' # "closed" => status # "closed"
  PROVE  Handed' = Handed /\ MispairedOnlyAfterTimeout' /\ OutputDeliveredOnce'
BY DEF MispairedOnlyAfterTimeout, OutputDeliveredOnce, Handed

LEMMA AloneKept ==
  ASSUME OneAtATime, status' # "closed" => status # "closed", Written' \subseteq Written \cup {0},
         \A k \in Ids : answer[k].kind = "timeout" => answer'[k].kind = "timeout",
         \A c \in Clients : doing[c].at = "awaiting" => doing'[c].at = "awaiting" /\ doing'[c].id = doing[c].id
  PROVE  OneAtATime'
BY DEF OneAtATime, Untroubled

LEMMA PairingInit == Init => CInv
<1> SUFFICES ASSUME Init PROVE CInv
  OBVIOUS
<1> USE CommandBounds
<1>0. Base
  BY BaseInit
<1>1. /\ output = <<>> /\ prompts = 0 /\ reader = "reading" /\ pending = {} /\ queue = <<>> /\ status = "starting"
      /\ lock = <<>> /\ doing = [c \in Clients |-> Idle] /\ asked = 0 /\ answer = [k \in Ids |-> None]
      /\ lus = "booting"
  BY DEF Init
<1>2. /\ input = Probe /\ DOMAIN input = 1 .. 2 /\ input[1] = Probe[1] /\ input[1].id = 0 /\ input[2].id = 0
      /\ input[1].op = "nodes" /\ input[2].op = "time" /\ input[2] # Probe[1]
  BY DEF Init, Probe
<1>3. /\ \A c \in Clients : doing[c].at = "idle" /\ doing[c] = Idle
      /\ \A k \in Ids : answer[k].kind = "none" /\ answer[k].from = {} /\ answer[k] = None
  BY <1>1 DEF Idle, None
<1>4. Handed = {}
  BY <1>3, HandedIs
<1>5. \A w \in Written : w = 0
  BY <1>1, <1>2, WrittenIs
<1>6. Calls
  BY <1>1, <1>3, <1>5 DEF Calls
<1>7. Ordered
  BY <1>1, <1>2, <1>4 DEF Ordered, InputOrdered, OutputOrdered, PendingOrdered, QueueOrdered, Before
<1>8. ProbeFlow
  BY <1>1, <1>2, <1>4 DEF ProbeFlow, ProbeLines, ProbeDone
<1>9. OneAtATime /\ MispairedOnlyAfterTimeout /\ OutputDeliveredOnce
  BY <1>3, <1>5 DEF OneAtATime, MispairedOnlyAfterTimeout, OutputDeliveredOnce
<1> QED
  BY <1>0, <1>6, <1>7, <1>8, <1>9 DEF CInv

LEMMA PairedByLus ==
  ASSUME CInv, LusBoots \/ LusExecutes \/ LusDies
  PROVE  CInv'
<1>0. /\ Base /\ TypeOK /\ Calls /\ Ordered /\ ProbeFlow /\ OneAtATime
      /\ MispairedOnlyAfterTimeout /\ OutputDeliveredOnce
  BY DEF CInv, Base
<1>1. UNCHANGED <<status, readerVars, queue, callVars>>
  BY DEF LusBoots, LusExecutes, LusDies
<1>2. Base' /\ TypeOK'
  BY <1>0, BaseLus DEF Base
<1>3. Written' \subseteq Written \cup {0}
  BY <1>0, WrittenByLus
<1>4. Calls'
  BY <1>0, <1>1, <1>3, CallsKept
<1>5. Handed' = Handed /\ MispairedOnlyAfterTimeout' /\ OutputDeliveredOnce'
  BY <1>0, <1>1, AnswersKept DEF callVars
<1>6. OneAtATime'
  BY <1>0, <1>1, <1>3, AloneKept DEF callVars
<1>7. CASE LusBoots
  BY <1>0, <1>2, <1>4, <1>5, <1>6, <1>7, OrderedBooted, ProbeBooted DEF CInv
<1>8. CASE LusExecutes
  BY <1>0, <1>2, <1>4, <1>5, <1>6, <1>8, OrderedExecuted, ProbeExecuted DEF CInv
<1>9. CASE LusDies
  <2>1. UNCHANGED <<output, prompts, pending, queue, reader, status>> /\ DOMAIN input' = {} /\ lus' = "dead"
    BY <1>9 DEF LusDies, readerVars
  <2>2. DOMAIN output \subseteq Nat /\ DOMAIN queue \subseteq Nat /\ DOMAIN input \subseteq Nat
    BY <1>0, Numbers
  <2>3. Ordered'
    <3>1. \A i \in DOMAIN output' : i + 0 \in DOMAIN output /\ output'[i] = output[i + 0]
      BY <2>1, <2>2
    <3>2. \A q \in DOMAIN queue' : q + 0 \in DOMAIN queue /\ queue'[q] = queue[q + 0]
      BY <2>1, <2>2
    <3> QED
      BY <1>0, <1>2, <1>5, <2>1, <3>1, <3>2, OrderedShrinks
  <2>4. ProbeLines'
    <3>1. \A i \in DOMAIN output' : i + 0 \in DOMAIN output /\ output'[i] = output[i + 0]
      BY <2>1, <2>2
    <3> QED
      BY <1>0, <2>1, <2>2, <3>1, ProbeLinesKept DEF ProbeFlow
  <2>5. 0 \in Written' => 0 \in Written
    BY <1>0, <1>9, WrittenByLus
  <2>6. ProbeDone'
    BY <1>0, <1>5, <2>1, <2>5, ProbeDoneKept DEF ProbeFlow, ProbeDone
  <2> QED
    BY <1>2, <1>4, <1>5, <1>6, <2>3, <2>4, <2>6 DEF CInv, ProbeFlow
<1> QED
  BY <1>7, <1>8, <1>9

LEMMA PairedByReader ==
  ASSUME CInv, SaveEvent \/ ReadProbe \/ ReadResponse \/ ReaderEnds \/ CloseSession \/ CancelReader
  PROVE  CInv'
<1>0. /\ Base /\ TypeOK /\ Process /\ Calls /\ Ordered /\ ProbeFlow /\ ProbeLines /\ ProbeDone /\ OneAtATime
      /\ MispairedOnlyAfterTimeout /\ OutputDeliveredOnce
  BY DEF CInv, Base, ProbeFlow
<1>1. /\ UNCHANGED <<lus, input, prompts, lock, doing, asked, answer>>
      /\ UNCHANGED callVars
  BY DEF SaveEvent, ReadProbe, ReadResponse, ReaderEnds, CloseSession, CancelReader, callVars, lusVars
<1>2. status' # "closed" => status # "closed"
  BY DEF SaveEvent, ReadProbe, ReadResponse, ReaderEnds, CloseSession, CancelReader, StatusAtEof
<1>3. Base' /\ TypeOK'
  BY <1>0, BaseReader DEF Base
<1>4. Written' \subseteq Written
  BY <1>0, WrittenByReader
<1>5. Calls'
  BY <1>0, <1>1, <1>4, CallsKept
<1>6. Handed' = Handed /\ MispairedOnlyAfterTimeout' /\ OutputDeliveredOnce'
  BY <1>0, <1>1, <1>2, AnswersKept
<1>7. OneAtATime'
  BY <1>0, <1>1, <1>2, <1>4, AloneKept
<1>8. DOMAIN output \subseteq Nat /\ DOMAIN queue \subseteq Nat /\ DOMAIN input \subseteq Nat /\ 0 \in Nat /\ 1 \in Nat
  BY <1>0, Numbers
<1>9. \A j \in DOMAIN input' : j \in DOMAIN input /\ input'[j] = input[j]
  BY <1>1
<1>10. CASE SaveEvent \/ ReadProbe \/ ReadResponse
  <2>1. Reading /\ lus # "booting" /\ reader' = reader
    BY <1>0, <1>10 DEF SaveEvent, ReadProbe, ReadResponse, Process, Reading
  <2>2. DOMAIN output' \subseteq Nat /\ \A i \in DOMAIN output' : i + 1 \in DOMAIN output /\ output'[i] = output[i + 1]
    BY <1>0, <2>1, Taking
  <2>3. ProbeLines'
    BY <1>0, <1>1, <1>8, <2>2, ProbeLinesKept
  <2>4. CASE ReadResponse
    <3>1. status # "starting" /\ status' = status
      BY <2>4 DEF ReadResponse
    <3>2. ProbeDone'
      BY <1>0, <1>1, <1>4, <1>6, <2>1, <3>1, ProbeDoneKept
    <3>3. Ordered'
      BY <1>0, <2>4, OrderedRead
    <3> QED
      BY <1>3, <1>5, <1>6, <1>7, <2>3, <3>2, <3>3 DEF CInv, ProbeFlow
  <2>5. CASE SaveEvent \/ ReadProbe
    <3>1. UNCHANGED <<pending, queue>>
      BY <2>5 DEF SaveEvent, ReadProbe
    <3>2. \A q \in DOMAIN queue' : q + 0 \in DOMAIN queue /\ queue'[q] = queue[q + 0]
      BY <1>8, <3>1
    <3>3. Ordered'
      BY <1>0, <1>3, <1>6, <1>8, <1>9, <2>1, <2>2, <3>1, <3>2, OrderedShrinks
    <3>4. CASE SaveEvent
      <4>1. status' = status
        BY <3>4 DEF SaveEvent
      <4>2. ProbeDone'
        BY <1>0, <1>1, <1>4, <1>6, <2>1, <3>1, <4>1, ProbeDoneKept DEF ProbeDone
      <4> QED
        BY <1>3, <1>5, <1>6, <1>7, <2>3, <3>3, <4>2 DEF CInv, ProbeFlow
    <3>5. CASE ReadProbe
      <4>1. ProbeFlow'
        BY <1>0, <3>5, ProbeRead
      <4> QED
        BY <1>3, <1>5, <1>6, <1>7, <3>3, <4>1 DEF CInv
    <3> QED
      BY <2>5, <3>4, <3>5
  <2> QED
    BY <1>10, <2>4, <2>5
<1>11. CASE ReaderEnds \/ CancelReader \/ CloseSession
  <2>1. UNCHANGED output /\ status' = "closed"
    BY <1>11 DEF ReaderEnds, CancelReader, CloseSession, lusVars, StatusAtEof
  <2>2. \A i \in DOMAIN output' : i + 0 \in DOMAIN output /\ output'[i] = output[i + 0]
    BY <1>8, <2>1
  <2>3. ProbeLines'
    BY <1>0, <1>1, <1>8, <1>9, <2>1, <2>2, ProbeLinesKept
  <2>4. CASE ReaderEnds \/ CancelReader
    <3>1. lus # "booting" /\ pending' = {} /\ queue' = FlushPending(queue)
      BY <2>4 DEF ReaderEnds, CancelReader
    <3>2. status = "starting" => queue' = <<>> /\ Handed' = {}
      BY <1>0, <1>6, <3>1 DEF ProbeDone, FlushPending
    <3>3. ProbeDone'
      BY <1>0, <1>1, <1>4, <1>6, <2>1, <3>1, <3>2, ProbeDoneKept
    <3>4. Ordered'
      BY <1>0, <2>4, OrderedFlushed
    <3> QED
      BY <1>3, <1>5, <1>6, <1>7, <2>3, <3>3, <3>4 DEF CInv, ProbeFlow
  <2>5. CASE CloseSession
    <3>1. UNCHANGED <<pending, queue, reader>>
      BY <2>5 DEF CloseSession, readerVars
    <3>2. \A q \in DOMAIN queue' : q + 0 \in DOMAIN queue /\ queue'[q] = queue[q + 0]
      BY <1>8, <3>1
    <3>3. Ordered'
      BY <1>0, <1>3, <1>6, <1>8, <1>9, <2>2, <3>1, <3>2, OrderedShrinks
    <3>4. ProbeDone'
      BY <1>0, <1>1, <1>4, <1>6, <2>1, <3>1, ProbeDoneKept DEF ProbeDone
    <3> QED
      BY <1>3, <1>5, <1>6, <1>7, <2>3, <3>3, <3>4 DEF CInv, ProbeFlow
  <2> QED
    BY <1>11, <2>4, <2>5
<1> QED
  BY <1>10, <1>11

(* A call that fails hands out nothing.                                    *)
LEMMA AnswersFailed ==
  ASSUME MispairedOnlyAfterTimeout, OutputDeliveredOnce, UNCHANGED status,
         \A k \in Ids : answer'[k] = answer[k] \/ \E why \in {"error", "timeout"} : answer[k] = None /\ answer'[k] = Failed(why)
  PROVE  /\ Handed' = Handed /\ MispairedOnlyAfterTimeout' /\ OutputDeliveredOnce'
         /\ \A k \in Ids : answer[k].kind = "timeout" => answer'[k].kind = "timeout"
<1>1. \A k \in Ids : /\ answer'[k].from = answer[k].from /\ (answer[k].kind = "timeout" => answer'[k].kind = "timeout")
                     /\ (answer'[k].kind = "response" => answer[k].kind = "response")
  BY DEF None, Failed
<1>2. Handed' = Handed
  BY <1>1 DEF Handed
<1>3. OutputDeliveredOnce'
  BY <1>1 DEF OutputDeliveredOnce
<1>4. MispairedOnlyAfterTimeout'
  <2>1. \A k \in Ids : k \in Nat /\ \A j \in 1 .. k - 1 : j \in Ids
    BY CommandBounds DEF Ids
  <2> QED
    BY <1>1, <2>1 DEF MispairedOnlyAfterTimeout
<1> QED
  BY <1>1, <1>2, <1>3, <1>4

(* Stages that stay as they are, or are emptied.                           *)
LEMMA NothingAdded ==
  ASSUME CInv, Base', UNCHANGED <<status, lus, prompts, input, output, pending, reader>>, queue' = queue \/ queue' = <<>>,
         UNCHANGED Handed
  PROVE  Ordered' /\ ProbeFlow'
<1>0. /\ Base /\ TypeOK /\ Ordered /\ ProbeFlow /\ ProbeLines /\ ProbeDone /\ TypeOK'
  BY DEF CInv, Base, ProbeFlow
<1>1. DOMAIN output \subseteq Nat /\ DOMAIN queue \subseteq Nat /\ DOMAIN input \subseteq Nat /\ 0 \in Nat
  BY <1>0, Numbers
<1>2. /\ \A i \in DOMAIN output' : i + 0 \in DOMAIN output /\ output'[i] = output[i + 0]
      /\ \A q \in DOMAIN queue' : q + 0 \in DOMAIN queue /\ queue'[q] = queue[q + 0]
      /\ \A j \in DOMAIN input' : j \in DOMAIN input /\ input'[j] = input[j]
  BY <1>1
<1>3. Ordered'
  BY <1>0, <1>1, <1>2, OrderedShrinks
<1>4. ProbeLines'
  BY <1>0, <1>1, <1>2, ProbeLinesKept
<1>5. 0 \in Written' => 0 \in Written
  BY <1>2, WrittenIs
<1>6. ProbeDone'
  BY <1>0, <1>5, ProbeDoneKept DEF ProbeDone
<1> QED
  BY <1>3, <1>4, <1>6 DEF ProbeFlow

LEMMA PairedByFailure ==
  ASSUME CInv, NEW c \in Clients, Refuse(c) \/ StdinBroken(c) \/ TimeOut(c)
  PROVE  CInv'
<1>0. /\ Base /\ TypeOK /\ Calls /\ OneAtATime /\ MispairedOnlyAfterTimeout /\ OutputDeliveredOnce
  BY DEF CInv, Base
<1>1. Base'
  BY <1>0, BaseCalls
<1>2. /\ UNCHANGED <<status, lus, prompts, input, output, pending, reader>> /\ (queue' = queue \/ queue' = <<>>)
  BY DEF Refuse, StdinBroken, TimeOut, lusVars, readerVars, Drained
<1>3. Written' \subseteq Written
  BY <1>0, WrittenByCall
<1>4. CASE Refuse(c)
  <2>1. Calls' /\ UNCHANGED doing
    BY <1>0, <1>4, CallsRefused
  <2>2. \A k \in Ids : answer'[k] = answer[k] \/ (answer[k] = None /\ answer'[k] = Failed("error"))
    BY <1>0, <1>4, CallsRefused
  <2>3. /\ Handed' = Handed /\ MispairedOnlyAfterTimeout' /\ OutputDeliveredOnce'
        /\ \A k \in Ids : answer[k].kind = "timeout" => answer'[k].kind = "timeout"
    BY <1>0, <1>2, <2>2, AnswersFailed
  <2>4. Ordered' /\ ProbeFlow'
    BY <1>1, <1>2, <2>3, NothingAdded
  <2>5. OneAtATime'
    BY <1>0, <1>2, <1>3, <2>1, <2>3, AloneKept
  <2> QED
    BY <1>1, <2>1, <2>3, <2>4, <2>5 DEF CInv
<1>5. ASSUME NEW why \in {"error", "timeout"}, Holds(c), doing[c].at # "idle", Release(c, Failed(why)), UNCHANGED asked,
             why = "timeout" \/ doing[c].at # "awaiting"
      PROVE  CInv'
  <2>1. /\ Failed(why) \in [kind : {"none", "response", "error", "timeout"}, from : SUBSET (0 .. MaxCommands)]
        /\ Failed(why).from = {} /\ Failed(why).kind = why
    BY DEF Failed
  <2>2. /\ Calls' /\ doing[c].id \in Ids /\ answer[doing[c].id] = None /\ answer'[doing[c].id] = Failed(why)
        /\ \A k \in Ids : k # doing[c].id => answer'[k] = answer[k]
        /\ \A d \in Clients : d # c => doing'[d] = doing[d]
    BY <1>0, <1>3, <1>5, <2>1, CallsReleased
  <2>3. /\ Handed' = Handed /\ MispairedOnlyAfterTimeout' /\ OutputDeliveredOnce'
        /\ \A k \in Ids : answer[k].kind = "timeout" => answer'[k].kind = "timeout"
    BY <1>0, <1>2, <2>2, AnswersFailed
  <2>4. Ordered' /\ ProbeFlow'
    BY <1>1, <1>2, <2>3, NothingAdded
  <2>5. OneAtATime'
    <3>1. CASE why = "timeout"
      BY <2>1, <2>2, <3>1 DEF OneAtATime, Untroubled
    <3>2. CASE doing[c].at # "awaiting"
      BY <1>0, <1>2, <1>3, <2>2, <2>3, <3>2, AloneKept
    <3> QED
      BY <1>5, <3>1, <3>2
  <2> QED
    BY <1>1, <2>2, <2>3, <2>4, <2>5 DEF CInv
<1>6. CASE StdinBroken(c)
  <2>1. Holds(c) /\ doing[c].at = "locking" /\ Release(c, Failed("error")) /\ UNCHANGED asked
    BY <1>6 DEF StdinBroken, Unlocked
  <2> QED
    BY <1>5, <2>1
<1>7. CASE TimeOut(c)
  <2>1. Holds(c) /\ doing[c].at = "awaiting" /\ Release(c, Failed("timeout")) /\ UNCHANGED asked
    BY <1>7 DEF TimeOut
  <2> QED
    BY <1>5, <2>1
<1> QED
  BY <1>4, <1>6, <1>7

(* A response goes to the first call of the lock.  Without a timeout       *)
(* nothing but its own command was under way, and with the response        *)
(* everything of it has left.                                              *)
LEMMA PairedByResponse ==
  ASSUME CInv, NEW c \in Clients, GetResponse(c)
  PROVE  CInv'
<1> DEFINE id == doing[c].id
           a  == Replied(Head(queue))
<1>0. /\ Base /\ TypeOK /\ Process /\ Calls /\ Ordered /\ ProbeFlow /\ ProbeLines /\ ProbeDone /\ OneAtATime
      /\ MispairedOnlyAfterTimeout /\ OutputDeliveredOnce
  BY DEF CInv, Base, ProbeFlow
<1>1. Base' /\ TypeOK'
  BY <1>0, BaseCalls DEF Base
<1>2. /\ Holds(c) /\ doing[c].at = "awaiting" /\ queue # <<>> /\ queue' = Tail(queue) /\ Release(c, a) /\ UNCHANGED asked
      /\ UNCHANGED <<status, lus, prompts, input, output, pending, reader>>
  BY DEF GetResponse, lusVars, readerVars, Taken
<1>3. Written' \subseteq Written
  BY <1>0, WrittenByCall
<1>4. /\ 1 \in DOMAIN queue /\ Head(queue) = queue[1] /\ queue[1] \subseteq 0 .. MaxCommands
      /\ DOMAIN queue \subseteq Nat \ {0} /\ DOMAIN queue' \subseteq Nat \ {0}
      /\ \A q \in DOMAIN queue' : q + 1 \in DOMAIN queue /\ queue'[q] = queue[q + 1]
  <2>1. queue \in Seq(SUBSET (0 .. MaxCommands))
    BY <1>0, TypeOfEach DEF Base
  <2> QED
    BY <1>2, <2>1, Tails
<1>5. a \in [kind : {"none", "response", "error", "timeout"}, from : SUBSET (0 .. MaxCommands)] /\ a.kind = "response" /\ a.from = queue[1]
  BY <1>4 DEF Replied
<1> HIDE DEF a
<1>6. /\ Calls' /\ id \in Ids /\ answer[id] = None /\ answer'[id] = a
      /\ \A k \in Ids : k # id => answer'[k] = answer[k]
      /\ doing'[c] = Idle /\ \A d \in Clients : d # c => doing'[d] = doing[d]
  BY <1>0, <1>2, <1>3, <1>5, CallsReleased
<1>7. \A x : x \in Handed' => x \in Handed \/ x \in queue[1]
  BY <1>5, <1>6, HandedIs
<1>8. \A x \in queue[1] : x \in Written /\ x \in Nat /\ x <= id
  BY <1>0, <1>2, <1>4, WrittenIs, Numbers DEF Calls
<1>9. status \in {"starting", "ready", "closed"} /\ status # "starting" /\ lus # "booting" /\ id \in Nat \ {0} /\ id \in 1 .. MaxCommands
  <2>1. id \in Nat \ {0} /\ id \in 1 .. MaxCommands
    BY <1>6, CommandBounds DEF Ids
  <2>2. status \in {"starting", "ready", "closed"} /\ status # "starting" /\ lus # "booting"
    BY <1>0, <1>2 DEF ProbeDone, TypeOK
  <2> QED
    BY <2>1, <2>2
<1>10. status # "closed" => 0 \notin queue[1] /\ 0 \notin Written /\ reader = "reading"
  <2>1. status # "closed" => status = "ready" /\ 0 \notin Written /\ reader = "reading"
    BY <1>0, <1>9 DEF ProbeDone, Process, TypeOK
  <2> QED
    BY <1>8, <2>1
<1>11. Ordered'
  <2>1. \A i \in DOMAIN output' : i + 0 \in DOMAIN output /\ output'[i] = output[i + 0]
    BY <1>0, <1>2, Numbers
  <2>2. \A j \in DOMAIN input' : j \in DOMAIN input /\ input'[j] = input[j]
    BY <1>2
  <2>3. \A x \in Handed' : x \in Handed \/ (1 = 1 /\ 1 \in DOMAIN queue /\ x \in queue[1])
    BY <1>4, <1>7
  <2> QED
    BY <1>0, <1>1, <1>2, <1>4, <2>1, <2>2, <2>3, OrderedShrinks
<1>12. ProbeFlow'
  <2>1. /\ \A i \in DOMAIN output' : i + 0 \in DOMAIN output /\ output'[i] = output[i + 0]
        /\ DOMAIN output \subseteq Nat /\ DOMAIN input \subseteq Nat
    BY <1>0, <1>2, Numbers
  <2>2. ProbeLines'
    BY <1>0, <1>2, <2>1, ProbeLinesKept
  <2>3. status' # "closed" /\ 0 \in Handed' => 0 \in Handed
    BY <1>2, <1>7, <1>10
  <2>4. ProbeDone'
    BY <1>0, <1>2, <1>3, <1>9, <2>3, ProbeDoneKept
  <2> QED
    BY <2>2, <2>4 DEF ProbeFlow
<1>13. OutputDeliveredOnce'
  <2>1. \A x \in queue[1] : x \in Handed => x = 0
    BY <1>0, <1>4, <1>8, BeforeIsTransitive DEF Ordered, QueueOrdered
  <2>2. \A k \in Ids : \A x \in answer[k].from : x \in queue[1] => x = 0
    BY <2>1, HandedIs
  <2>3. ASSUME NEW k \in Ids PROVE answer'[k].from \subseteq 0 .. k /\ (status' # "closed" => 0 \notin answer'[k].from)
    BY <1>0, <1>2, <1>5, <1>6, <1>8, <1>9, <1>10 DEF OutputDeliveredOnce
  <2>4. ASSUME NEW k \in Ids, NEW j \in Ids, j # k PROVE answer'[j].from \cap answer'[k].from \subseteq {0}
    <3>1. answer[j].from \cap answer[k].from \subseteq {0}
      BY <1>0, <2>4 DEF OutputDeliveredOnce
    <3> QED
      BY <1>5, <1>6, <2>2, <2>4, <3>1
  <2> QED
    BY <2>3, <2>4 DEF OutputDeliveredOnce
<1>14. Untroubled => queue[1] = {id} /\ \A w \in Written : w = id
  <2>1. SUFFICES ASSUME Untroubled PROVE queue[1] = {id} /\ \A w \in Written : w = id
    OBVIOUS
  <2>2. 0 \notin Written
    BY <1>10, <2>1 DEF Untroubled
  <2>3. ASSUME NEW w \in Written PROVE w = id
    <3>1. PICK d \in Clients : doing[d].at = "awaiting" /\ doing[d].id = w
      BY <1>0, <2>1, <2>2, <2>3 DEF OneAtATime
    <3>2. d = c
      BY <1>0, <1>2, <3>1, LockOrder
    <3> QED
      BY <3>1, <3>2
  <2>4. queue[1] # {}
    BY <1>0, <1>4 DEF Ordered, QueueOrdered
  <2> QED
    BY <1>8, <2>3, <2>4
<1>15. Untroubled' => Untroubled
  BY <1>2, <1>6 DEF Untroubled, None
<1>16. MispairedOnlyAfterTimeout'
  <2>1. SUFFICES ASSUME status # "closed", NEW k \in Ids, answer'[k].kind = "response", answer'[k].from # {k}
                 PROVE  \E j \in 1 .. k - 1 : answer'[j].kind = "timeout"
    BY <1>2 DEF MispairedOnlyAfterTimeout
  <2>2. ASSUME NEW j \in Ids, answer[j].kind = "timeout" PROVE answer'[j].kind = "timeout"
    BY <1>6, <2>2 DEF None
  <2>3. k \in Nat /\ \A j \in 1 .. k - 1 : j \in Ids
    BY CommandBounds DEF Ids
  <2>4. CASE k = id
    <3>1. queue[1] # {id}
      BY <1>5, <1>6, <2>1, <2>4
    <3>2. PICK j \in Ids : answer[j].kind = "timeout"
      BY <1>14, <2>1, <3>1 DEF Untroubled
    <3>3. j < id
      BY <1>0, <1>2, <3>2 DEF Calls
    <3>4. j \in 1 .. k - 1
      BY <1>9, <2>4, <3>3 DEF Ids
    <3> QED
      BY <2>2, <3>2, <3>4
  <2>5. CASE k # id
    <3>1. PICK j \in 1 .. k - 1 : answer[j].kind = "timeout"
      BY <1>0, <1>6, <2>1, <2>5 DEF MispairedOnlyAfterTimeout
    <3> QED
      BY <2>2, <2>3, <3>1
  <2> QED
    BY <2>4, <2>5
<1>17. OneAtATime'
  <2>1. SUFFICES ASSUME Untroubled', NEW w \in Written' PROVE FALSE
    BY DEF OneAtATime
  <2>2. w = id /\ id \in queue[1] /\ reader = "reading"
    BY <1>3, <1>10, <1>14, <1>15, <2>1 DEF Untroubled
  <2>3. /\ \A y \in pending : Before(id, y)
        /\ \A i \in DOMAIN output : Before(id, output[i].by)
        /\ \A j \in DOMAIN input : Before(id, input[j].id)
    BY <1>0, <1>4, <2>2 DEF Ordered, QueueOrdered, Left
  <2>4. ~Before(id, id)
    BY <1>9 DEF Before
  <2>5. PICK q \in DOMAIN queue' : w \in queue'[q]
    <3>1. pending' = pending /\ output' = output /\ input' = input
      BY <1>2
    <3>2. w \notin pending /\ \A i \in DOMAIN output : output[i].by # w
      BY <2>2, <2>3, <2>4
    <3>3. \A j \in DOMAIN input : input[j].id # w
      BY <2>2, <2>3, <2>4
    <3>4. w \in Written'
      BY <2>1
    <3> QED
      BY <3>1, <3>2, <3>3, <3>4, WrittenIs
  <2>6. q + 1 \in DOMAIN queue /\ 1 < q + 1 /\ id \in queue[q + 1]
    BY <1>4, <2>2, <2>5
  <2>7. Before(id, id)
    BY <1>0, <1>4, <2>2, <2>6 DEF Ordered, QueueOrdered
  <2> QED
    BY <2>4, <2>7
<1> QED
  BY <1>1, <1>6, <1>11, <1>12, <1>13, <1>16, <1>17 DEF CInv

(* A command is written behind everything that was asked before it.        *)
LEMMA Behind ==
  ASSUME CInv, Base', NEW id \in 1 .. MaxCommands, NEW op \in Ops, input' = Sent(id, op),
         \A w \in Written : w < id, \A k \in Ids : answer[k].kind = "response" => k < id,
         UNCHANGED <<status, lus, prompts, output, pending, reader, answer>>, queue' = queue \/ queue' = <<>>
  PROVE  Ordered' /\ ProbeFlow'
<1>0. /\ Base /\ TypeOK /\ Ordered /\ ProbeFlow /\ ProbeLines /\ ProbeDone /\ TypeOK' /\ Calls /\ OutputDeliveredOnce
  BY DEF CInv, Base, ProbeFlow
<1>1. id \in 0 .. MaxCommands /\ id \in Nat \ {0} /\ MaxCommands \in Nat
  BY CommandBounds
<1>2. Handed' = Handed
  BY DEF Handed
<1>3. \A w \in Written \cup Handed : w < id
  <2>1. ASSUME NEW k \in Ids, NEW w \in answer[k].from PROVE w < id
    <3>1. answer[k].kind = "response"
      BY <1>0, <2>1 DEF Calls
    <3>2. w \in 0 .. k /\ k < id /\ k \in Nat
      BY <1>0, <1>1, <2>1, <3>1 DEF OutputDeliveredOnce, Ids
    <3> QED
      BY <1>1, <3>2
  <2> QED
    BY <2>1, HandedIs
<1>4. /\ Len(input) \in Nat /\ DOMAIN input = 1 .. Len(input)
      /\ \A j \in DOMAIN input : j \in DOMAIN input' /\ input'[j] = input[j]
      /\ \A j \in DOMAIN input' : j \in Nat /\ (j \in DOMAIN input
           \/ (j = Len(input) + 1 /\ input'[j] = [id |-> id, op |-> op]))
  BY <1>0, <1>1, Sends
<1>5. /\ \A j \in DOMAIN input' : j \in Nat /\ (\/ j \in DOMAIN input /\ input'[j] = input[j]
                                                \/ j \notin DOMAIN input /\ input'[j] = [id |-> id, op |-> op])
      /\ \A j \in DOMAIN input : \A i \in DOMAIN input' : i < j => i \in DOMAIN input
      /\ \A i, j \in DOMAIN input' : i \notin DOMAIN input /\ j \notin DOMAIN input => i = j
  <2>1. Len(input) + 1 \notin DOMAIN input
    BY <1>4
  <2>2. \A j \in DOMAIN input' : j \in Nat /\ (\/ j \in DOMAIN input /\ input'[j] = input[j]
                                               \/ j \notin DOMAIN input /\ input'[j] = [id |-> id, op |-> op])
    BY <1>4, <2>1
  <2>3. \A j \in DOMAIN input : \A i \in DOMAIN input' : i < j => i \in DOMAIN input
    BY <1>4
  <2>4. \A i, j \in DOMAIN input' : i \notin DOMAIN input /\ j \notin DOMAIN input => i = j
    BY <1>4
  <2> QED
    BY <2>2, <2>3, <2>4
<1>6. Ordered'
  BY <1>0, <1>1, <1>2, <1>3, <1>5, OrderedSent
<1>7. /\ \A i \in DOMAIN output' : i + 0 \in DOMAIN output /\ output'[i] = output[i + 0]
      /\ DOMAIN output \subseteq Nat /\ DOMAIN input \subseteq Nat /\ DOMAIN input' \subseteq Nat /\ 0 \in Nat
  BY <1>0, <1>4, Numbers
<1>8. \A j \in DOMAIN input' : (j \in DOMAIN input /\ input'[j] = input[j]) \/ input'[j].id # 0
  BY <1>1, <1>5
<1>9. \A j \in DOMAIN input : \A i \in DOMAIN input' : i < j => i \in DOMAIN input /\ input'[i] = input[i]
  BY <1>4
<1>10. ProbeLines'
  BY <1>0, <1>7, <1>8, <1>9, ProbeLinesKept
<1>11. 0 \in Written' => 0 \in Written
  <2>1. Written' \subseteq Written \cup {id}
    BY <1>0, <1>1, WrittenBySender
  <2> QED
    BY <1>1, <2>1
<1>12. ProbeDone'
  BY <1>0, <1>2, <1>11, ProbeDoneKept DEF ProbeDone
<1> QED
  BY <1>6, <1>10, <1>12 DEF ProbeFlow

LEMMA PairedByWrite ==
  ASSUME CInv, NEW c \in Clients, Write(c)
  PROVE  CInv'
<1> USE CommandBounds
<1>0. /\ Base /\ TypeOK /\ Process /\ Calls /\ OneAtATime /\ MispairedOnlyAfterTimeout /\ OutputDeliveredOnce
  BY DEF CInv, Base
<1>1. Base'
  BY <1>0, BaseCalls
<1>2. /\ doing[c].at = "locking" /\ input' = Sent(doing[c].id, doing[c].op)
      /\ UNCHANGED <<status, lus, prompts, output, pending, reader, answer, queue>>
  BY DEF Write, readerVars
<1>3. /\ Calls' /\ Written' \subseteq Written \cup {doing[c].id}
      /\ doing[c].id \in Ids /\ doing'[c].id = doing[c].id /\ doing'[c].at = "awaiting"
      /\ \A d \in Clients : d # c => doing'[d] = doing[d]
  BY <1>0, CallsWritten
<1>4. /\ \A w \in Written : w < doing[c].id
      /\ \A k \in Ids : answer[k].kind = "response" => k < doing[c].id
  BY <1>0, <1>2 DEF Calls
<1>5. Ordered' /\ ProbeFlow'
  <2>1. PICK id \in 1 .. MaxCommands : id = doing[c].id
    BY <1>3 DEF Ids
  <2>2. PICK op \in Ops : op = doing[c].op
    BY <1>0, <1>2 DEF Process
  <2> QED
    BY <1>1, <1>2, <1>4, <2>1, <2>2, Behind
<1>6. MispairedOnlyAfterTimeout' /\ OutputDeliveredOnce'
  BY <1>0, <1>2, AnswersKept
<1>7. OneAtATime'
  BY <1>0, <1>2, <1>3 DEF OneAtATime, Untroubled
<1> QED
  BY <1>1, <1>3, <1>5, <1>6, <1>7 DEF CInv

LEMMA PairedByAsking ==
  ASSUME CInv, NEW c \in Clients, NEW op \in Ops, Ask(c, op)
  PROVE  CInv'
<1> USE CommandBounds
<1>0. /\ Base /\ TypeOK /\ Process /\ Calls /\ OneAtATime /\ MispairedOnlyAfterTimeout /\ OutputDeliveredOnce
  BY DEF CInv, Base
<1>1. Base'
  BY <1>0, BaseCalls
<1>2. /\ UNCHANGED <<status, lus, prompts, output, pending, reader, answer>> /\ queue' = <<>>
      /\ input' = (IF lock = <<>> THEN Sent(asked + 1, op) ELSE input)
  BY DEF Ask, readerVars, Drained
<1>3. /\ Calls' /\ asked + 1 \in Ids
      /\ Written' \subseteq Written \cup {asked + 1} /\ (lock # <<>> => Written' \subseteq Written)
      /\ doing[c] = Idle /\ doing'[c].id = asked + 1
      /\ doing'[c].at = (IF lock = <<>> THEN "awaiting" ELSE "locking")
      /\ \A d \in Clients : d # c => doing'[d] = doing[d]
  BY <1>0, CallsAsked
<1>4. Ordered' /\ ProbeFlow'
  <2>1. CASE lock = <<>>
    <3>1. PICK id \in 1 .. MaxCommands : id = asked + 1
      BY <1>3 DEF Ids
    <3>2. asked \in Nat /\ \A w \in Written : w \in Nat
      BY <1>0, Numbers DEF TypeOK
    <3>3. \A w \in Written : w < id
      BY <1>0, <3>1, <3>2 DEF Calls
    <3>4. \A k \in Ids : answer[k].kind = "response" => k < id
      <4>1. \A k \in Ids : k > asked => answer[k].kind = "none"
        BY <1>0 DEF Calls, None
      <4> QED
        BY <3>1, <3>2, <4>1 DEF Ids
    <3>5. input' = Sent(id, op)
      BY <1>2, <2>1, <3>1
    <3> QED
      BY <1>1, <1>2, <3>3, <3>4, <3>5, Behind
  <2>2. CASE lock # <<>>
    <3>1. Handed' = Handed /\ input' = input
      BY <1>2, <2>2 DEF Handed
    <3> QED
      BY <1>1, <1>2, <3>1, NothingAdded
  <2> QED
    BY <2>1, <2>2
<1>5. MispairedOnlyAfterTimeout' /\ OutputDeliveredOnce'
  BY <1>0, <1>2, AnswersKept
<1>6. OneAtATime'
  <2>1. \A d \in Clients : doing[d].at = "awaiting" => d # c
    BY <1>3 DEF Idle
  <2>2. Untroubled' => Untroubled
    BY <1>2 DEF Untroubled
  <2> QED
    BY <1>0, <1>3, <2>1, <2>2 DEF OneAtATime
<1> QED
  BY <1>1, <1>3, <1>4, <1>5, <1>6 DEF CInv

LEMMA PairedAtRest ==
  ASSUME CInv, UNCHANGED vars
  PROVE  CInv'
<1>0. Base /\ Calls /\ OneAtATime /\ MispairedOnlyAfterTimeout /\ OutputDeliveredOnce
  BY DEF CInv
<1>1. Base'
  BY <1>0, BaseIdle
<1>2. UNCHANGED <<status, lus, prompts, input, output, pending, reader, queue, answer, doing>> /\ UNCHANGED callVars
  BY DEF vars, lusVars, readerVars, callVars
<1>3. Handed' = Handed /\ Written' = Written /\ MispairedOnlyAfterTimeout' /\ OutputDeliveredOnce'
  <2>1. Written' = Written
    BY <1>2 DEF Written
  <2> QED
    BY <1>0, <1>2, <2>1, AnswersKept
<1>4. Calls' /\ OneAtATime'
  BY <1>0, <1>2, <1>3, CallsKept, AloneKept
<1>5. Ordered' /\ ProbeFlow'
  BY <1>1, <1>2, <1>3, NothingAdded
<1> QED
  BY <1>1, <1>3, <1>4, <1>5 DEF CInv

(* However calls, lines, timeouts and the end of lus interleave: what a    *)
(* command printed is handed to one caller at most and never to one that   *)
(* asked before; and while the session is open, a caller gets another's    *)
(* output only after an earlier call had given up.                         *)
THEOREM OutputPaired == Spec => []OutputIsPaired
<1>1. CInv /\ [Next]_vars => CInv'
  <2> SUFFICES ASSUME CInv, [Next]_vars PROVE CInv'
    OBVIOUS
  <2>1. CASE LusBoots \/ LusExecutes \/ LusDies
    BY <2>1, PairedByLus
  <2>2. CASE SaveEvent \/ ReadProbe \/ ReadResponse \/ ReaderEnds \/ CloseSession \/ CancelReader
    BY <2>2, PairedByReader
  <2>3. ASSUME NEW c \in Clients, Refuse(c) \/ StdinBroken(c) \/ TimeOut(c) PROVE CInv'
    BY <2>3, PairedByFailure
  <2>4. ASSUME NEW c \in Clients, GetResponse(c) PROVE CInv'
    BY <2>4, PairedByResponse
  <2>5. ASSUME NEW c \in Clients, Write(c) PROVE CInv'
    BY <2>5, PairedByWrite
  <2>6. ASSUME NEW c \in Clients, NEW op \in Ops, Ask(c, op) PROVE CInv'
    BY <2>6, PairedByAsking
  <2>7. CASE UNCHANGED vars
    BY <2>7, PairedAtRest
  <2> QED
    BY <2>1, <2>2, <2>3, <2>4, <2>5, <2>6, <2>7 DEF Next, Quiet
<1>2. CInv => OutputIsPaired
  BY DEF CInv, Base, OutputIsPaired
<1> QED
  BY <1>1, <1>2, PairingInit, PTL DEF Spec
=============================================================================
