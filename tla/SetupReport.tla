----------------------------- MODULE SetupReport ----------------------------
(***************************************************************************)
(* Section 26 of tools/analyze.py: every RTS attempt in the log of RunLog  *)
(* is joined with what became of it at its addressee and with the answer,  *)
(* and put in one category.  An attempt is known by its position in        *)
(* attempts; the dictionaries of the section map keys to positions.        *)
(***************************************************************************)
EXTENDS RadioReport

IndexOf(name) == CHOOSE i \in Nodes : Name(i) = name

Blank ==
  [attempts |-> <<>>, rtsEmit |-> <<>>, detail |-> <<>>, respEmit |-> <<>>, open |-> <<>>,
   byPkt |-> <<>>, bySeq |-> <<>>, responses |-> <<>>]

Queue(dict, key) == IF key \in DOMAIN dict THEN dict[key] ELSE <<>>
Key(rx, tx, ctr) == <<rx, tx, ctr>>

(* first_open: the oldest attempt not closed, or else the oldest of all;   *)
(* 0 where there is none.                                                  *)
FirstOpen(st, key) ==
  LET q    == Queue(st.open, key)
      open == {k \in DOMAIN q : ~st.attempts[q[k]].closed}
  IN  IF q = <<>> THEN 0 ELSE q[IF open = {} THEN 1 ELSE Min(open)]

Marked(st, a, new) ==
  IF a = 0 THEN st ELSE [st EXCEPT !.attempts[a] = new @@ @]

(* latest_open: likewise, the newest. *)
LatestOpen(st, key) ==
  LET q    == Queue(st.open, key)
      open == {k \in DOMAIN q : ~st.attempts[q[k]].closed}
  IN  IF q = <<>> THEN 0 ELSE q[IF open = {} THEN Len(q) ELSE Max(open)]

(* mark_timeout and mark_timeout_seq: a closed attempt keeps its outcome.  *)
TimedOut(st, a) ==
  IF a = 0 \/ st.attempts[a].closed THEN st
  ELSE Marked(st, a, [timeout |-> TRUE, closed |-> TRUE])

(* pop_matching: the item of that attempt, or else the oldest. *)
MatchOf(q, seq) ==
  LET same == {k \in DOMAIN q : q[k].seq = seq}
  IN  IF same = {} THEN 1 ELSE Min(same)

(* What a script_emit adds to the join. *)
OfReceiver(st, e) == FirstOpen(st, Key(e.node[2], e.d.peer, e.d.ctr))

Heard26(st, e) ==
  CASE e.emit = "rts_tx" ->
         [st EXCEPT !.rtsEmit = Filed(@, Name(e.node[2]), e.d)]
    [] e.emit = "rts_retry" ->
         TimedOut([st EXCEPT !.rtsEmit = Filed(@, Name(e.node[2]), e.d)],
                  LatestOpen(st, Key(e.d.next, e.node[2], e.d.ctr)))
    [] e.emit = "rts_attempt_detail" ->
         [st EXCEPT !.detail = Filed(@, Name(e.node[2]), e.d)]
    [] e.emit = "rts_attempt_timeout" -> TimedOut(st, At(st.bySeq, <<e.node[2], e.d.seq>>))
    [] e.emit \in {"rts_rx", "rts_rx_dup"} ->
         Marked(st, OfReceiver(st, e), [decoded |-> TRUE])
    [] e.emit = "rts_receiver_state" ->
         Marked(st, OfReceiver(st, e), [state |-> e.d.busy])
    [] e.emit = "rts_drop_pending_tx" ->
         Marked(st, OfReceiver(st, e), [scriptDrop |-> TRUE, closed |-> TRUE])
    [] e.emit \in {"cts_tx", "nack_tx"} ->
         Marked([st EXCEPT !.respEmit = Filed(@, Name(e.node[2]), e.d)],
                OfReceiver(st, e), [emitted |-> TRUE])
    [] e.emit \in {"cts_rx", "nack_rx"} ->
         LET known == At(st.bySeq, <<e.node[2], e.d.seq>>)
             a == IF known # 0 THEN known
                  ELSE FirstOpen(st, Key(e.d.peer, e.node[2], e.d.ctr))
         IN  Marked(st, a, [received |-> IF e.emit = "cts_rx" THEN "CTS" ELSE "NACK", closed |-> TRUE])
    [] OTHER -> st

(* A transmission, or its refusal, takes the emit it stems from out of the *)
(* queue of its node and becomes an attempt.                               *)
NewAttempt(st, e) ==
  LET q    == Queue(st.rtsEmit, e.node)
      dq   == Queue(st.detail, e.node)
      m    == MatchOf(q, e.seq)
      dm   == MatchOf(dq, e.seq)
      src  == IndexOf(e.node)
      meta == q[m]
      a    == [at |-> e.t, seq |-> meta.seq, detail |-> dq[dm], next |-> meta.next, src |-> src,
               blocked |-> e.type = "tx_deferred", closed |-> e.type = "tx_deferred",
               timeout |-> FALSE, decoded |-> FALSE, state |-> "unknown", scriptDrop |-> FALSE,
               emitted |-> FALSE, received |-> "no", rfDrop |-> "no", answerDrop |-> "no"]
      k    == Len(st.attempts) + 1
      base == [st EXCEPT !.attempts = Append(@, a),
                         !.rtsEmit = (e.node :> RemoveAt(q, m)) @@ @,
                         !.detail = (e.node :> RemoveAt(dq, dm)) @@ @,
                         !.bySeq = (<<src, a.seq>> :> k) @@ @]
  IN  IF a.blocked THEN base
      ELSE [base EXCEPT !.byPkt = (e.pkt :> k) @@ @,
                        !.open = Filed(@, Key(meta.next, src, meta.ctr), k)]

Response(st, e) ==
  LET q    == Queue(st.respEmit, e.node)
      src  == IndexOf(e.node)
      meta == q[1]
      r    == [attempt |-> FirstOpen(st, Key(src, meta.peer, meta.ctr)), to |-> Name(meta.peer)]
  IN  [st EXCEPT !.respEmit = (e.node :> Tail(q)) @@ @,
                 !.responses = (e.pkt :> r) @@ @]

(* A reception that failed counts only at the addressee. *)
DroppedAnywhere(st, e) ==
  LET a == At(st.byPkt, e.pkt)
      answered == IF e.pkt \in DOMAIN st.responses THEN st.responses[e.pkt].attempt ELSE 0
  IN  Marked(Marked(st, a, [rfDrop |-> e.type]), answered, [answerDrop |-> e.type])
Dropped(st, e) ==
  LET a == At(st.byPkt, e.pkt)
      r == IF e.pkt \in DOMAIN st.responses THEN st.responses[e.pkt] ELSE [attempt |-> 0, to |-> e.to]
      hit == IF a = 0 THEN 0 ELSE IF e.to = Name(st.attempts[a].next) THEN a ELSE 0
  IN  Marked(Marked(st, hit, [rfDrop |-> e.type]),
             IF e.to = r.to THEN r.attempt ELSE 0, [answerDrop |-> e.type])

IsAttempt(e) == e.type \in {"tx", "tx_deferred"} /\ e.label \in RtsLabels

Joined(st, e) ==
  IF e.type = "script_emit" THEN Heard26(st, e)
  ELSE IF IsAttempt(e) THEN NewAttempt(st, e)
  ELSE IF e.type = "tx" /\ e.label \in Responses THEN Response(st, e)
  ELSE IF e.type \in ListedDrops THEN Dropped(st, e)
  ELSE st

Attempts(es) == FoldLeft(Joined, Blank, es).attempts

(* The category of an attempt: an answer that was taken outweighs the      *)
(* rest.                                                                   *)
Category26(a) ==
  IF a.blocked                THEN "rts_tx_blocked"
  ELSE IF a.received = "CTS"  THEN "success_cts_rx"
  ELSE IF a.received = "NACK" THEN "nack_rx"
  ELSE IF a.scriptDrop        THEN "rts_decoded_script_drop"
  ELSE IF ~a.decoded
  THEN IF a.rfDrop # "no" THEN "rts_not_decoded_rf"
       ELSE IF a.timeout THEN "rts_not_decoded_no_observation" ELSE "unresolved"
  ELSE IF a.emitted
  THEN IF a.answerDrop # "no" THEN "response_lost_rf"
       ELSE IF a.timeout THEN "response_lost_no_observation" ELSE "response_pending_or_unresolved"
  ELSE "rts_decoded_no_response"

(* The aggregate: attempts by category, losses by kind, what the receiver  *)
(* was busy with, the ages of the routes used, and the attempts towards a  *)
(* node that was dead.                                                     *)
SetupReport ==
  LET as       == Attempts(Cut)
      Cat(a)   == Category26(a)
      Rf(a)    == a.rfDrop
      Busy26(a) == <<Category26(a), a.state>>
      Of(cat)  == SelectSeq(as, LAMBDA a : Category26(a) = cat)
      Ages(s)  == [k \in DOMAIN s |-> s[k].detail.age]
  IN  [categories |-> Counted(as, Cat, One),
       rfRts |-> Counted(Of("rts_not_decoded_rf"), Rf, One),
       receiver |-> Counted(SelectSeq(as, LAMBDA a : a.state # "unknown"), Busy26, One),
       ages |-> Ages(as),
       failedAges |-> Ages(SelectSeq(as, LAMBDA a : Category26(a) # "success_cts_rx")),
       toDead |-> Len(SelectSeq(as, LAMBDA a : scene.dies[a.next] <= a.at)),
       unresolved |-> Len(Of("unresolved")) + Len(Of("response_pending_or_unresolved"))]

-----------------------------------------------------------------------------
(* Every RTS handed to the modem is one attempt, with its own detail, and  *)
(* nothing else is; and the report on attempts towards a node that is gone *)
(* counts those made after its death.                                      *)
Handed ==
  {i \in DOMAIN log : log[i].type \in {"tx", "tx_deferred"} /\ log[i].label \in RtsLabels}
Deaths(n) == {i \in Logged({"node_died"}) : log[i].node = Name(n)}
AttemptsAreComplete ==
  Reported =>
    LET as == Attempts(Cut)
        r  == SetupReport
    IN  /\ {as[i].seq : i \in DOMAIN as} = {log[i].seq : i \in Handed}
        /\ Len(as) = Cardinality(Handed)
        /\ \A i \in DOMAIN as : as[i].detail.seq = as[i].seq
        /\ r.toDead = Cardinality({i \in Handed : \E j \in Deaths(1) : j < i})
        /\ \A k \in DOMAIN r.failedAges : r.failedAges[k] <= now

(* The category of an attempt is what became of it on the air and at its   *)
(* addressee, as long as no timeout overtook a frame that was on its way.  *)
TimeoutSeen(k) == \E i \in Emitted("rts_attempt_timeout") : log[i].d.seq = k
Truth(k) ==
  CASE tries[k] = "blocked"  -> {"rts_tx_blocked"}
    [] tries[k] = "lost"     -> {"rts_not_decoded_rf"}
    [] tries[k] = "unheard"  -> {IF TimeoutSeen(k) THEN "rts_not_decoded_no_observation" ELSE "unresolved"}
    [] tries[k] = "flying"   -> {"unresolved"}
    [] tries[k] = "dropped"  -> {"rts_decoded_script_drop"}
    [] tries[k] = "answer lost" -> {"response_lost_rf"}
    [] tries[k] = "answer unheard" ->
         {IF TimeoutSeen(k) THEN "response_lost_no_observation" ELSE "response_pending_or_unresolved"}
    [] tries[k] = "cts"      -> {"success_cts_rx"}
    [] tries[k] = "nack"     -> {"nack_rx"}
    [] tries[k] = "answered" -> {"unresolved", "response_pending_or_unresolved"}
    [] OTHER -> {"any"}
SetupIsTrue ==
  Reported =>
    LET as == Attempts(Cut) IN
    \A i \in DOMAIN as :
      (\A k \in 1 .. as[i].seq : tries[k] # "overtaken") =>
        Truth(as[i].seq) = {"any"} \/ Category26(as[i]) \in Truth(as[i].seq)

(* An answer the sender took is the success of exactly one attempt.        *)
AnswersCountOnce ==
  Reported =>
    LET r == SetupReport IN
    /\ At(r.categories, "success_cts_rx") = Cardinality(Emitted("cts_rx"))
    /\ At(r.categories, "nack_rx") = Cardinality(Emitted("nack_rx"))
    /\ Total(r.categories) = Cardinality(Handed)
    /\ \A c \in DOMAIN r.receiver : c[1] = "rts_decoded_script_drop" => c[2] = "tx"

(* Section 26 tells every attempt, once, with its own fate.                *)
SetupReportIsTrue == AttemptsAreComplete /\ SetupIsTrue /\ AnswersCountOnce
=============================================================================
