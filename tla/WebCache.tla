------------------------------ MODULE WebCache ------------------------------
(***************************************************************************)
(* The read side of the simulations API: two LRU caches of what was        *)
(* computed from an events file (the event index and the delivery          *)
(* breakdown), invalidated by the file's mtime, and the ETag by which a    *)
(* browser revalidates the body that it keeps.                             *)
(*                                                                         *)
(* The endpoints run on the event loop without an await, so one request is *)
(* served at a time; lus is another process and writes the file between    *)
(* any two steps of a request.  The file system stamps a write with a      *)
(* clock that ticks more slowly than lus writes.                           *)
(***************************************************************************)
EXTENDS Integers, Sequences, FiniteSets, SequencesExt

CONSTANTS
  Stored,     \* simulations with an events file
  Running,    \* those whose lus still writes; the others have one event
  Views,      \* "index" and "breakdown", one cache each
  Size,       \* per view: max_size of its cache
  None,       \* no simulation
  MaxEvents,  \* bound: events that lus writes to a file
  MaxClock    \* bound: ticks of the file system's clock

ASSUME SizeAssumption ==
  /\ "index" \in Views /\ Size \in [Views -> Nat \ {0}]
  /\ None \notin Stored /\ MaxEvents \in Nat /\ MaxClock \in Nat \ {0}

VARIABLES
  file,     \* per simulation: the tick at which each event was written
  live,     \* simulations that the registry knows
  clock,    \* the file system's clock
  cache,    \* per view: entries, the most recently used last
  used,     \* history, per view: simulations by last use
  browser,  \* one body that a browser keeps, with its ETag
  req       \* the request that is served, or the last one; both note in
            \* "late" whether lus wrote between the load and the ETag

fileVars == <<file, live, clock>>
cacheVars == <<fileVars, cache, used, browser, req>>

NoBody == [sim |-> None, view |-> "index", etag |-> <<>>, size |-> 0, stamp |-> 0, late |-> FALSE]
Rest   == [at |-> "idle", sim |-> None, view |-> "index", asked |-> 0,
           size |-> 0, stamp |-> 0, late |-> FALSE]

CacheInit ==
  /\ file = [s \in Stored |-> IF s \in Running THEN <<>> ELSE <<1>>] /\ live = Stored /\ clock = 1
  /\ cache = [v \in Views |-> <<>>] /\ used = cache
  /\ browser = NoBody /\ req = Rest
-----------------------------------------------------------------------------
(* stat: the mtime is the tick of the last write, the size grows with it.  *)
Mtime(s) == IF file[s] = <<>> THEN 0 ELSE Last(file[s])
Etag(s)  == <<Mtime(s), Len(file[s])>>

(* lus appends to the events file, and the clock ticks.                    *)
Writing(s) == req.sim = s /\ req.at \in {"store", "answer"}

Write(s) ==
  /\ s \in live \cap Running /\ Len(file[s]) < MaxEvents
  /\ file' = [file EXCEPT ![s] = Append(@, clock)]
  /\ req' = [req EXCEPT !.late = @ \/ Writing(s)]
  /\ UNCHANGED <<live, clock, cache, used, browser>>

Tick ==
  /\ clock < MaxClock /\ clock' = clock + 1
  /\ UNCHANGED <<file, live, cache, used, browser, req>>
-----------------------------------------------------------------------------
(* An OrderedDict has one entry of a simulation at most.                   *)
Drop(q, s) ==
  IF \E i \in DOMAIN q : q[i].sim = s THEN RemoveAt(q, CHOOSE i \in DOMAIN q : q[i].sim = s) ELSE q
DropId(q, s) ==
  IF \E i \in DOMAIN q : q[i] = s THEN RemoveAt(q, CHOOSE i \in DOMAIN q : q[i] = s) ELSE q

Entry(v, s) == { e \in ToSet(cache[v]) : e.sim = s }

(* An entry serves while the file is not newer than the entry's stamp.     *)
FreshEntry(v, s) == { e \in Entry(v, s) : e.stamp >= Mtime(s) }

MovedToEnd(q, e) == Append(Drop(q, e.sim), e)
Touch(q, e)      == MovedToEnd(q, e)

(* EventIndexCache.get drops a stale entry, DmBreakdownCache.get leaves it *)
(* to be overwritten.                                                      *)
Ask(v, s) ==
  /\ req.at = "idle" /\ s \in live
  /\ \/ \E e \in FreshEntry(v, s) :
          /\ cache' = [cache EXCEPT ![v] = Touch(@, e)]
          /\ used' = [used EXCEPT ![v] = Append(DropId(@, s), s)]
          /\ req' = [at |-> "answer", sim |-> s, view |-> v, asked |-> Len(file[s]),
                     size |-> e.size, stamp |-> e.stamp, late |-> FALSE]
     \/ /\ FreshEntry(v, s) = {}
        /\ cache' = IF v = "index" THEN [cache EXCEPT ![v] = Drop(@, s)] ELSE cache
        /\ used' = IF v = "index" THEN [used EXCEPT ![v] = DropId(@, s)] ELSE used
        /\ req' = [at |-> "load", sim |-> s, view |-> v, asked |-> Len(file[s]),
                   size |-> 0, stamp |-> Mtime(s), late |-> FALSE]
  /\ UNCHANGED <<fileVars, browser>>

(* The index maps the file, or the analysis reads it.                      *)
Load ==
  /\ req.at = "load"
  /\ req' = [req EXCEPT !.at = "store", !.size = Len(file[req.sim])]
  /\ UNCHANGED <<fileVars, cache, used, browser>>

(* The stamp is the mtime that was read before the file was.               *)
StampAfterLoad(r) == Mtime(r.sim)
Stamp(r)          == r.stamp

Kept(q, n)        == SubSeq(q, IF Len(q) > n THEN Len(q) - n + 1 ELSE 1, Len(q))

Store ==
  LET v == req.view
      e == [sim |-> req.sim, stamp |-> Stamp(req), size |-> req.size]
  IN  /\ req.at = "store"
      /\ cache' = [cache EXCEPT ![v] = Kept(MovedToEnd(@, e), Size[v])]
      /\ used' = [used EXCEPT ![v] = Append(DropId(@, req.sim), req.sim)]
      /\ req' = [req EXCEPT !.at = "answer", !.stamp = e.stamp]
      /\ UNCHANGED <<fileVars, browser>>

(* _cached_json_response: 304 when the browser's ETag is that of the file  *)
(* now; otherwise the body goes out under that ETag.                       *)
MatchesBody(b, r) == b.sim = r.sim /\ b.view = r.view
Matches(b, r)     == b.sim = r.sim /\ b.view = r.view /\ b.etag = Etag(r.sim)

Respond ==
  /\ req.at = "answer"
  /\ browser' = IF Matches(browser, req) THEN browser
                ELSE [sim |-> req.sim, view |-> req.view, etag |-> Etag(req.sim),
                      size |-> req.size, stamp |-> req.stamp, late |-> req.late]
  /\ req' = [Rest EXCEPT !.sim = req.sim, !.asked = req.asked]
  /\ UNCHANGED <<fileVars, cache, used>>

(* delete_sim does not yield before its evict; only the index is evicted.  *)
NotEvicted(q, s) == q
Evicted(q, s)    == Drop(q, s)

Delete(s) ==
  /\ req.at = "idle" /\ s \in live
  /\ live' = live \ {s} /\ req' = Rest
  /\ cache' = [cache EXCEPT !["index"] = Evicted(@, s)]
  /\ used' = [used EXCEPT !["index"] = DropId(@, s)]
  /\ UNCHANGED <<file, clock, browser>>

(* The caches are memory of the server; the files and browsers are not.    *)
CacheLost ==
  /\ cache' = [v \in Views |-> <<>>] /\ used' = cache' /\ req' = Rest
  /\ UNCHANGED <<fileVars, browser>>

CacheNext ==
  \/ \E s \in Stored : Write(s) \/ Delete(s) \/ \E v \in Views : Ask(v, s)
  \/ Tick \/ Load \/ Store \/ Respond \/ CacheLost

CacheSpec == CacheInit /\ [][CacheNext]_cacheVars
-----------------------------------------------------------------------------
(* Every variable has its type. *)
CacheTypeOK ==
  /\ file \in [Stored -> Seq(1 .. MaxClock)] /\ live \subseteq Stored
  /\ clock \in 0 .. MaxClock
  /\ \A v \in Views :
       /\ cache[v] \in Seq([sim : Stored, stamp : Nat, size : Nat]) /\ Len(cache[v]) <= Size[v]
       /\ used[v] \in Seq(Stored)
  /\ browser.sim \in Stored \cup {None} /\ browser.size \in Nat /\ browser.etag \in Seq(Nat)
  /\ req.at \in {"idle", "load", "store", "answer"} /\ req.view \in Views

(* After an answer, 200 or 304, what the browser shows misses no event     *)
(* that the file had when the request came, except those written in the    *)
(* very tick that the cached entry is stamped with, and bodies that lus    *)
(* overtook between the load and the ETag.                                 *)
AnswerIsFresh ==
  req.at = "idle" /\ req.sim # None =>
    \A k \in browser.size + 1 .. req.asked : file[req.sim][k] = browser.stamp \/ browser.late

(* A cache never holds a simulation while one used later is missing.       *)
KeepsMostRecent ==
  req.at = "idle" => \A v \in Views : IsSuffix([i \in DOMAIN cache[v] |-> cache[v][i].sim], used[v])

(* No index of a deleted simulation keeps its file mapped, and no entry is *)
(* in a cache twice.                                                       *)
DeletedIsUnmapped ==
  /\ \A e \in ToSet(cache["index"]) : e.sim \in live
  /\ \A v \in Views : \A i, j \in DOMAIN cache[v] : cache[v][i].sim = cache[v][j].sim => i = j

(* The caches hold the most recent live simulations, once each.            *)
CacheIsRecent == CacheTypeOK /\ KeepsMostRecent /\ DeletedIsUnmapped
=============================================================================
