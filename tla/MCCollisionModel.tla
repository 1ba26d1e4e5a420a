-------------------------- MODULE MCCollisionModel --------------------------
(***************************************************************************)
(* Exhaustive check of EvaluateCollision over bounded pairs of signals.    *)
(* Two receptions move against each other one tick, one dB or one coding   *)
(* rate at a time; every reachable pair is one state.                      *)
(***************************************************************************)
EXTENDS CollisionModel

CONSTANTS
  MaxStart,   \* latest start of a signal, ticks
  Airtimes,   \* airtimes of a signal, ticks
  Snrs,       \* SNRs of a signal, dB
  Crs, Sfs, Preambles

(* A preamble ends before its frame does; coding rates are 4/5 to 4/8.     *)
ASSUME SignalAssumption ==
  /\ MaxStart \in Nat /\ Airtimes \subseteq Nat /\ Snrs \subseteq Int
  /\ Crs \subseteq 5 .. 8 /\ Preambles \subseteq Nat
  /\ \A air \in Airtimes, pre \in Preambles : pre < air

VARIABLES a, b
signalVars == <<a, b>>

Symbol == 1
Signals == [start : 0 .. MaxStart, air : Airtimes, snr : Snrs,
            cr : Crs, sf : Sfs, pre : Preambles]

(* toCaptured: the radio's symbol and preamble times are stamped on the    *)
(* signal; a preamble lasts pre + 4.25 symbols, here rounded to pre + 4.   *)
ToCaptured(s) ==
  [snr |-> s.snr, start |-> s.start, end |-> s.start + s.air, sf |-> s.sf,
   cr |-> s.cr, pre |-> s.pre, sym |-> Symbol, tpre |-> (s.pre + 4) * Symbol]

SignalInit == a \in Signals /\ b \in Signals /\ (a.start = 0 \/ b.start = 0)

(* Let the second transmission last one tick longer. *)
Lengthen ==
  /\ b.air + 1 \in Airtimes
  /\ b' = [b EXCEPT !.air = @ + 1]
  /\ UNCHANGED a

(* Let it arrive one dB stronger. *)
Strengthen ==
  /\ b.snr + 1 \in Snrs
  /\ b' = [b EXCEPT !.snr = @ + 1]
  /\ UNCHANGED a

SignalNext == Lengthen \/ Strengthen

SignalSpec == SignalInit /\ [][SignalNext]_signalVars

(***************************************************************************)
(* Reference definition, tick by tick.  Hit is the set of primary ticks    *)
(* during which the interferer is on the air as well.                      *)
(***************************************************************************)
Hit(p, i) == { t \in p.start .. p.end - 1 : i.start <= t /\ t < i.end }

ReferenceSurvives(p, i) ==
  LET hit     == Hit(p, i)
      lockAt  == p.start + PreambleLockSymbols * p.sym
      margin  == IF i.start < lockAt THEN CaptureUnlockedDb ELSE CaptureLockedDb
      head    == { t \in hit : t < p.start + (p.pre - PreambleLockSymbols) * p.sym }
      payload == { t \in hit : t >= p.start + p.tpre }
  IN  \/ p.sf # i.sf
      \/ hit = {}
      \/ p.snr - i.snr >= margin
      \/ hit = head
      \/ p.cr >= 7 /\ hit = payload /\ Cardinality(hit) <= p.sym

(* The interval arithmetic of evaluateCollision decides exactly as the     *)
(* tick-by-tick reference does, in both directions of the pair.            *)
AgreesWithReference ==
  LET p == ToCaptured(a)
      i == ToCaptured(b)
  IN  /\ Survives(p, i) <=> ReferenceSurvives(p, i)
      /\ Survives(i, p) <=> ReferenceSurvives(i, p)

(* Two overlapping signals are never both kept because of the capture      *)
(* effect: registerTransmissionsForStep calls evaluateCollision once per   *)
(* direction and relies on at most one signal dominating the other.        *)
AtMostOneCaptures ==
  ~ /\ EvaluateCollision(ToCaptured(a), ToCaptured(b)) = Captured
    /\ EvaluateCollision(ToCaptured(b), ToCaptured(a)) = Captured

(* A longer or stronger interferer never brings a destroyed reception      *)
(* back: what evaluateCollision rejects stays rejected when b grows.       *)
InterferenceOnlyHurts ==
  [][ ~Survives(ToCaptured(a), ToCaptured(b))
        => ~Survives(ToCaptured(a)', ToCaptured(b)') ]_signalVars
=============================================================================
