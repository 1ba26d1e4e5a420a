--------------------------- MODULE CollisionModel ---------------------------
(***************************************************************************)
(* core/physics/CollisionModel: does a reception (the primary) survive one *)
(* interfering transmission at one receiver?  A signal is a record         *)
(*                                                                         *)
(*   snr    SNR at the receiver, dB                                        *)
(*   start, end   airtime window, ticks                                    *)
(*   sf     spreading factor                                               *)
(*   cr     coding-rate denominator, 5..8                                  *)
(*   pre    preamble symbols                                               *)
(*   sym    symbol period, ticks                                           *)
(*   tpre   whole preamble, ticks                                          *)
(*                                                                         *)
(* Time is an integer number of ticks.  A tick is small enough for symbol  *)
(* and preamble durations to be whole, so the code's lround is exact.      *)
(***************************************************************************)
EXTENDS Integers, FiniteSets

CONSTANTS
  CaptureLockedDb,      \* simulation.radio.capture_locked_db
  CaptureUnlockedDb,    \* simulation.radio.capture_unlocked_db
  PreambleLockSymbols   \* CollisionConfig::preamble_lock_symbols

ASSUME CollisionAssumption ==
  /\ CaptureLockedDb \in Nat \ {0}
  /\ CaptureUnlockedDb \in Nat \ {0}
  /\ PreambleLockSymbols \in Nat

(* Symbols a Hamming-coded payload can lose and still be decoded. *)
FecSymbolsForCr(cr) == IF cr \in {7, 8} THEN 1 ELSE 0

Overlaps(a, b) == a.start < b.end /\ b.start < a.end

Latest(x, y) == IF x > y THEN x ELSE y
Earliest(x, y) == IF x < y THEN x ELSE y

(* Stage 1: a primary whose preamble is locked needs less dominance. *)
CaptureThreshold(p, i) ==
  IF i.start >= p.start + PreambleLockSymbols * p.sym
  THEN CaptureLockedDb ELSE CaptureUnlockedDb

Captures(p, i) == p.snr >= i.snr + CaptureThreshold(p, i)

GraceOffByOne(p, i) ==
  LET grace == (p.pre - PreambleLockSymbols) * p.sym
  IN  grace > 0 /\ i.end <= p.start + grace + 1

(* Stage 2: the interferer is gone before the lock window opens. *)
PreambleGrace(p, i) ==
  LET grace == (p.pre - PreambleLockSymbols) * p.sym
  IN  grace > 0 /\ i.end <= p.start + grace

(* Stage 3: a short overlap that lies in the payload. *)
FecTolerates(p, i) ==
  LET overlapStart == Latest(p.start, i.start)
      overlapEnd   == Earliest(p.end, i.end)
  IN  /\ FecSymbolsForCr(p.cr) > 0
      /\ overlapEnd - overlapStart <= FecSymbolsForCr(p.cr) * p.sym
      /\ overlapStart >= p.start + p.tpre

(* The reason codes of CollisionDecision. *)
Clean == 0
Captured == 1
Graced == 2
FecSaved == 3
Destroyed == 4

EvaluateCollision(p, i) ==
  IF p.sf # i.sf \/ ~Overlaps(p, i) THEN Clean
  ELSE IF Captures(p, i)            THEN Captured
  ELSE IF PreambleGrace(p, i)       THEN Graced
  ELSE IF FecTolerates(p, i)        THEN FecSaved
  ELSE Destroyed

Survives(p, i) == EvaluateCollision(p, i) # Destroyed
=============================================================================
