-------------------------- MODULE CorrelationScore --------------------------
(***************************************************************************)
(* _score (argus/services/correlation.py): the score of a cluster of       *)
(* tagged events is the clamped sum of five capped terms, computed from    *)
(* its techniques, the number of its events and its highest confidence.    *)
(***************************************************************************)
EXTENDS Integers, FiniteSets

CONSTANTS
  TacticsOf,    \* the ATT&CK tactics of each technique
  Critical      \* _CRITICAL_TACTICS
-----------------------------------------------------------------------------
AtMost(n, cap) == IF n <= cap THEN n ELSE cap

(* A technique the catalogue does not know adds none.                      *)
Tactics(techniques) == UNION {TacticsOf[t] : t \in techniques \cap DOMAIN TacticsOf}

(* round(conf * 0.25): Python rounds a half to the even neighbour.         *)
Base(conf) ==
  LET down == conf \div 4
      rest == conf % 4
  IN  IF rest = 3 \/ (rest = 2 /\ down % 2 = 1) THEN down + 1 ELSE down

TacticBreadth(techniques) == AtMost(6 * Cardinality(Tactics(techniques)), 30)

TechniqueCount(techniques) == AtMost(3 * Cardinality(techniques), 18)

CriticalBonus(techniques) == IF Tactics(techniques) \cap Critical # {} THEN 20 ELSE 0

(* Mutant: the volume term wraps instead of being capped.                  *)
VolumeWraps(count) == (count \div 100) % 11

Volume(count) == AtMost(count \div 100, 10)

Terms(techniques, count, conf) ==
  Base(conf) + TacticBreadth(techniques) + TechniqueCount(techniques)
    + CriticalBonus(techniques) + Volume(count)

Score(techniques, count, conf) == AtMost(Terms(techniques, count, conf), 100)
=============================================================================
