----------------------------- MODULE MCEvidence -----------------------------
(* Two scenarios, chosen in the initial state.  Triage: on one host a gap  *)
(* of the window, twice, and on another host an event in the same minute   *)
(* as the last.  Dependents: one event on each host, two evidence objects, *)
(* a run and a case that refer to them, and no analyst.                    *)
EXTENDS EvidenceDependents

CONSTANTS e1, e2, e3, e4

VARIABLE scenario

MCHostOf == [e \in Events |-> IF e = e4 THEN 2 ELSE 1]
MCTimeOf == [e \in Events |-> CASE e = e1 -> 1 [] e = e2 -> 3 [] OTHER -> 5]

MCInit == DepInit /\ scenario \in {"triage", "dependents"}

(* The two objects do with four ids.  (A pass that DepFairness urges to    *)
(* commit under another id may always roll back instead.)                  *)
Correlation ==
  \/ \E e \in {e3, e4} : Ingest(e)
  \/ \E k \in Correlators : CorrelateStep(k, InUse \union {5, 6})

MCNext ==
  /\ \/ scenario = "triage" /\ EvidenceChanges(EvidenceStep(InUse))
     \/ scenario = "dependents" /\ EvidenceChanges(Correlation)
     \/ scenario = "dependents" /\ (\E i \in Runs : RunStep(i)) /\ UNCHANGED caseVars
     \/ scenario = "dependents" /\ CaseStep /\ UNCHANGED invVars
  /\ UNCHANGED scenario

MCSpec == MCInit /\ [][MCNext]_<<depVars, scenario>> /\ DepFairness
=============================================================================
