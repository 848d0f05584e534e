------------------------- MODULE EvidenceDependents -------------------------
(***************************************************************************)
(* Investigations and cases side by side over the evidence that triage and *)
(* correlation change under them.  Their tables reference evidence_objects *)
(* ON DELETE CASCADE, so every statement that deletes an object also       *)
(* deletes what hangs on it.                                               *)
(***************************************************************************)
EXTENDS InvestigationPipeline, CaseWorkflow

depVars == <<vars, invVars, caseVars>>

DepInit == Init /\ InvInit /\ CaseInit

InUse == HeldByRuns \union HeldByRequests

EvidenceChanges(step) == step /\ Cascade /\ Unlink /\ UNCHANGED <<run, status, req>>

DepNext ==
  \/ EvidenceChanges(EvidenceStep(InUse))
  \/ (\E i \in Runs : RunStep(i)) /\ UNCHANGED caseVars
  \/ CaseStep /\ UNCHANGED invVars

(* The event loop resumes every run, the provider answers or times out, a  *)
(* transaction waiting for a row lock gets it when it is released again    *)
(* and again, and a correlator's transaction ends one way or the other.    *)
DepFairness ==
  /\ \A i \in Runs : SF_depVars(RunProceeds(i) /\ UNCHANGED caseVars)
  /\ \A k \in Correlators :
       WF_depVars(EvidenceChanges(Rollback(k) \/ DeleteEnds(k) \/ ReadTriaged(k)
                                    \/ Commit(k, InUse)))

DepSpec == DepInit /\ [][DepNext]_depVars /\ DepFairness
-----------------------------------------------------------------------------
(* Every variable of the composition keeps its type.                       *)
DepTypeOK == TypeOK /\ InvTypeOK /\ CaseTypeOK

(* An investigations row and a case link never outlive their evidence:     *)
(* whichever of run, attach, triage and correlation comes first, no row    *)
(* points at an object that is gone.                                       *)
NoDanglingRows == TrailHasEvidence /\ LinksHaveEvidence
=============================================================================
