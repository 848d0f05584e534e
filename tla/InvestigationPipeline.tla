----------------------- MODULE InvestigationPipeline -----------------------
(***************************************************************************)
(* run_investigation (services/investigation.py): reasoning runs over an   *)
(* evidence object, while correlation replaces the objects under them.     *)
(*                                                                         *)
(* A run opens a transaction per stage and none across the provider call.  *)
(* Its stages are always a prefix of scope, collect, conclude, ground, so  *)
(* a list of stages is its length.  An investigations row refers to its    *)
(* object ON DELETE CASCADE.                                               *)
(***************************************************************************)
EXTENDS EvidenceLifecycle

CONSTANT Runs    \* POST /evidence/{id}/investigate requests

VARIABLES
  run,    \* per run: where it is, its evidence_id, the stages the client saw
  trail   \* per run, its investigations row: status and persisted stages

invVars == <<run, trail>>

NotStarted == [pc |-> "new", id |-> CHOOSE id \in Ids : TRUE, shown |-> 0]

NoRow == [status |-> "none", stages |-> 0]

InvInit ==
  /\ run = [i \in Runs |-> NotStarted]
  /\ trail = [i \in Runs |-> NoRow]

(* What a run has come to: an event that says so was sent ("ended"); an    *)
(* exception left the generator because the row is gone ("raised"); or     *)
(* nobody was there to bring the row up to date ("abandoned").             *)
Over == {"ended", "raised", "abandoned"}

Active(i) == run[i].pc \notin {"new"} \union Over
HasRow(i) == trail[i].status # "none"
RowLocked(i) == \E k \in Correlators : LockedBy(k, run[i].id)

(* A run moves on; the client has been shown n stages.                     *)
MovesTo(i, pc, n) == run' = [run EXCEPT ![i] = [@ EXCEPT !.pc = pc, !.shown = n]]
-----------------------------------------------------------------------------
(* scope: the object is read, 404 when it is gone,                         *)
ScopeReads(i, id) ==
  /\ run[i].pc = "new"
  /\ Alive(id)
  /\ run' = [run EXCEPT ![i] = [@ EXCEPT !.pc = "scoping", !.id = id]]
  /\ UNCHANGED <<vars, trail>>

(* Mutant: the INSERT does not look at the row it refers to.               *)
ScopeInsertsUnchecked(i) ==
  /\ run[i].pc = "scoping"
  /\ MovesTo(i, "scoped", 1)
  /\ trail' = [trail EXCEPT ![i] = [status |-> "running", stages |-> 0]]
  /\ UNCHANGED vars

(* and the row inserted: the foreign key waits for an uncommitted DELETE   *)
(* of the object and refuses the row when the object is gone.              *)
ScopeInserts(i) ==
  /\ run[i].pc = "scoping"
  /\ ~RowLocked(i)
  /\ IF Alive(run[i].id)
     THEN /\ MovesTo(i, "scoped", 1)
          /\ trail' = [trail EXCEPT ![i] = [status |-> "running", stages |-> 0]]
     ELSE MovesTo(i, "raised", 0) /\ UNCHANGED trail
  /\ UNCHANGED vars

(* collect: an object deleted since is an AttributeError.                  *)
Collect(i) ==
  /\ run[i].pc = "scoped"
  /\ IF Alive(run[i].id) THEN MovesTo(i, "collected", 2) ELSE MovesTo(i, "failing", 1)
  /\ UNCHANGED <<vars, trail>>

(* _persist: the stages so far are written; without its row it raises.     *)
Persist(i, from, to) ==
  /\ run[i].pc = from
  /\ ~RowLocked(i)
  /\ IF HasRow(i)
     THEN /\ MovesTo(i, to, run[i].shown)
          /\ trail' = [trail EXCEPT ![i].stages = run[i].shown]
     ELSE MovesTo(i, "failing", run[i].shown) /\ UNCHANGED trail
  /\ UNCHANGED vars

PersistCollect(i) == Persist(i, "collected", "thinking")

(* conclude: the provider answers, with no session held.                   *)
Conclude(i) ==
  /\ run[i].pc = "thinking"
  /\ MovesTo(i, "concluded", 3)
  /\ UNCHANGED <<vars, trail>>

(* The provider raises, or the database does while a stage uses it.        *)
StageFails(i) ==
  /\ run[i].pc \in {"scoped", "collected", "thinking", "concluded", "grounding", "grounded"}
  /\ MovesTo(i, "failing", run[i].shown)
  /\ UNCHANGED <<vars, trail>>

PersistConclude(i) == Persist(i, "concluded", "grounding")

Ground(i) ==
  /\ run[i].pc = "grounding"
  /\ MovesTo(i, "grounded", 4)
  /\ UNCHANGED <<vars, trail>>

(* finalize: verdict, narrative and the whole trail in one transaction.    *)
Finalize(i) ==
  /\ run[i].pc = "grounded"
  /\ ~RowLocked(i)
  /\ IF HasRow(i)
     THEN /\ MovesTo(i, "ended", 4)
          /\ trail' = [trail EXCEPT ![i] = [status |-> "complete", stages |-> 4]]
     ELSE MovesTo(i, "failing", 4) /\ UNCHANGED trail
  /\ UNCHANGED vars

(* Mutant: the client is told, and the row is left as it was.              *)
FailUnmarked(i) ==
  /\ run[i].pc = "failing"
  /\ ~RowLocked(i)
  /\ MovesTo(i, IF HasRow(i) THEN "ended" ELSE "raised", run[i].shown)
  /\ UNCHANGED <<vars, trail>>

(* The except clauses: the row is marked failed and the client told; a row *)
(* that is gone is an AttributeError, which nobody catches.                *)
Fail(i) ==
  /\ run[i].pc = "failing"
  /\ ~RowLocked(i)
  /\ IF HasRow(i)
     THEN /\ MovesTo(i, "ended", run[i].shown)
          /\ trail' = [trail EXCEPT ![i] = [status |-> "failed", stages |-> run[i].shown]]
     ELSE MovesTo(i, "raised", run[i].shown) /\ UNCHANGED trail
  /\ UNCHANGED vars

(* The database fails a transaction outside the try: the INSERT of scope,  *)
(* whose row is not there then, or the one that was to mark the row.       *)
HandlerFails(i) ==
  /\ run[i].pc \in {"scoping", "failing"}
  /\ MovesTo(i, "abandoned", run[i].shown)
  /\ UNCHANGED <<vars, trail>>

(* The client disconnects, the task is cancelled or the process dies:      *)
(* neither is an Exception, and nothing marks the row.                     *)
Abandon(i) ==
  /\ Active(i)
  /\ MovesTo(i, "abandoned", run[i].shown)
  /\ UNCHANGED <<vars, trail>>
-----------------------------------------------------------------------------
(* ON DELETE CASCADE: a run's row goes with its object.                    *)
Cascade ==
  trail' = [i \in Runs |-> IF HasRow(i) /\ objs'[run[i].id].status = "none"
                           THEN NoRow ELSE trail[i]]

HeldByRuns == {run[i].id : i \in {j \in Runs : Active(j)}}

RunStep(i) ==
  \/ \E id \in Ids : ScopeReads(i, id)
  \/ ScopeInserts(i) \/ Collect(i) \/ PersistCollect(i)
  \/ Conclude(i) \/ StageFails(i) \/ PersistConclude(i)
  \/ Ground(i) \/ Finalize(i) \/ Fail(i) \/ HandlerFails(i) \/ Abandon(i)

(* Steps a run takes by itself, given time; see DepFairness.               *)
RunProceeds(i) ==
  \/ ScopeInserts(i) \/ Collect(i) \/ PersistCollect(i) \/ Conclude(i)
  \/ PersistConclude(i) \/ Ground(i) \/ Finalize(i) \/ Fail(i)
-----------------------------------------------------------------------------
InvTypeOK ==
  /\ run \in [Runs ->
       [pc : {"new", "scoping", "scoped", "collected", "thinking", "concluded",
              "grounding", "grounded", "failing"} \union Over, id : Ids, shown : 0..4]]
  /\ trail \in [Runs -> [status : {"none", "running", "failed", "complete"}, stages : 0..4]]

(* An investigations row never outlives the evidence it reasons about,     *)
(* whichever of run, triage and correlation comes first.                   *)
TrailHasEvidence == \A i \in Runs : HasRow(i) => Alive(run[i].id)

Settled(i) ==
  \/ trail[i].status \in {"none", "failed"}
  \/ trail[i].status = "complete" /\ trail[i].stages = run[i].shown

(* A run never hangs, even when its object, its row, its provider or the   *)
(* database fails under it.  One that tells its client how it ended has    *)
(* settled its row: it has failed, it is complete with every stage that    *)
(* was shown, or it went with its evidence since.  One that breaks off     *)
(* without a word has no row left, unless it was abandoned or the database *)
(* failed it again when it was to mark the row, which stays "running".     *)
RunsSettle ==
  \A i \in Runs :
    Active(i) ~> \/ run[i].pc = "ended" /\ Settled(i)
                 \/ run[i].pc = "raised" /\ ~HasRow(i)
                 \/ run[i].pc = "abandoned"
=============================================================================
