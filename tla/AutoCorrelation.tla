-------------------------- MODULE AutoCorrelation --------------------------
(***************************************************************************)
(* The debounce of services/auto_correlation.py for one tenant: every      *)
(* ingest (re)arms a timer, the previous one is cancelled even when its    *)
(* pass has begun, and _pending remembers the task to cancel next.         *)
(*                                                                         *)
(* asyncio runs one task at a time, so schedule_correlation is one step;   *)
(* a cancelled task learns of it only when it is resumed, and a COMMIT it  *)
(* has already sent may still take effect.                                 *)
(***************************************************************************)
EXTENDS Integers

CONSTANTS
  Tasks,       \* _correlate_after tasks that may exist at once
  None,        \* _pending has no entry for the tenant
  MaxIngests   \* bound on the number of ingest transactions

ASSUME TasksAssumption == None \notin Tasks /\ MaxIngests \in Nat

VARIABLES
  ingested,    \* ingest transactions committed
  toArm,       \* of those, how many have not called schedule_correlation yet
  task,        \* per task: where it is, what it has read, is it cancelled
  pending,     \* _pending[tenant]
  correlated,  \* how many ingests the evidence objects reflect
  dropped      \* the last pass failed, or a restart dropped its timer

vars == <<ingested, toArm, task, pending, correlated, dropped>>

Finished == [pc |-> "done", seen |-> 0, cancelled |-> FALSE]

Init ==
  /\ ingested = 0 /\ toArm = 0 /\ correlated = 0
  /\ task = [t \in Tasks |-> Finished]
  /\ pending = None
  /\ dropped = FALSE

Running(t) == task[t].pc # "done"
InPass(t) == task[t].pc \in {"opening", "writing", "committing"}
-----------------------------------------------------------------------------
(* An ingest transaction commits; its handler goes on to arm the timer.    *)
Ingest ==
  /\ ingested < MaxIngests
  /\ ingested' = ingested + 1
  /\ toArm' = toArm + 1
  /\ UNCHANGED <<task, pending, correlated, dropped>>

(* Mutant: a task that is already past its sleep is left to finish.        *)
ArmUnlessRunning ==
  /\ toArm > 0
  /\ toArm' = toArm - 1
  /\ IF pending # None /\ Running(pending)
     THEN UNCHANGED <<task, pending, dropped>>
     ELSE \E t \in Tasks :
            /\ ~Running(t)
            /\ task' = [task EXCEPT ![t] = [Finished EXCEPT !.pc = "sleeping"]]
            /\ pending' = t
            /\ dropped' = FALSE
  /\ UNCHANGED <<ingested, correlated>>

(* schedule_correlation                                                    *)
Arm ==
  /\ toArm > 0
  /\ toArm' = toArm - 1
  /\ \E t \in Tasks :
       /\ ~Running(t)
       /\ task' = [u \in Tasks |->
            CASE u = t                    -> [Finished EXCEPT !.pc = "sleeping"]
              [] u = pending /\ Running(u) -> [task[u] EXCEPT !.cancelled = TRUE]
              [] OTHER                    -> task[u]]
       /\ pending' = t
  /\ dropped' = FALSE
  /\ UNCHANGED <<ingested, correlated>>

(* The debounce interval is over and the pass opens its transaction.  The  *)
(* interval (seconds) outlasts the unwinding of the task it replaced (one  *)
(* turn of the event loop and a rollback).                                 *)
Wake(t) ==
  /\ task[t].pc = "sleeping"
  /\ \A u \in Tasks : ~task[u].cancelled
  /\ task' = [task EXCEPT ![t].pc = "opening"]
  /\ UNCHANGED <<ingested, toArm, pending, correlated, dropped>>

(* correlate_tenant reads the events,                                      *)
ReadEvents(t) ==
  /\ task[t].pc = "opening" /\ ~task[t].cancelled
  /\ task' = [task EXCEPT ![t].pc = "writing", ![t].seen = ingested]
  /\ UNCHANGED <<ingested, toArm, pending, correlated, dropped>>

(* rewrites the objects, embeds them and sends COMMIT.                     *)
SendCommit(t) ==
  /\ task[t].pc = "writing" /\ ~task[t].cancelled
  /\ task' = [task EXCEPT ![t].pc = "committing"]
  /\ UNCHANGED <<ingested, toArm, pending, correlated, dropped>>

(* Mutant: finally pops whatever task the tenant has.                      *)
PoppedAny(t) == None

(* finally: pop the entry if it is still this task's.                      *)
Popped(t) == IF pending = t THEN None ELSE pending

Committed(t) ==
  /\ task[t].pc = "committing"
  /\ correlated' = task[t].seen
  /\ task' = [task EXCEPT ![t] = Finished]
  /\ pending' = Popped(t)
  /\ UNCHANGED <<ingested, toArm, dropped>>

(* An exception in the pass is logged; nobody runs it again.               *)
Fails(t) ==
  /\ InPass(t) /\ ~task[t].cancelled
  /\ task' = [task EXCEPT ![t] = Finished]
  /\ pending' = Popped(t)
  /\ dropped' = TRUE
  /\ UNCHANGED <<ingested, toArm, correlated>>

(* CancelledError unwinds the task: out of the sleep, which is before the  *)
(* try, or out of the pass, whose transaction is rolled back.              *)
Unwinds(t) ==
  /\ task[t].cancelled
  /\ task' = [task EXCEPT ![t] = Finished]
  /\ pending' = IF InPass(t) THEN Popped(t) ELSE pending
  /\ UNCHANGED <<ingested, toArm, correlated, dropped>>

(* cancel_pending: drop the entry and cancel its task.                     *)
CancelPending ==
  /\ pending # None
  /\ task' = IF Running(pending) THEN [task EXCEPT ![pending].cancelled = TRUE] ELSE task
  /\ pending' = None
  /\ dropped' = TRUE
  /\ UNCHANGED <<ingested, toArm, correlated>>

(* The process restarts: timers and handlers are gone.                     *)
Restart ==
  /\ toArm > 0 \/ pending # None \/ \E t \in Tasks : Running(t)
  /\ task' = [t \in Tasks |-> Finished]
  /\ pending' = None /\ toArm' = 0
  /\ dropped' = TRUE
  /\ UNCHANGED <<ingested, correlated>>
-----------------------------------------------------------------------------
TaskStep(t) ==
  \/ Wake(t) \/ ReadEvents(t) \/ SendCommit(t) \/ Committed(t) \/ Fails(t) \/ Unwinds(t)

Next == Ingest \/ Arm \/ (\E t \in Tasks : TaskStep(t)) \/ CancelPending \/ Restart

Spec == Init /\ [][Next]_vars

(* Timers fire, the event loop resumes every task, and handlers finish.    *)
Fairness ==
  /\ WF_vars(Arm)
  /\ \A t \in Tasks : WF_vars(Wake(t) \/ ReadEvents(t) \/ SendCommit(t)
                                \/ Committed(t) \/ Unwinds(t))

FairSpec == Spec /\ Fairness
-----------------------------------------------------------------------------
(* Every variable keeps its type, and no one is ahead of the ingests.      *)
TypeOK ==
  /\ ingested \in 0..MaxIngests /\ toArm \in 0..ingested /\ correlated \in 0..ingested
  /\ task \in [Tasks -> [pc : {"sleeping", "opening", "writing", "committing", "done"},
                         seen : 0..MaxIngests, cancelled : BOOLEAN]]
  /\ pending \in Tasks \union {None}
  /\ dropped \in BOOLEAN

(* "one correlation pass fires": a task nobody has cancelled is the one    *)
(* _pending names, so two passes of a tenant never both run to the end.    *)
OneLiveTimer == \A t \in Tasks : Running(t) /\ ~task[t].cancelled => pending = t

(* "the alert queue stays live": once the tenant goes quiet the objects    *)
(* reflect every ingest, unless the last pass failed or was dropped.       *)
QueueStaysLive == (correlated # ingested) ~> (correlated = ingested \/ dropped)
=============================================================================
