------------------------------ MODULE AutoHunt ------------------------------
(***************************************************************************)
(* The autonomous hunter of services/auto_hunt.py: start, stop, the        *)
(* interruptible sleeps and sweep_once, which hunts every active tenant in *)
(* the order the database lists them.  A tenant's hunt, hunt_indicators    *)
(* and persist_hits, is CtiHunt; here it comes back or raises.             *)
(***************************************************************************)
EXTENDS Integers, SequencesExt

CONSTANT
  Tenants  \* the tenants, in table order

VARIABLES
  active,  \* tenants with is_active
  stop,    \* the _stop event
  pc,      \* where the loop task is; "none" when there is no task
  left     \* sweep_once: tenants still to hunt

vars == <<active, stop, pc, left>>

Init ==
  /\ active = ToSet(Tenants)
  /\ stop = FALSE /\ pc = "none" /\ left = <<>>

Rows == SelectSeq(Tenants, LAMBDA t : t \in active)
-----------------------------------------------------------------------------
(* start(), when auto_hunt_enabled: the loop begins with a sleep.          *)
Start ==
  /\ pc = "none"
  /\ stop' = FALSE /\ pc' = "sleeping"
  /\ UNCHANGED <<active, left>>

(* stop() sets the event and awaits the task.                              *)
Stop ==
  /\ pc # "none" /\ ~stop
  /\ stop' = TRUE
  /\ UNCHANGED <<active, pc, left>>

(* Mutant: the loop does not look at the event after its sleep.            *)
WakesRegardless ==
  /\ pc = "sleeping"
  /\ pc' = "listing"
  /\ UNCHANGED <<active, stop, left>>

(* The sleep is over, by timeout or because the event is set.              *)
Wakes ==
  /\ pc = "sleeping"
  /\ pc' = IF stop THEN "none" ELSE "listing"
  /\ UNCHANGED <<active, stop, left>>

(* _active_tenant_ids: a snapshot.                                         *)
List ==
  /\ pc = "listing"
  /\ left' = Rows
  /\ pc' = "sweeping"
  /\ UNCHANGED <<active, stop>>

(* The listing raises: _loop logs it and sleeps.                           *)
ListFails ==
  /\ pc = "listing"
  /\ pc' = "sleeping"
  /\ UNCHANGED <<active, stop, left>>

(* The next tenant's turn, unless the event is set.                        *)
Hunts ==
  /\ pc = "sweeping" /\ left # <<>> /\ ~stop
  /\ pc' = "hunting"
  /\ UNCHANGED <<active, stop, left>>

(* After a hunt the sweep staggers, except after the last.                 *)
After == IF Len(left) > 1 THEN "staggering" ELSE "sweeping"

(* Mutant: a hunt that raises ends the sweep.                              *)
HuntOverAborting(t) ==
  /\ pc = "hunting" /\ t = Head(left)
  /\ left' = Tail(left)
  /\ pc' \in {After, "sleeping"}
  /\ UNCHANGED <<active, stop>>

(* The hunt of t comes back or raises, which is logged: the sweep goes on. *)
HuntOver(t) ==
  /\ pc = "hunting" /\ t = Head(left)
  /\ left' = Tail(left)
  /\ pc' = After
  /\ UNCHANGED <<active, stop>>

(* The stagger is over, by timeout or because the event is set.            *)
Staggered ==
  /\ pc = "staggering"
  /\ pc' = "sweeping"
  /\ UNCHANGED <<active, stop, left>>

(* The sweep is over or cut short: the loop sleeps its interval.           *)
SweepOver ==
  /\ pc = "sweeping" /\ (left = <<>> \/ stop)
  /\ pc' = "sleeping" /\ left' = <<>>
  /\ UNCHANGED <<active, stop>>
-----------------------------------------------------------------------------
LoopStep ==
  \/ Wakes \/ List \/ Hunts \/ (\E t \in ToSet(Tenants) : HuntOver(t))
  \/ Staggered \/ SweepOver

(* The event loop resumes the task, every wait has a timeout, a hunt ends  *)
(* (CtiHunt!NobodyHangs), and the listing does not fail every time.        *)
Fairness == WF_vars(LoopStep) /\ SF_vars(List)
-----------------------------------------------------------------------------
(* Every variable keeps its type; what is left is left of a sweep.         *)
TypeOK ==
  /\ active \subseteq ToSet(Tenants)
  /\ stop \in BOOLEAN
  /\ pc \in {"none", "sleeping", "listing", "sweeping", "hunting", "staggering"}
  /\ left \in Seq(ToSet(Tenants))
  /\ pc \in {"none", "sleeping", "listing"} => left = <<>>
  /\ pc = "hunting" => left # <<>>

(* "one bad tenant must never abort the sweep": a tenant that stays active *)
(* is hunted again and again while the loop runs, whichever hunts raise.   *)
EveryTenantHunted ==
  \A t \in ToSet(Tenants) :
    <>[](pc # "none" /\ ~stop /\ t \in active) => []<><<HuntOver(t)>>_vars
=============================================================================
