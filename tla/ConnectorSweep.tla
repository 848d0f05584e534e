--------------------------- MODULE ConnectorSweep ---------------------------
(***************************************************************************)
(* The polling loop of services/connector_runtime.py: start, stop, the     *)
(* interruptible sleeps and sweep_once, which walks the active tenants and *)
(* each one's enabled connectors in the order the database returns them    *)
(* (there is no ORDER BY: the same rows come back in the same order).      *)
(*                                                                         *)
(* poll_connector itself is ConnectorPolling; here it is one step that     *)
(* comes back, or raises out of its first transaction.                     *)
(***************************************************************************)
EXTENDS Integers, SequencesExt

CONSTANTS
  Tenants,     \* tenants, in table order
  Connectors,  \* connectors, in table order
  TenantOf,    \* the tenant each connector belongs to
  Sealed       \* connectors whose stored credentials may no longer decrypt

VARIABLES
  active,      \* tenants with is_active
  enabled,     \* connectors with enabled
  sealed,      \* connectors whose stored credentials do not decrypt
  stop,        \* the _stop event
  pc,          \* where the loop task is; "none" when there is no task
  tenants,     \* sweep_once: tenants still to visit
  connectors   \* sweep_once: connectors of this tenant still to visit

vars == <<active, enabled, sealed, stop, pc, tenants, connectors>>
loop == <<tenants, connectors>>

Init ==
  /\ active = ToSet(Tenants)
  /\ enabled = ToSet(Connectors) /\ sealed \in SUBSET Sealed
  /\ stop = FALSE /\ pc = "none"
  /\ tenants = <<>> /\ connectors = <<>>

Rows(table, kept) == SelectSeq(table, LAMBDA r : r \in kept)
-----------------------------------------------------------------------------
(* Operators switch tenants and connectors on and off.                     *)
ToggleTenant(t) ==
  /\ active' = IF t \in active THEN active \ {t} ELSE active \union {t}
  /\ UNCHANGED <<enabled, sealed, stop, pc, loop>>

ToggleConnector(c) ==
  /\ enabled' = IF c \in enabled THEN enabled \ {c} ELSE enabled \union {c}
  /\ UNCHANGED <<active, sealed, stop, pc, loop>>

(* PATCH /connectors/{id} with credentials seals them under today's key.   *)
Reseal(c) ==
  /\ c \in sealed
  /\ sealed' = sealed \ {c}
  /\ UNCHANGED <<active, enabled, stop, pc, loop>>

(* start(): nothing to do while a task is running.                         *)
Start ==
  /\ pc = "none"
  /\ stop' = FALSE
  /\ pc' = "waking"
  /\ UNCHANGED <<active, enabled, sealed, loop>>

(* stop() sets the event and awaits the task.                              *)
Stop ==
  /\ pc # "none" /\ ~stop
  /\ stop' = TRUE
  /\ UNCHANGED <<active, enabled, sealed, pc, loop>>

(* A sleep is over, by timeout or because the event is set.                *)
Wakes ==
  /\ pc = "waking"
  /\ pc' = IF stop THEN "none" ELSE "listing"
  /\ UNCHANGED <<active, enabled, sealed, stop, loop>>

(* _active_tenant_ids: a snapshot.                                         *)
ListTenants ==
  /\ pc = "listing"
  /\ tenants' = Rows(Tenants, active)
  /\ connectors' = <<>>
  /\ pc' = "sweeping"
  /\ UNCHANGED <<active, enabled, sealed, stop>>

(* The next tenant: its enabled connectors are listed when its turn comes. *)
ListConnectors ==
  /\ pc = "sweeping" /\ connectors = <<>> /\ tenants # <<>> /\ ~stop
  /\ connectors' = Rows(Connectors, {c \in enabled : TenantOf[c] = Head(tenants)})
  /\ tenants' = Tail(tenants)
  /\ UNCHANGED <<active, enabled, sealed, stop, pc>>

(* Mutant: a failed poll ends the sweep.                                   *)
PollEndsSweep(c) ==
  /\ pc = "sweeping" /\ connectors # <<>> /\ ~stop
  /\ c = Head(connectors) /\ c \notin sealed \cap enabled
  /\ connectors' = <<>> /\ tenants' = <<>>
  /\ UNCHANGED <<active, enabled, sealed, stop, pc>>

(* poll_connector comes back: stored, failed and marked, or a no-op for a  *)
(* connector disabled since it was listed.                                 *)
Poll(c) ==
  /\ pc = "sweeping" /\ connectors # <<>> /\ ~stop
  /\ c = Head(connectors) /\ c \notin sealed \cap enabled
  /\ connectors' = Tail(connectors)
  /\ UNCHANGED <<active, enabled, sealed, stop, pc, tenants>>

(* The sweep is over, or the event cuts it short.                          *)
SweepEnds ==
  /\ pc = "sweeping"
  /\ stop \/ (connectors = <<>> /\ tenants = <<>>)
  /\ pc' = "waking" /\ tenants' = <<>> /\ connectors' = <<>>
  /\ UNCHANGED <<active, enabled, sealed, stop>>

(* decrypt_credentials raises InvalidToken, outside any try of             *)
(* poll_connector: the exception ends the sweep.                           *)
PollRaises ==
  /\ pc = "sweeping" /\ connectors # <<>> /\ ~stop
  /\ Head(connectors) \in sealed \cap enabled
  /\ pc' = "waking" /\ tenants' = <<>> /\ connectors' = <<>>
  /\ UNCHANGED <<active, enabled, sealed, stop>>

(* The database fails under a listing or a poll's first transaction.       *)
DatabaseFails ==
  /\ pc \in {"listing", "sweeping"}
  /\ pc' = "waking" /\ tenants' = <<>> /\ connectors' = <<>>
  /\ UNCHANGED <<active, enabled, sealed, stop>>
-----------------------------------------------------------------------------
LoopStep ==
  \/ Wakes \/ ListTenants \/ ListConnectors
  \/ \E c \in ToSet(Connectors) : Poll(c)
  \/ SweepEnds \/ PollRaises

(* The event loop resumes the task, and no step of a sweep meets a failing *)
(* database every time it is tried.                                        *)
Fairness ==
  /\ WF_vars(LoopStep)
  /\ SF_vars(ListTenants)
  /\ \A t \in ToSet(Tenants) : SF_vars(ListConnectors /\ t = Head(tenants))
  /\ \A c \in ToSet(Connectors) : SF_vars(Poll(c))
-----------------------------------------------------------------------------
(* Every variable keeps its type; a tenant's turn lists its connectors only*)
TypeOK ==
  /\ active \subseteq ToSet(Tenants) /\ enabled \subseteq ToSet(Connectors)
  /\ sealed \subseteq Sealed /\ stop \in BOOLEAN
  /\ pc \in {"none", "waking", "listing", "sweeping"}
  /\ tenants \in Seq(ToSet(Tenants)) /\ connectors \in Seq(ToSet(Connectors))
  /\ \A c, d \in ToSet(connectors) : TenantOf[c] = TenantOf[d]

(* The loop runs, and c is there for it to poll.                           *)
Wanted(c) == pc # "none" /\ ~stop /\ c \in enabled /\ TenantOf[c] \in active

(* "the sweep moves on": a connector that stays enabled, of a tenant that  *)
(* stays active, is polled again and again while the loop runs, as long as *)
(* every enabled connector's credentials decrypt.                          *)
EveryConnectorPolled ==
  \A c \in ToSet(Connectors) :
    <>[](Wanted(c) /\ sealed \cap enabled = {}) => []<><<Poll(c)>>_vars

(* The same of a connector whose own credentials are fine.                 *)
HealthyConnectorsPolled ==
  \A c \in ToSet(Connectors) : <>[](Wanted(c) /\ c \notin sealed) => []<><<Poll(c)>>_vars

=============================================================================
