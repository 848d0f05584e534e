---------------------------- MODULE AppLifespan ----------------------------
(***************************************************************************)
(* The lifespan of the application (main.py): it starts the hunter and the *)
(* connector runtime together, runs them over the same tenants, and on     *)
(* shutdown stops and awaits one after the other before it disposes of the *)
(* database engine both of them use.                                       *)
(***************************************************************************)
EXTENDS Integers, SequencesExt

CONSTANTS
  Tenants,     \* tenants, in table order
  Connectors,  \* connectors, in table order
  TenantOf,    \* the tenant each connector belongs to
  Sealed       \* connectors whose stored credentials may no longer decrypt

ASSUME LifespanAssumption ==
  /\ \A c \in ToSet(Connectors) : TenantOf[c] \in ToSet(Tenants)
  /\ Sealed \subseteq ToSet(Connectors)

VARIABLES
  life,      \* "down", "up", "stopping runtime", "stopping hunter"
  active, enabled, sealed,        \* tenants and connectors tables
  stop, pc, tenants, connectors,  \* the connector runtime's loop
  huntStop, huntPc, left          \* the hunter's loop

Runtime == INSTANCE ConnectorSweep

Hunter == INSTANCE AutoHunt WITH stop <- huntStop, pc <- huntPc

runtime == <<stop, pc, tenants, connectors>>
hunter == <<huntStop, huntPc, left>>
appVars == <<life, active, enabled, sealed, runtime, hunter>>

AppInit == life = "down" /\ Runtime!Init /\ Hunter!Init
-----------------------------------------------------------------------------
Startup ==
  /\ life = "down" /\ life' = "up"
  /\ Hunter!Start /\ Runtime!Start

(* Mutant: both loops are told to stop and only the hunter is awaited.     *)
ShutdownAwaitsOne ==
  /\ life = "up" /\ life' = "stopping hunter"
  /\ Runtime!Stop /\ Hunter!Stop

(* The process is told to end: await connector_runtime.stop(),             *)
Shutdown ==
  /\ life = "up" /\ life' = "stopping runtime"
  /\ Runtime!Stop /\ UNCHANGED hunter

(* then await auto_hunt.stop(),                                            *)
RuntimeStopped ==
  /\ life = "stopping runtime" /\ pc = "none"
  /\ life' = "stopping hunter"
  /\ Hunter!Stop /\ UNCHANGED <<enabled, sealed, runtime>>

(* and dispose_engine().                                                   *)
HunterStopped ==
  /\ life = "stopping hunter" /\ huntPc = "none"
  /\ life' = "down"
  /\ UNCHANGED <<active, enabled, sealed, runtime, hunter>>

(* Operators switch tenants and connectors and re-enter credentials.       *)
Administer ==
  \/ \E t \in ToSet(Tenants) : Runtime!ToggleTenant(t)
  \/ \E c \in ToSet(Connectors) : Runtime!ToggleConnector(c) \/ Runtime!Reseal(c)

AppNext ==
  \/ Startup \/ Shutdown \/ RuntimeStopped \/ HunterStopped
  \/ Administer /\ UNCHANGED <<life, hunter>>
  \/ (Runtime!LoopStep \/ Runtime!DatabaseFails) /\ UNCHANGED <<life, hunter>>
  \/ (Hunter!LoopStep \/ Hunter!ListFails) /\ UNCHANGED <<life, enabled, sealed, runtime>>

(* Both loops run, and the lifespan's coroutine is resumed.                *)
AppFairness ==
  /\ Runtime!Fairness /\ Hunter!Fairness
  /\ WF_appVars(RuntimeStopped) /\ WF_appVars(HunterStopped)

AppSpec == AppInit /\ [][AppNext]_appVars /\ AppFairness
-----------------------------------------------------------------------------
(* Every variable keeps its type.                                          *)
AppTypeOK ==
  /\ life \in {"down", "up", "stopping runtime", "stopping hunter"}
  /\ Runtime!TypeOK /\ Hunter!TypeOK

(* A connector that stays enabled, of a tenant that stays active, is       *)
(* polled again and again while the application stays up, as long as every *)
(* enabled connector's credentials decrypt.                                *)
EveryConnectorPolled == Runtime!EveryConnectorPolled

(* The same of a connector whose own credentials decrypt: "a failure       *)
(* records status=error on that one connector and the sweep moves on".     *)
HealthyConnectorsPolled == Runtime!HealthyConnectorsPolled

(* A tenant that stays active is hunted again and again while the          *)
(* application stays up, whichever hunts raise.                            *)
EveryTenantHunted == Hunter!EveryTenantHunted

(* Neither loop runs once the engine is disposed of: a poll or a hunt in   *)
(* flight at shutdown still has its database.                              *)
EngineOutlivesLoops == life = "down" => pc = "none" /\ huntPc = "none"

(* "graceful shutdown": whatever the loops wait for, an application that   *)
(* is told to end does.                                                    *)
ShutdownEnds == life \notin {"up", "down"} ~> life = "down"
=============================================================================
