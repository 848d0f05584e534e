------------------------- MODULE MCConnectorPolling -------------------------
(* One connector of each vendor, of which one is used in a behaviour.  Its *)
(* source has five alerts at three timestamps, two of them shared, and a   *)
(* batch of three can end between two that share one.                      *)
EXTENDS ConnectorFeed

CONSTANTS Wazuh, Falcon, Cortex

MCAlerts == 1..5
MCTimeOf == [a \in MCAlerts |-> a \div 2]

MCVendorOf ==
  [c \in Connectors |-> CASE c = Wazuh -> "wazuh"
                          [] c = Falcon -> "crowdstrike"
                          [] c = Cortex -> "cortex_xdr"]

(* What each vendor's resume token relies on: a position for search_after, *)
(* a timestamp for the skip-sets.                                          *)
MCArrivalOf ==
  [c \in Connectors |-> IF c = Wazuh THEN "position" ELSE "timestamp"]
=============================================================================
