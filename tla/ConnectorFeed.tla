--------------------------- MODULE ConnectorFeed ---------------------------
(***************************************************************************)
(* Every connector, taken by itself, implements EventFeed: what its source *)
(* holds is `published', what it has taken in is its raw events.           *)
(***************************************************************************)
EXTENDS ConnectorPolling

Feed(c) == INSTANCE EventFeed WITH published <- published[c], copies <- stored[c]

FeedStep(c) == Feed(c)!Next \/ UNCHANGED Feed(c)!vars

(* Through every failed fetch, rolled-back transaction, edit, deletion and *)
(* crash, each connector's stored events grow by whole batches, each newer *)
(* than what is there, with no gap and no repeat.                          *)
ImplementsEventFeed ==
  /\ \A c \in Connectors : Feed(c)!Init
  /\ [][\A c \in Connectors : FeedStep(c)]_vars
=============================================================================
