----------------------------- MODULE Ingestion -----------------------------
(***************************************************************************)
(* ingest_events (argus/services/ingestion.py) and what it calls for each  *)
(* event: record_aggregate (services/aggregation.py) and build_graph       *)
(* (services/graph_builder.py).  A batch is one transaction; each payload, *)
(* each aggregate and each piece of graph is written inside a savepoint of *)
(* its own, whose failure is logged and swallowed.                         *)
(*                                                                         *)
(* An upsert locks its row until the transaction ends, so transactions     *)
(* wait for each other; when they wait in a circle PostgreSQL fails the    *)
(* statement of one of them.  link_techniques writes rows of the new event *)
(* only and meets nobody: it is left out.                                  *)
(***************************************************************************)
EXTENDS Integers, SequencesExt

CONSTANTS
  Payloads,   \* what connectors and POST /events deliver, each delivery by itself
  KindOf,     \* "hostile": raw_events refuses it; "unknown": not normalized; "event"
  TimeOf,     \* event_time of an event
  SignalOf,   \* the aggregate (signature_hash) of an event
  GraphOf,    \* the entities and edges of an event, in the order they are upserted
  Batches,    \* ingest requests
  ContentOf   \* the payloads of a batch, in order

Signals == {SignalOf[p] : p \in Payloads}
Links == UNION {ToSet(GraphOf[p]) : p \in Payloads}
Rows == Signals \union Links

(* An event names an entity once, and an edge too: build_graph keeps the    *)
(* ids it has, and no two edges of extract_graph have the same ends.       *)
ASSUME PayloadAssumption ==
  /\ Payloads # {}
  /\ KindOf \in [Payloads -> {"hostile", "unknown", "event"}]
  /\ TimeOf \in [Payloads -> Nat]
  /\ \A p \in Payloads : GraphOf[p] \in Seq(Links) /\ IsInjective(GraphOf[p])
  /\ \A b \in Batches : ContentOf[b] \in Seq(Payloads) /\ IsInjective(ContentOf[b])
  /\ \A b, c \in Batches : b # c => ToSet(ContentOf[b]) \cap ToSet(ContentOf[c]) = {}
  /\ Signals \cap Links = {}

VARIABLES
  raw,         \* raw_events
  normalized,  \* normalized_events
  rows,        \* event_aggregates, entities and entity_edges: row -> its columns
  warned,      \* "aggregation_failed" and "graph_building_failed" of landed batches
  tx           \* per batch, its transaction

vars == <<raw, normalized, rows, warned, tx>>

Unsent == [pc |-> "unsent", left |-> <<>>, raw |-> {}, normalized |-> {}, rows |-> <<>>,
           warned |-> {}, event |-> CHOOSE p \in Payloads : TRUE, part |-> "signal",
           todo |-> <<>>, saved |-> <<>>]

Init ==
  /\ raw = {} /\ normalized = {} /\ warned = {}
  /\ rows = <<>>
  /\ tx = [b \in Batches |-> Unsent]

(* What transaction b sees in row, if anything.                            *)
Sees(b, row) == row \in DOMAIN tx[b].rows \union DOMAIN rows
Seen(b, row) == IF row \in DOMAIN tx[b].rows THEN tx[b].rows[row] ELSE rows[row]

(* Mutant: the counter is read and then written.                           *)
LockedNever(b, row) == FALSE

Locked(b, row) == \E c \in Batches \ {b} : row \in DOMAIN tx[c].rows

(* The statement b is about to run.                                        *)
Upserting(b) == tx[b].pc = "open" /\ tx[b].todo # <<>>
Row(b) == Head(tx[b].todo)

(* b waits for a row that c has upserted.                                  *)
WaitsFor(b, c) == Upserting(b) /\ b # c /\ Row(b) \in DOMAIN tx[c].rows

(* b is one of a circle of transactions that wait for each other.          *)
Deadlocked(b) ==
  \E circle \in SUBSET Batches :
    /\ b \in circle
    /\ \A c \in circle : (\E d \in circle : WaitsFor(c, d)) /\ (\E d \in circle : WaitsFor(d, c))

Lesser(m, n) == IF m <= n THEN m ELSE n
Greater(m, n) == IF m >= n THEN m ELSE n

(* Mutant: the span of a signal follows the latest event ingested.         *)
UpsertedAsEdge(row, old, time) == [count |-> old.count + 1, first |-> old.first, last |-> time]

(* ON CONFLICT DO UPDATE: a signal's span grows, an edge's last_seen is     *)
(* whatever came last.  (An entity has no count; one is kept all the same.) *)
Upserted(row, old, time) ==
  IF row \in Signals
  THEN [count |-> old.count + 1,
        first |-> Lesser(old.first, time), last |-> Greater(old.last, time)]
  ELSE [count |-> old.count + 1, first |-> old.first, last |-> time]
-----------------------------------------------------------------------------
(* A request or a poll opens its transaction.                              *)
Begin(b) ==
  /\ tx[b].pc = "unsent"
  /\ tx' = [tx EXCEPT ![b] = [Unsent EXCEPT !.pc = "open", !.left = ContentOf[b]]]
  /\ UNCHANGED <<raw, normalized, rows, warned>>

(* Mutant: a refused payload takes the rest of the batch with it.          *)
LeftUnlessRefused(b) ==
  IF KindOf[Head(tx[b].left)] = "hostile" THEN <<>> ELSE Tail(tx[b].left)

(* A payload that fails in its savepoint fails alone.                      *)
Left(b) == Tail(tx[b].left)

(* The next payload: its raw row, its normalized row, and then the two      *)
(* savepoints that upsert, that of the signal first.                       *)
Store(b) ==
  LET p == Head(tx[b].left) IN
  /\ tx[b].pc = "open" /\ tx[b].todo = <<>> /\ tx[b].left # <<>>
  /\ tx' = [tx EXCEPT ![b] = [tx[b] EXCEPT
       !.left = Left(b),
       !.raw = IF KindOf[p] = "hostile" THEN @ ELSE @ \union {p},
       !.normalized = IF KindOf[p] = "event" THEN @ \union {p} ELSE @,
       !.event = p, !.saved = tx[b].rows, !.part = "signal",
       !.todo = IF KindOf[p] = "event" THEN <<SignalOf[p]>> ELSE <<>>]]
  /\ UNCHANGED <<raw, normalized, rows, warned>>

(* What is upserted once a savepoint is over.                              *)
NextPart(b) == IF tx[b].part = "signal" THEN GraphOf[tx[b].event] ELSE <<>>

(* One upsert; the last one of a savepoint releases it.                    *)
Upsert(b) ==
  /\ Upserting(b) /\ ~Locked(b, Row(b))
  /\ LET row  == Row(b)
         time == TimeOf[tx[b].event]
         new  == IF Sees(b, row) THEN Upserted(row, Seen(b, row), time)
                                 ELSE [count |-> 1, first |-> time, last |-> time]
         mine == [r \in {row} \union DOMAIN tx[b].rows |->
                    IF r = row THEN new ELSE tx[b].rows[r]]
         rest == Tail(tx[b].todo)
     IN tx' = [tx EXCEPT ![b] = [tx[b] EXCEPT
          !.rows = mine,
          !.saved = IF rest = <<>> THEN mine ELSE @,
          !.part = IF rest = <<>> THEN "graph" ELSE @,
          !.todo = IF rest = <<>> THEN NextPart(b) ELSE rest]]
  /\ UNCHANGED <<raw, normalized, rows, warned>>

(* Mutant: the failed savepoint is tried again, keeping what it has locked.*)
SavepointRetried(b) ==
  /\ Deadlocked(b)
  /\ UNCHANGED tx
  /\ UNCHANGED <<raw, normalized, rows, warned>>

(* Mutant: what the savepoint wrote stays.                                 *)
RestoredNothing(b) == tx[b].rows

Restored(b) == tx[b].saved

(* A deadlock: b's savepoint is rolled back and the failure logged.        *)
SavepointFails(b) ==
  /\ Deadlocked(b)
  /\ tx' = [tx EXCEPT ![b] = [tx[b] EXCEPT
       !.rows = Restored(b),
       !.warned = @ \union {<<tx[b].event, tx[b].part>>},
       !.part = "graph", !.todo = NextPart(b)]]
  /\ UNCHANGED <<raw, normalized, rows, warned>>

Commit(b) ==
  /\ tx[b].pc = "open" /\ tx[b].todo = <<>> /\ tx[b].left = <<>>
  /\ raw' = raw \union tx[b].raw
  /\ normalized' = normalized \union tx[b].normalized
  /\ rows' = [row \in DOMAIN tx[b].rows \union DOMAIN rows |-> Seen(b, row)]
  /\ warned' = warned \union tx[b].warned
  /\ tx' = [tx EXCEPT ![b] = [Unsent EXCEPT !.pc = "landed"]]

(* The connection or the process is lost: nothing of the batch stays, and  *)
(* its sender sends it again.                                              *)
Rollback(b) ==
  /\ tx[b].pc = "open"
  /\ tx' = [tx EXCEPT ![b] = Unsent]
  /\ UNCHANGED <<raw, normalized, rows, warned>>
-----------------------------------------------------------------------------
Next == \E b \in Batches :
  Begin(b) \/ Store(b) \/ Upsert(b) \/ SavepointFails(b) \/ Commit(b) \/ Rollback(b)

Spec == Init /\ [][Next]_vars

(* The event loop resumes every transaction, the database breaks every      *)
(* deadlock and gives a row lock to those who wait for it in turn.         *)
Fairness ==
  \A b \in Batches : SF_vars(Store(b) \/ Upsert(b) \/ SavepointFails(b) \/ Commit(b))

FairSpec == Spec /\ Fairness
-----------------------------------------------------------------------------
Columns == [count : Nat, first : Nat, last : Nat]

(* Every variable keeps its type, and no two transactions hold one row.    *)
TypeOK ==
  /\ raw \subseteq Payloads /\ normalized \subseteq Payloads
  /\ DOMAIN rows \subseteq Rows /\ \A row \in DOMAIN rows : rows[row] \in Columns
  /\ warned \subseteq Payloads \X {"signal", "graph"}
  /\ \A b \in Batches :
       /\ tx[b].pc \in {"unsent", "open", "landed"}
       /\ DOMAIN tx[b].rows \subseteq Rows
       /\ \A c \in Batches \ {b} : DOMAIN tx[b].rows \cap DOMAIN tx[c].rows = {}

(* "the rest of the batch lands": a batch that was accepted has stored each *)
(* payload the database takes and normalized each it understands, whatever *)
(* their neighbours were and whatever deadlocks it met.                    *)
BatchLands ==
  \A b \in Batches : tx[b].pc = "landed" =>
    \A p \in ToSet(ContentOf[b]) :
      (p \in raw <=> KindOf[p] # "hostile") /\ (p \in normalized <=> KindOf[p] = "event")

(* "atomic increment, no read-modify-write race": a signal's count is the  *)
(* number of its events, less those whose failure was logged.              *)
SignalsCountEvents ==
  \A s \in DOMAIN rows \cap Signals :
    rows[s].count = Cardinality({p \in normalized : SignalOf[p] = s /\ <<p, "signal">> \notin warned})

(* Nothing is missing from the signals unless it was logged, and a         *)
(* signal's span holds every event counted, in whatever order they came.   *)
SpansHoldEvents ==
  \A p \in normalized : <<p, "signal">> \notin warned =>
    /\ SignalOf[p] \in DOMAIN rows
    /\ rows[SignalOf[p]].first <= TimeOf[p] /\ TimeOf[p] <= rows[SignalOf[p]].last

(* A piece of graph is written whole or not at all: each entity and edge    *)
(* has been upserted once for each event whose graph was written.          *)
GraphsAreWhole ==
  \A row \in DOMAIN rows \cap Links :
    rows[row].count =
      Cardinality({p \in normalized : row \in ToSet(GraphOf[p]) /\ <<p, "graph">> \notin warned})

(* No batch hangs, even when batches wait in a circle.                     *)
BatchesEnd == \A b \in Batches : tx[b].pc = "open" ~> tx[b].pc # "open"
=============================================================================
