-------------------------- MODULE ConnectorPolling --------------------------
(***************************************************************************)
(* poll_connector (argus/services/connector_runtime.py) run by any number  *)
(* of pollers - the runtime's own sweep and every POST /connectors/{id}/   *)
(* poll in flight - against connector rows that the endpoints of           *)
(* api/v1/endpoints/connectors.py create, edit, probe and delete.          *)
(*                                                                         *)
(* A poll is three transactions with network I/O between them, so each of  *)
(* its steps is an action here:                                            *)
(*   Snapshot -> Fetch -> Ingest -> Schedule,  with MarkError on a fault.  *)
(* The ingest transaction is atomic: events and cursor commit together.    *)
(***************************************************************************)
EXTENDS VendorPaging

CONSTANTS
  Connectors,   \* connector ids; a deleted id is never used again
  VendorOf,     \* the vendor each connector is created with
  Pollers,      \* tasks that may be inside poll_connector at once
  Rejected,     \* alerts whose raw insert the database refuses
  ArrivalOf,    \* how each source's alerts appear: see Publish
  Lookback,     \* connector_initial_lookback_minutes
  MaxClock,     \* bound on the clock
  MaxRows,      \* how many connectors may be created in one behaviour
  MaxCopies     \* copies of an alert are counted up to this many

ASSUME ConnectorsAssumption ==
  /\ Connectors # {}
  /\ VendorOf \in [Connectors -> Vendors]
  /\ Rejected \subseteq Alerts
  /\ ArrivalOf \in [Connectors -> {"position", "timestamp", "late"}]
  /\ Lookback \in Nat /\ MaxClock \in Nat /\ MaxRows \in Nat
  /\ MaxCopies \in Nat /\ MaxCopies >= 2

VARIABLES
  clock,       \* minutes, as timestamps count them
  published,   \* per connector, the alerts its source holds
  row,         \* the connectors table
  stored,      \* per connector, copies of each alert in raw_events
  poll,        \* per poller, the locals of poll_connector
  pending      \* the tenant's debounced correlation is armed

vars == <<clock, published, row, stored, poll, pending>>
-----------------------------------------------------------------------------
NewRow == [state |-> "none", enabled |-> FALSE, status |-> "unconfigured", cursor |-> NoCursor]

Idle == [pc |-> "idle", conn |-> CHOOSE c \in Connectors : TRUE, cursor |-> NoCursor,
         payloads |-> {}, next |-> NoCursor]

(* Some connector ids have been used up before: at most MaxRows are new.   *)
Init ==
  /\ clock = 0
  /\ published = [c \in Connectors |-> {}]
  /\ \E used \in SUBSET Connectors :
       /\ Cardinality(Connectors \ used) <= MaxRows
       /\ row = [c \in Connectors |->
                   [NewRow EXCEPT !.state = IF c \in used THEN "deleted" ELSE "none"]]
  /\ stored = [c \in Connectors |-> [a \in Alerts |-> 0]]
  /\ poll = [p \in Pollers |-> Idle]
  /\ pending = FALSE

Live(c) == row[c].state = "live"
-----------------------------------------------------------------------------
(* The source (external) and the clock.                                    *)

Tick ==
  /\ clock < MaxClock
  /\ clock' = clock + 1
  /\ UNCHANGED <<published, row, stored, poll, pending>>

(* "position": alerts become searchable in (timestamp, _id) order;         *)
(* "timestamp": within one timestamp, in any order; "late": any time after *)
(* their timestamp.  Nobody reads the source of a deleted connector.       *)
Publish(c, a) ==
  /\ a \notin published[c]
  /\ row[c].state # "deleted"
  /\ IF ArrivalOf[c] = "late" THEN TimeOf[a] <= clock ELSE TimeOf[a] = clock
  /\ ArrivalOf[c] = "position" => \A b \in published[c] : Precedes("wazuh", b, a)
  /\ published' = [published EXCEPT ![c] = @ \union {a}]
  /\ UNCHANGED <<clock, row, stored, poll, pending>>
-----------------------------------------------------------------------------
(* The endpoints.                                                          *)

Create(c) ==
  /\ row[c].state = "none"
  /\ \E enabled \in BOOLEAN :
       row' = [row EXCEPT ![c].state = "live", ![c].enabled = enabled]
  /\ UNCHANGED <<clock, published, stored, poll, pending>>

(* PATCH: only the fields given are set; the cursor is not one of them.    *)
Update(c) ==
  /\ Live(c)
  /\ row' = [row EXCEPT ![c].enabled = ~@]
  /\ UNCHANGED <<clock, published, stored, poll, pending>>

(* POST /test: the probe's verdict becomes the status.                     *)
Test(c) ==
  /\ Live(c)
  /\ \E verdict \in {"healthy", "error"} : row' = [row EXCEPT ![c].status = verdict]
  /\ UNCHANGED <<clock, published, stored, poll, pending>>

Delete(c) ==
  /\ Live(c)
  /\ row' = [row EXCEPT ![c] = [NewRow EXCEPT !.state = "deleted"]]
  /\ UNCHANGED <<clock, published, stored, poll, pending>>
-----------------------------------------------------------------------------
(* poll_connector.                                                         *)

(* 1) snapshot the config; a missing or disabled connector is a no-op.     *)
Snapshot(p, c) ==
  /\ poll[p].pc = "idle"
  /\ Live(c) /\ row[c].enabled
  /\ poll' = [poll EXCEPT ![p] = [Idle EXCEPT !.pc = "fetching", !.conn = c,
                                               !.cursor = row[c].cursor]]
  /\ UNCHANGED <<clock, published, row, stored, pending>>

(* 2) fetch outside any transaction, from the snapshot's cursor.           *)
Fetch(p) ==
  LET c      == poll[p].conn
      vendor == VendorOf[c]
      since  == clock - Lookback
  IN  /\ poll[p].pc = "fetching"
      /\ \E page \in SUBSET published[c] :
           LET kept == Kept(vendor, page, poll[p].cursor) IN
           /\ IsPage(vendor,
                     {a \in published[c] : Selected(vendor, poll[p].cursor, since, a)},
                     page)
           /\ poll' = [poll EXCEPT
                 ![p].pc = "fetched", ![p].payloads = kept,
                 ![p].next = NextCursor(vendor, kept, poll[p].cursor, since)]
      /\ UNCHANGED <<clock, published, row, stored, pending>>

FetchFails(p) ==
  /\ poll[p].pc = "fetching"
  /\ poll' = [poll EXCEPT ![p].pc = "error"]
  /\ UNCHANGED <<clock, published, row, stored, pending>>

(* ingest_events stores one raw row per payload the database accepts.      *)
Ingested(copies, payloads) ==
  [a \in Alerts |-> IF a \in payloads \ Rejected /\ copies[a] < MaxCopies
                    THEN copies[a] + 1 ELSE copies[a]]

(* Mutant: `if result.cursor' is missing.                                  *)
IngestBlindCursor(p) ==
  LET c == poll[p].conn IN
  /\ poll[p].pc = "fetched"
  /\ Live(c)
  /\ stored' = [stored EXCEPT ![c] = Ingested(@, poll[p].payloads)]
  /\ row' = [row EXCEPT ![c].cursor = poll[p].next, ![c].status = "healthy"]
  /\ poll' = [poll EXCEPT ![p] =
        IF poll[p].payloads = {} THEN Idle ELSE [Idle EXCEPT !.pc = "ingested", !.conn = c]]
  /\ UNCHANGED <<clock, published, pending>>

(* 3) ingest and advance the cursor, in one transaction.  A row deleted    *)
(* meanwhile ends the poll; `enabled' is not looked at again.              *)
Ingest(p) ==
  LET c == poll[p].conn IN
  /\ poll[p].pc = "fetched"
  /\ Live(c)
  /\ stored' = [stored EXCEPT ![c] = Ingested(@, poll[p].payloads)]
  /\ row' = [row EXCEPT
        ![c].cursor = IF poll[p].next = NoCursor THEN @ ELSE poll[p].next,
        ![c].status = "healthy"]
  /\ poll' = [poll EXCEPT ![p] =
        IF poll[p].payloads = {} THEN Idle ELSE [Idle EXCEPT !.pc = "ingested", !.conn = c]]
  /\ UNCHANGED <<clock, published, pending>>

IngestGone(p) ==
  /\ poll[p].pc = "fetched"
  /\ ~Live(poll[p].conn)
  /\ poll' = [poll EXCEPT ![p] = Idle]
  /\ UNCHANGED <<clock, published, row, stored, pending>>

(* Mutant: the events were committed before the transaction failed.        *)
IngestFailsHalfway(p) ==
  /\ poll[p].pc = "fetched"
  /\ stored' = [stored EXCEPT ![poll[p].conn] = Ingested(@, poll[p].payloads)]
  /\ poll' = [poll EXCEPT ![p].pc = "error"]
  /\ UNCHANGED <<clock, published, row, pending>>

(* Any exception rolls the whole transaction back.                         *)
IngestFails(p) ==
  /\ poll[p].pc = "fetched"
  /\ poll' = [poll EXCEPT ![p].pc = "error"]
  /\ UNCHANGED <<clock, published, row, stored, pending>>

(* _mark_error, in a transaction of its own whose failure is suppressed.   *)
MarkError(p) ==
  LET c == poll[p].conn IN
  /\ poll[p].pc = "error"
  /\ \/ Live(c) /\ row' = [row EXCEPT ![c].status = "error"]
     \/ UNCHANGED row
  /\ poll' = [poll EXCEPT ![p] = Idle]
  /\ UNCHANGED <<clock, published, stored, pending>>

Schedule(p) ==
  /\ poll[p].pc = "ingested"
  /\ pending' = TRUE
  /\ poll' = [poll EXCEPT ![p] = Idle]
  /\ UNCHANGED <<clock, published, row, stored>>

(* The debounce timer fires (services/auto_correlation.py).                *)
Correlate ==
  /\ pending
  /\ pending' = FALSE
  /\ UNCHANGED <<clock, published, row, stored, poll>>

(* The process dies and comes back: the database survives, tasks do not.   *)
Crash ==
  /\ pending \/ \E p \in Pollers : poll[p].pc # "idle"
  /\ poll' = [p \in Pollers |-> Idle]
  /\ pending' = FALSE
  /\ UNCHANGED <<clock, published, row, stored>>
-----------------------------------------------------------------------------
Source == Tick \/ \E c \in Connectors, a \in Alerts : Publish(c, a)

Endpoint == \E c \in Connectors : Create(c) \/ Update(c) \/ Test(c) \/ Delete(c)

PollStep(p) ==
  \/ \E c \in Connectors : Snapshot(p, c)
  \/ Fetch(p) \/ FetchFails(p)
  \/ Ingest(p) \/ IngestGone(p) \/ IngestFails(p)
  \/ MarkError(p) \/ Schedule(p)

Next == Source \/ Endpoint \/ (\E p \in Pollers : PollStep(p)) \/ Correlate \/ Crash

Spec == Init /\ [][Next]_vars
-----------------------------------------------------------------------------
(* The scheduler comes back to every enabled connector, and a source or a  *)
(* database that fails infinitely often also works infinitely often.       *)
Fairness ==
  \A p \in Pollers :
    /\ \A c \in Connectors : SF_vars(Snapshot(p, c))
    /\ SF_vars(Fetch(p)) /\ SF_vars(Ingest(p))
    /\ WF_vars(IngestGone(p)) /\ WF_vars(MarkError(p)) /\ WF_vars(Schedule(p))

FairSpec == Spec /\ Fairness
-----------------------------------------------------------------------------
Rows == [state : {"none", "live", "deleted"}, enabled : BOOLEAN,
         status : {"unconfigured", "healthy", "error"}, cursor : Cursors]

Polls == [pc : {"idle", "fetching", "fetched", "ingested", "error"}, conn : Connectors,
          cursor : Cursors, payloads : SUBSET Alerts, next : Cursors]

(* Every variable keeps its type; the cursor column and a poll's result    *)
(* are resume tokens.                                                      *)
TypeOK ==
  /\ clock \in 0..MaxClock
  /\ published \in [Connectors -> SUBSET Alerts]
  /\ row \in [Connectors -> Rows]
  /\ stored \in [Connectors -> [Alerts -> 0..MaxCopies]]
  /\ poll \in [Pollers -> Polls]
  /\ pending \in BOOLEAN

(* Everything behind a cursor has been stored, or the database refused it. *)
Complete(c, cursor) ==
  \A a \in published[c] :
    /\ InScope(VendorOf[c], cursor.from, a)
    /\ Behind(VendorOf[c], cursor, a)
    => stored[c][a] > 0 \/ a \in Rejected

(* "drop-free": whatever fails, crashes or overlaps between a fetch and    *)
(* its commit, the stored cursor never moves past an alert in scope that   *)
(* was not stored - a later poll would never ask for it again.             *)
NoLoss == \A c \in Connectors : Complete(c, row[c].cursor)

(* "duplicate-free": no alert is stored twice, however often a poll is     *)
(* retried after an error or a crash.                                      *)
NoDuplicates == \A c \in Connectors, a \in Alerts : stored[c][a] <= 1

(* A connector's cursor never moves back: what was behind it stays behind. *)
CursorAdvances ==
  [][\A c \in Connectors : \A a \in published[c] :
       Live(c) /\ Live(c)' /\ Behind(VendorOf[c], row[c].cursor, a)
         => Behind(VendorOf[c], row[c].cursor, a)']_vars

(* The alert is older than the lookback of the connector's first poll.     *)
OutOfScope(c, a) ==
  ~InScope(VendorOf[c],
           IF row[c].cursor = NoCursor THEN clock - Lookback ELSE row[c].cursor.from, a)

(* A published alert is stored, unless its connector is disabled or        *)
(* deleted first, or it is too old for the first poll's lookback.          *)
EveryAlertArrives ==
  \A c \in Connectors, a \in Alerts \ Rejected :
    (a \in published[c] /\ Live(c) /\ row[c].enabled)
      ~> (stored[c][a] > 0 \/ ~Live(c) \/ ~row[c].enabled \/ OutOfScope(c, a))
=============================================================================
