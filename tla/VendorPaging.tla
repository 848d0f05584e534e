---------------------------- MODULE VendorPaging ----------------------------
(***************************************************************************)
(* The query and parse helpers of argus/connectors/collectors.py: which    *)
(* alerts a vendor answers to one poll, which of them the collector keeps, *)
(* and the resume cursor it hands back.  Three vendors are pollable:       *)
(*                                                                         *)
(*   "wazuh"        search_after over the total order (timestamp, _id);    *)
(*   "crowdstrike"  timestamp >= boundary, minus the ids remembered at it; *)
(*   "cortex_xdr"   the same skip-set, over creation_time in milliseconds. *)
(*                                                                         *)
(* An alert is its identifier (a natural number, so that "_id asc" has a   *)
(* meaning).  The answers are external; only the filter, the sort order    *)
(* and the size limit the code asks for are assumed of them, so two alerts *)
(* with the same timestamp come back in any order from a vendor that sorts *)
(* on the timestamp alone.                                                 *)
(***************************************************************************)
EXTENDS Integers, FiniteSets

CONSTANTS
  Alerts,     \* every alert a source may ever publish, by identifier
  TimeOf,     \* the timestamp the vendor gave each alert
  Limit       \* connector_batch_size: alerts asked for in one poll

ASSUME AlertsAssumption ==
  /\ Alerts \subseteq Nat
  /\ TimeOf \in [Alerts -> Nat]
  /\ Limit \in Nat \ {0}

Vendors == {"wazuh", "crowdstrike", "cortex_xdr"}

(* The Connector.cursor column.  `ts' and `ids' are the resume token; for  *)
(* wazuh `ids' is the singleton of the last hit's _id.  `from' is history: *)
(* the `since' bound of the first poll of the chain that led here.         *)
NoCursor == [ts |-> -1, ids |-> {}, from |-> 0]

Cursors == [ts : Nat \union {-1}, ids : SUBSET Alerts, from : Int]

-----------------------------------------------------------------------------
(* Sort orders the queries ask for.                                        *)

Precedes(vendor, a, b) ==
  \/ TimeOf[a] < TimeOf[b]
  \/ vendor = "wazuh" /\ TimeOf[a] = TimeOf[b] /\ a < b

(* The first-poll bound: Falcon is asked for timestamp:>since, the others  *)
(* for gte.                                                                *)
InScope(vendor, from, a) ==
  IF vendor = "crowdstrike" THEN TimeOf[a] > from ELSE TimeOf[a] >= from

(* Mutant: a plain range over the timestamp instead of a position.         *)
SelectedByTimestamp(vendor, cursor, since, a) ==
  TimeOf[a] > IF cursor = NoCursor THEN since ELSE cursor.ts

(* What the query built from a cursor selects.                             *)
Selected(vendor, cursor, since, a) ==
  IF cursor = NoCursor THEN InScope(vendor, since, a)
  ELSE IF vendor = "wazuh"
       THEN \/ TimeOf[a] > cursor.ts
            \/ TimeOf[a] = cursor.ts /\ \E last \in cursor.ids : a > last
       ELSE TimeOf[a] >= cursor.ts

(* `page' is an answer to a query that selects `matches': sorted, first    *)
(* Limit only.                                                             *)
IsPage(vendor, matches, page) ==
  /\ page \subseteq matches /\ IsFiniteSet(page)
  /\ \A a \in page, b \in matches \ page : ~Precedes(vendor, b, a)
  /\ Cardinality(page) <= Limit
  /\ page = matches \/ Cardinality(page) = Limit

(* What the parser keeps: a skip-set vendor's known boundary ids go.       *)
Kept(vendor, page, cursor) ==
  IF vendor = "wazuh" THEN page ELSE page \ cursor.ids

(* The greatest kept alerts: the last hit of wazuh's total order, every    *)
(* kept alert at the maximal timestamp for the others.                     *)
Greatest(vendor, kept) ==
  {a \in kept : \A b \in kept : ~Precedes(vendor, a, b)}

(* Mutant: the skip-set is not carried over while parked on a boundary.    *)
NextCursorForgetful(vendor, kept, cursor, since) ==
  IF kept = {} THEN NoCursor
  ELSE LET top == Greatest(vendor, kept)
       IN  [ts |-> TimeOf[CHOOSE a \in top : TRUE], ids |-> top,
            from |-> IF cursor = NoCursor THEN since ELSE cursor.from]

(* The cursor of the CollectResult; NoCursor leaves the stored one alone.  *)
NextCursor(vendor, kept, cursor, since) ==
  IF kept = {} THEN NoCursor
  ELSE LET top   == Greatest(vendor, kept)
           maxTs == TimeOf[CHOOSE a \in top : TRUE]
       IN  [ts   |-> maxTs,
            ids  |-> IF vendor # "wazuh" /\ cursor.ts = maxTs
                     THEN top \union cursor.ids ELSE top,
            from |-> IF cursor = NoCursor THEN since ELSE cursor.from]

(* Everything at or before a cursor: what a later poll will not be given,  *)
(* or will be given and skip.                                              *)
Behind(vendor, cursor, a) ==
  /\ cursor # NoCursor
  /\ \/ TimeOf[a] < cursor.ts
     \/ vendor # "wazuh" /\ a \in cursor.ids
     \/ /\ vendor = "wazuh"
        /\ TimeOf[a] = cursor.ts
        /\ \E last \in cursor.ids : a <= last
=============================================================================
