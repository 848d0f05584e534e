----------------------------- MODULE Clustering -----------------------------
(***************************************************************************)
(* The grouping at the heart of correlate_tenant (argus/services/          *)
(* correlation.py): technique-bearing events, read in (host, event_time)   *)
(* order, are walked once and cut into per-host runs of activity in which  *)
(* no gap exceeds the window.                                              *)
(***************************************************************************)
EXTENDS Integers, FiniteSets, SequencesExt

CONSTANTS
  Events,    \* normalized events that carry a technique
  HostOf,    \* host_name, as its rank in the sort order
  TimeOf     \* event_time

ASSUME EventsAssumption ==
  HostOf \in [Events -> Nat] /\ TimeOf \in [Events -> Nat]
-----------------------------------------------------------------------------
(* ORDER BY host_name, event_time; rows that tie come in any order.        *)
RowBefore(e, f) ==
  \/ HostOf[e] < HostOf[f]
  \/ HostOf[e] = HostOf[f] /\ TimeOf[e] < TimeOf[f]

InOrder(rows) == \A m, n \in DOMAIN rows : m < n => ~RowBefore(rows[n], rows[m])

Rows(events) ==
  CHOOSE rows \in [1 .. Cardinality(events) -> events] : IsInjective(rows) /\ InOrder(rows)

Opening(e) == [host |-> HostOf[e], start |-> TimeOf[e], end |-> TimeOf[e], events |-> {e}]

(* Mutant: the window is measured against the cluster's start.             *)
BreaksFromStart(cur, e, window) == HostOf[e] # cur.host \/ TimeOf[e] - cur.start > window

(* Does e open a new cluster after the one being built?                    *)
Breaks(cur, e, window) == HostOf[e] # cur.host \/ TimeOf[e] - cur.end > window

Extended(cur, e) == [cur EXCEPT !.end = TimeOf[e], !.events = @ \union {e}]

Step(clusters, e, window) ==
  IF clusters = <<>> \/ Breaks(Last(clusters), e, window)
  THEN Append(clusters, Opening(e))
  ELSE [clusters EXCEPT ![Len(clusters)] = Extended(@, e)]

(* The clusters after each of the rows.                                    *)
Walk(rows, window) ==
  LET walked[n \in 0 .. Len(rows)] ==
        IF n = 0 THEN <<>> ELSE Step(walked[n - 1], rows[n], window)
  IN  walked

Clusters(events, window) ==
  LET rows == Rows(events) IN ToSet(Walk(rows, window)[Len(rows)])
-----------------------------------------------------------------------------
(* What a cluster is meant to be: e and f belong together when they are on *)
(* one host and no silence longer than the window lies between them.       *)
Together(events, window, e, f) ==
  /\ HostOf[e] = HostOf[f]
  /\ \A g \in events :
       /\ HostOf[g] = HostOf[e]
       /\ \/ TimeOf[e] <= TimeOf[g] /\ TimeOf[g] < TimeOf[f]
          \/ TimeOf[f] <= TimeOf[g] /\ TimeOf[g] < TimeOf[e]
       => \E k \in events : /\ HostOf[k] = HostOf[g]
                            /\ TimeOf[g] < TimeOf[k]
                            /\ TimeOf[k] - TimeOf[g] <= window

(* Two windows of one host share a minute (_already_triaged's test).       *)
Overlaps(c, d) == c.host = d.host /\ c.start <= d.end /\ c.end >= d.start
=============================================================================
