--------------------------- MODULE WazuhCollector ---------------------------
(***************************************************************************)
(* The standalone pull collector, collectors/wazuh_indexer_collector.py:   *)
(* it pages through the Wazuh indexer from a checkpoint, ships what it     *)
(* finds to POST /api/v1/events and keeps the checkpoint in a file.        *)
(*                                                                         *)
(* main holds a checkpoint of its own and replaces it when run_cycle       *)
(* returns, not when it raises; run_cycle saves after every page.          *)
(***************************************************************************)
EXTENDS Integers, FiniteSets

CONSTANTS
  Alerts,     \* documents the indexer may hold, numbered as they appear
  BatchSize,  \* --batch-size
  ChunkSize,  \* ARGUS_MAX_BATCH
  Lookback,   \* --lookback-minutes
  MaxTime,    \* bound on timestamps
  MaxTie,     \* bound on the alerts that share a timestamp
  MaxCopies,  \* copies of an alert are counted up to this many
  Scenarios   \* which of "fetch", "ship", "reply", "crash" may happen together

ASSUME CollectorAssumption ==
  /\ Alerts \subseteq Nat
  /\ BatchSize \in Nat \ {0} /\ ChunkSize \in Nat \ {0}
  /\ Lookback \in Nat /\ MaxTime \in Nat /\ MaxTie \in Nat
  /\ MaxCopies \in Nat /\ MaxCopies >= 2
  /\ Scenarios \subseteq SUBSET {"fetch", "ship", "reply", "crash"}

VARIABLES
  faults,  \* the faults that happen in this behaviour
  now,     \* the clock
  store,   \* timestamp of each alert in the index, Absent before it is there
  copies,  \* how often ARGUS has accepted each alert
  disk,    \* the checkpoint file
  kept,    \* main's ckpt
  ckpt,    \* run_cycle's ckpt
  fresh,   \* the page being shipped
  toShip,  \* what is left of it
  origin,  \* where the first run started
  pc

vars == <<faults, now, store, copies, disk, kept, ckpt, fresh, toShip, origin, pc>>

Absent == -1
At(ts, seen) == [ts |-> ts, seen |-> seen]
NoFile == At(Absent, {})
Torn == At(Absent, Alerts)

Init ==
  /\ faults \in Scenarios
  /\ now = 0
  /\ store = [a \in Alerts |-> Absent] /\ copies = [a \in Alerts |-> 0]
  /\ disk = NoFile /\ kept = NoFile /\ ckpt = NoFile
  /\ fresh = {} /\ toShip = {} /\ origin = Absent
  /\ pc = "down"

Indexed == {a \in Alerts : store[a] # Absent}
Latest(S) == CHOOSE t \in {store[a] : a \in S} : \A a \in S : store[a] <= t

(* The sets a search sorted by timestamp may return first, up to size of S. *)
Earliest(S, size) ==
  {P \in SUBSET S : /\ Cardinality(P) = IF Cardinality(S) < size THEN Cardinality(S) ELSE size
                    /\ \A a \in P, b \in S \ P : store[a] <= store[b]}

(* The checkpoint says this alert has been dealt with.                     *)
Covered(c, a) == store[a] < c.ts \/ a \in c.seen
-----------------------------------------------------------------------------
Tick ==
  /\ now < MaxTime
  /\ now' = now + 1
  /\ UNCHANGED <<faults, store, copies, disk, kept, ckpt, fresh, toShip, origin, pc>>

(* Wazuh indexes an alert, with the current timestamp.                     *)
Publish(a) ==
  /\ store[a] = Absent
  /\ \A b \in Alerts : b < a => store[b] # Absent
  /\ Cardinality({b \in Alerts : store[b] = now}) < MaxTie
  /\ store' = [store EXCEPT ![a] = now]
  /\ UNCHANGED <<faults, now, copies, disk, kept, ckpt, fresh, toShip, origin, pc>>

(* load_checkpoint: a first run looks back, a torn file raises.            *)
Load ==
  /\ pc = "down" /\ disk # Torn
  /\ LET start == IF now < Lookback THEN 0 ELSE now - Lookback
         c == IF disk = NoFile THEN At(start, {}) ELSE disk
     IN /\ kept' = c /\ ckpt' = c
        /\ origin' = IF disk = NoFile THEN start ELSE origin
  /\ pc' = "fetching"
  /\ UNCHANGED <<faults, now, store, copies, disk, fresh, toShip>>

(* Mutant: the search asks for alerts after the checkpoint.                *)
MatchesAfter == {a \in Indexed : store[a] > ckpt.ts}

Matches == {a \in Indexed : store[a] >= ckpt.ts}

Fresh(page) == page \ ckpt.seen

(* fetch_alerts: a page, less what was seen at its boundary; an empty page *)
(* ends the cycle, which hands its checkpoint to main.                     *)
Fetch ==
  /\ pc = "fetching"
  /\ \E page \in Earliest(Matches, BatchSize) :
       /\ fresh' = Fresh(page)
       /\ toShip' = fresh'
       /\ pc' = IF fresh' = {} THEN "sleeping" ELSE "shipping"
       /\ kept' = IF fresh' = {} THEN ckpt ELSE kept
  /\ UNCHANGED <<faults, now, store, copies, disk, ckpt, origin>>

(* Mutant: the seen-id list starts anew with every page.                   *)
SeenOnPage(last) == {a \in fresh : store[a] = last}

(* Ids at the new boundary; the old ones too if it has not moved.          *)
SeenAt(last) ==
  {a \in fresh : store[a] = last} \union IF last = ckpt.ts THEN ckpt.seen ELSE {}

(* The chunks a page is shipped in.                                        *)
Chunks == Earliest(toShip, ChunkSize)

Accepted(chunk) ==
  copies' = [a \in Alerts |-> IF a \in chunk /\ copies[a] < MaxCopies
                              THEN copies[a] + 1 ELSE copies[a]]

(* A chunk is accepted; after the last one run_cycle moves its checkpoint. *)
Ship(chunk) ==
  /\ pc = "shipping"
  /\ Accepted(chunk)
  /\ toShip' = toShip \ chunk
  /\ IF toShip' = {}
     THEN ckpt' = At(Latest(fresh), SeenAt(Latest(fresh))) /\ pc' = "saving"
     ELSE UNCHANGED <<ckpt, pc>>
  /\ UNCHANGED <<faults, now, store, disk, kept, fresh, origin>>

(* save_checkpoint: the file is truncated,                                 *)
Truncate ==
  /\ pc = "saving"
  /\ disk' = Torn /\ pc' = "writing"
  /\ UNCHANGED <<faults, now, store, copies, kept, ckpt, fresh, toShip, origin>>

(* then written; a short page ends the cycle.                              *)
Write ==
  /\ pc = "writing"
  /\ disk' = ckpt
  /\ IF Cardinality(fresh) < BatchSize
     THEN pc' = "sleeping" /\ kept' = ckpt
     ELSE pc' = "fetching" /\ UNCHANGED kept
  /\ UNCHANGED <<faults, now, store, copies, ckpt, fresh, toShip, origin>>

Wake ==
  /\ pc = "sleeping"
  /\ ckpt' = kept /\ pc' = "fetching"
  /\ UNCHANGED <<faults, now, store, copies, disk, kept, fresh, toShip, origin>>

(* Mutant: a POST that fails is logged and forgotten.                      *)
ShipFailsUnnoticed ==
  /\ "ship" \in faults /\ pc = "shipping"
  /\ toShip' = {}
  /\ ckpt' = At(Latest(fresh), SeenAt(Latest(fresh))) /\ pc' = "saving"
  /\ UNCHANGED <<faults, now, store, copies, disk, kept, fresh, origin>>

(* A RequestException out of the search or the POST: the cycle is over and *)
(* main keeps the checkpoint it had.                                       *)
FetchFails ==
  /\ "fetch" \in faults /\ pc = "fetching"
  /\ pc' = "sleeping"
  /\ UNCHANGED <<faults, now, store, copies, disk, kept, ckpt, fresh, toShip, origin>>

ShipFails ==
  /\ "ship" \in faults /\ pc = "shipping"
  /\ pc' = "sleeping"
  /\ UNCHANGED <<faults, now, store, copies, disk, kept, ckpt, fresh, toShip, origin>>

(* The chunk is accepted and the answer lost.                              *)
ReplyLost(chunk) ==
  /\ "reply" \in faults /\ pc = "shipping"
  /\ Accepted(chunk)
  /\ pc' = "sleeping"
  /\ UNCHANGED <<faults, now, store, disk, kept, ckpt, fresh, toShip, origin>>

Crash ==
  /\ "crash" \in faults /\ pc # "down"
  /\ pc' = "down"
  /\ UNCHANGED <<faults, now, store, copies, disk, kept, ckpt, fresh, toShip, origin>>
-----------------------------------------------------------------------------
CycleStep ==
  \/ Fetch \/ (\E chunk \in Chunks : Ship(chunk)) \/ Truncate \/ Write \/ Wake

Next ==
  \/ Tick \/ (\E a \in Alerts : Publish(a))
  \/ Load \/ CycleStep
  \/ FetchFails \/ ShipFails \/ (\E chunk \in Chunks : ReplyLost(chunk)) \/ Crash

Spec == Init /\ [][Next]_vars

(* A cycle that runs goes on, and neither the search from a checkpoint nor *)
(* the POST of a page's last chunk fails every time.                       *)
(* (From whichever: main starts a cycle where the last flawless one ended, *)
(* so a second page that never succeeds would repeat the first for ever.)  *)
Fairness ==
  /\ WF_vars(Truncate \/ Write \/ Wake)
  /\ SF_vars(\E chunk \in Chunks : Ship(chunk))
  /\ \A t \in 0..MaxTime :
       /\ SF_vars(Fetch /\ ckpt.ts = t)
       /\ SF_vars((\E chunk \in Chunks : Ship(chunk) /\ pc' = "saving") /\ ckpt.ts = t)

FairSpec == Spec /\ Fairness
-----------------------------------------------------------------------------
Checkpoints == [ts : Absent..MaxTime, seen : SUBSET Alerts]

(* Every variable keeps its type, and a page in hand is still to be         *)
(* covered by the checkpoint until it has been shipped.                    *)
TypeOK ==
  /\ faults \in Scenarios /\ now \in 0..MaxTime
  /\ store \in [Alerts -> Absent..now] /\ copies \in [Alerts -> 0..MaxCopies]
  /\ {disk, kept, ckpt} \subseteq Checkpoints
  /\ toShip \subseteq fresh /\ fresh \subseteq Indexed
  /\ origin \in Absent..now
  /\ pc \in {"down", "fetching", "shipping", "saving", "writing", "sleeping"}
  /\ pc = "shipping" => \A a \in fresh : ~Covered(ckpt, a)

(* "the checkpoint only advances after ARGUS accepts the batch": no alert  *)
(* a checkpoint on disk or in memory passes by is unknown to ARGUS,        *)
(* whatever failed and whenever it crashed.                                *)
AtLeastOnce ==
  \A a \in Indexed : \A c \in {disk, kept, ckpt} \ {NoFile, Torn} :
    origin <= store[a] /\ Covered(c, a) => copies[a] > 0

(* "Boundary duplicates are filtered": as long as nothing fails, no alert  *)
(* is shipped twice.                                                       *)
ShippedOnce == faults = {} => \A a \in Alerts : copies[a] <= 1

(* A collector that runs has, again and again, shipped all there is since  *)
(* it first started, whatever search or POST fails, when no timestamp      *)
(* fills a page (MaxTie < BatchSize) and no crash tears the file.  What is *)
(* shipped stays shipped, so no alert is left behind.                      *)
EveryAlertShipped ==
  (pc # "down" /\ "crash" \notin faults)
    ~> \A a \in Indexed : origin <= store[a] => copies[a] > 0
=============================================================================
