------------------------- MODULE EvidenceLifecycle -------------------------
(***************************************************************************)
(* A tenant's evidence_objects: rebuilt by correlate_tenant (services/     *)
(* correlation.py), which the debounce timer and POST /evidence/correlate  *)
(* may run at the same time, and triaged by PATCH /evidence/{id}           *)
(* (api/v1/endpoints/evidence.py).                                         *)
(*                                                                         *)
(* Every caller is a READ COMMITTED transaction: `objs' is the committed   *)
(* table, each statement sees what is committed when it starts, and a      *)
(* DELETE or UPDATE that meets a row another transaction has deleted waits *)
(* for it and looks at the row again.  One action is one statement.        *)
(***************************************************************************)
EXTENDS Clustering

CONSTANTS
  Windows,      \* values of window_minutes
  Correlators,  \* transactions that may be inside correlate_tenant
  Analysts,     \* PATCH requests that may be in flight
  Statuses,     \* what an analyst sets: "triaged" (any non-open), "open"
  Ids           \* evidence ids; one that nobody refers to any more may name a new row

ASSUME EvidenceAssumption ==
  /\ Windows \subseteq Nat
  /\ Statuses \subseteq {"open", "triaged"}
  /\ Ids # {} /\ IsFiniteSet(Ids)

VARIABLES
  events,   \* technique-bearing events committed so far
  objs,     \* evidence_objects, by id
  corr,     \* per correlator, the locals of correlate_tenant
  patch     \* per analyst, the locals of set_evidence_status

vars == <<events, objs, corr, patch>>

Alive(id) == objs[id].status # "none"
Open(id) == objs[id].status = "open"
Triaged(id) == Alive(id) /\ ~Open(id)
-----------------------------------------------------------------------------
Fresh(c) == [host |-> c.host, start |-> c.start, end |-> c.end, status |-> "open"]

NoObject == [host |-> 0, start |-> 0, end |-> 0, status |-> "none"]

Resting == [pc |-> "idle", clusters |-> {}, targets |-> {}, deleted |-> {}, triaged |-> {}]

NoPatch == [pc |-> "idle", id |-> CHOOSE id \in Ids : TRUE, status |-> "open"]

Init ==
  /\ events = {}
  /\ objs = [id \in Ids |-> NoObject]
  /\ corr = [k \in Correlators |-> Resting]
  /\ patch = [a \in Analysts |-> NoPatch]

(* Row locks: an uncommitted DELETE owns the rows it has deleted.          *)
LockedBy(k, id) == id \in corr[k].deleted
-----------------------------------------------------------------------------
(* An ingest commits a technique-bearing event, in any order of event_time.*)
Ingest(e) ==
  /\ e \notin events
  /\ events' = events \union {e}
  /\ UNCHANGED <<objs, corr, patch>>

(* The SELECT and the walk; without rows correlate_tenant returns 0.       *)
Read(k) ==
  /\ corr[k].pc = "idle"
  /\ events # {}
  /\ \E window \in Windows :
       corr' = [corr EXCEPT ![k] = [Resting EXCEPT !.pc = "read",
                                      !.clusters = Clusters(events, window)]]
  /\ UNCHANGED <<events, objs, patch>>

(* DELETE ... WHERE status = 'open': the statement's snapshot,             *)
DeleteStarts(k) ==
  /\ corr[k].pc = "read"
  /\ corr' = [corr EXCEPT ![k] =
       [@ EXCEPT !.pc = "deleting", !.targets = {id \in Ids : Open(id)}]]
  /\ UNCHANGED <<events, objs, patch>>

(* Mutant: the rows of the snapshot are deleted as they were seen.         *)
DeleteEndsUnchecked(k) ==
  /\ corr[k].pc = "deleting"
  /\ \A id \in corr[k].targets, j \in Correlators \ {k} : ~LockedBy(j, id)
  /\ corr' = [corr EXCEPT ![k] =
       [@ EXCEPT !.pc = "deleted", !.targets = {}, !.deleted = corr[k].targets]]
  /\ UNCHANGED <<events, objs, patch>>

(* and its rows, once nobody else holds them, if they are still open.      *)
DeleteEnds(k) ==
  /\ corr[k].pc = "deleting"
  /\ \A id \in corr[k].targets, j \in Correlators \ {k} : ~LockedBy(j, id)
  /\ corr' = [corr EXCEPT ![k] =
       [@ EXCEPT !.pc = "deleted", !.targets = {},
                 !.deleted = {id \in corr[k].targets : Open(id)}]]
  /\ UNCHANGED <<events, objs, patch>>

(* The SELECT of what analysts have triaged.                               *)
ReadTriaged(k) ==
  /\ corr[k].pc = "deleted"
  /\ corr' = [corr EXCEPT ![k] =
       [@ EXCEPT !.pc = "writing", !.triaged = {objs[id] : id \in {i \in Ids : Triaged(i)}}]]
  /\ UNCHANGED <<events, objs, patch>>

(* Mutant: only a triaged object with the very same window counts.         *)
AlreadyTriagedExactly(k, c) ==
  \E t \in corr[k].triaged : t.host = c.host /\ t.start = c.start /\ t.end = c.end

(* Mutant: a triaged window of another host counts.                        *)
AlreadyTriagedAnyHost(k, c) ==
  \E t \in corr[k].triaged : c.start <= t.end /\ c.end >= t.start

(* _already_triaged                                                        *)
AlreadyTriaged(k, c) == \E t \in corr[k].triaged : Overlaps(c, t)

Written(k) == {c \in corr[k].clusters : ~AlreadyTriaged(k, c)}

(* Ids for new rows: not in the table and not in the hands of a request.   *)
Unused(inUse) ==
  {id \in Ids \ inUse : /\ ~Alive(id)
                        /\ \A a \in Analysts : patch[a].pc = "read" => patch[a].id # id
                        /\ \A k \in Correlators : id \notin corr[k].targets}

(* The INSERTs and the COMMIT (embed_evidence runs in the same             *)
(* transaction and touches nothing a correlator or an analyst reads).      *)
Commit(k, inUse) ==
  /\ corr[k].pc = "writing"
  /\ \E f \in [Written(k) -> Unused(inUse)] : IsInjective(f)
  /\ LET row == CHOOSE f \in [Written(k) -> Unused(inUse)] : IsInjective(f)
         new == [id \in Range(row) |-> Fresh(CHOOSE c \in Written(k) : row[c] = id)]
     IN objs' = [id \in Ids |->
          CASE LockedBy(k, id)   -> NoObject
            [] id \in DOMAIN new -> new[id]
            [] OTHER             -> objs[id]]
  /\ corr' = [corr EXCEPT ![k] = Resting]
  /\ UNCHANGED <<events, patch>>

(* An error, a cancelled task or a crash undoes the transaction.           *)
Rollback(k) ==
  /\ corr[k].pc # "idle"
  /\ corr' = [corr EXCEPT ![k] = Resting]
  /\ UNCHANGED <<events, objs, patch>>
-----------------------------------------------------------------------------
(* PATCH: session.get, 404 when the row is gone,                           *)
PatchReads(a, id, status) ==
  /\ patch[a].pc = "idle"
  /\ Alive(id)
  /\ patch' = [patch EXCEPT ![a] = [pc |-> "read", id |-> id, status |-> status]]
  /\ UNCHANGED <<events, objs, corr>>

(* then the UPDATE by id and COMMIT: a row deleted since is StaleDataError.*)
PatchWrites(a) ==
  LET id == patch[a].id IN
  /\ patch[a].pc = "read"
  /\ \A k \in Correlators : ~LockedBy(k, id)
  /\ objs' = IF Alive(id) THEN [objs EXCEPT ![id].status = patch[a].status] ELSE objs
  /\ patch' = [patch EXCEPT ![a] = NoPatch]
  /\ UNCHANGED <<events, corr>>
-----------------------------------------------------------------------------
CorrelateStep(k, inUse) ==
  \/ Read(k) \/ DeleteStarts(k) \/ DeleteEnds(k) \/ ReadTriaged(k)
  \/ Commit(k, inUse) \/ Rollback(k)

PatchStep(a) ==
  \/ \E id \in Ids, status \in Statuses : PatchReads(a, id, status)
  \/ PatchWrites(a)

(* inUse: the ids that requests of other modules still hold.               *)
EvidenceStep(inUse) ==
  \/ \E e \in Events : Ingest(e)
  \/ \E k \in Correlators : CorrelateStep(k, inUse)
  \/ \E a \in Analysts : PatchStep(a)

Next == EvidenceStep({})

Spec == Init /\ [][Next]_vars
-----------------------------------------------------------------------------
Times == {TimeOf[e] : e \in Events}

Objects == [host : {HostOf[e] : e \in Events}, start : Times, end : Times,
            status : {"open", "triaged"}]

Windowed == [host : {HostOf[e] : e \in Events}, start : Times, end : Times,
             events : SUBSET Events]

(* Every variable keeps its type.                                          *)
TypeOK ==
  /\ events \subseteq Events
  /\ objs \in [Ids -> Objects \union {NoObject}]
  /\ corr \in [Correlators ->
       [pc : {"idle", "read", "deleting", "deleted", "writing"},
        clusters : SUBSET Windowed, targets : SUBSET Ids,
        deleted : SUBSET Ids, triaged : SUBSET Objects]]
  /\ patch \in [Analysts -> [pc : {"idle", "read"}, id : Ids, status : {"open", "triaged"}]]

(* The walk over sorted rows cuts each host's events exactly where a       *)
(* silence exceeds the window, whatever order they were ingested in.       *)
ClustersAreChains ==
  \A window \in Windows :
    LET clusters == Clusters(events, window)
    IN  \A e, f \in events :
          (\E c \in clusters : {e, f} \subseteq c.events) <=> Together(events, window, e, f)

(* "rerun replaces, does not duplicate": no minute of a host's activity is *)
(* described by two evidence objects.                                      *)
NoDuplicates ==
  \A i, j \in Ids : Alive(i) /\ Alive(j) /\ i # j => ~Overlaps(objs[i], objs[j])

(* "triaged ones are left alone": correlation never deletes an object an   *)
(* analyst has triaged, even one triaged while the DELETE was running.     *)
TriagedSurvive == [][\A id \in Ids : Triaged(id) => Alive(id)']_vars

(* "their host/window is not resurrected as a fresh open alert": no new     *)
(* object overlaps one that is triaged when the object appears.            *)
NotResurrected ==
  [][\A id, t \in Ids : ~Alive(id) /\ Alive(id)' /\ Triaged(t)
       => ~Overlaps(objs'[id], objs[t])]_vars

Holds(o, e) == o.host = HostOf[e] /\ o.start <= TimeOf[e] /\ TimeOf[e] <= o.end

Answered(e, c) ==
  \E id \in Ids : \/ Alive(id) /\ Holds(objs[id], e)
                  \/ Triaged(id) /\ Overlaps(objs[id], c)

AnswersAll(k) ==
  corr'[k] = Resting /\ (\E inUse \in SUBSET Ids : Commit(k, inUse)) =>
    \A c \in corr[k].clusters : \A e \in c.events : Answered(e, c)'

(* A pass that commits leaves no event it has read without an answer: it   *)
(* lies in the window of an object, or its burst of activity touches one   *)
(* that is triaged, and still is although the analysts went on meanwhile.  *)
(* (Nobody runs a pass that was rolled back again before the next ingest.) *)
PassesAnswer == [][\A k \in Correlators : AnswersAll(k)]_vars

(* "open objects are replaced": an alert nobody has looked at goes only    *)
(* when every event in its window is in that of another object.            *)
AlertsAreReplaced ==
  [][\A id \in Ids : Open(id) /\ ~Alive(id)' =>
       \A e \in events : Holds(objs[id], e) =>
         \E j \in Ids : Alive(j)' /\ Holds(objs'[j], e)]_vars
=============================================================================
