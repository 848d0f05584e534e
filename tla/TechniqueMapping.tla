-------------------------- MODULE TechniqueMapping --------------------------
(***************************************************************************)
(* The event_techniques table and its three writers: ingestion tags an     *)
(* event in the transaction that stores it (services/mitre.py), the AI     *)
(* classifier tags what it found untagged in one transaction held open     *)
(* while it waits for the model (services/ai_classifier.py), and an        *)
(* operator's script wipes the rule tags and rebuilds them batch by batch  *)
(* (scripts/reclassify.py).  Every insert is ON CONFLICT DO NOTHING, which *)
(* waits for the transaction that holds the same (event, technique).       *)
(***************************************************************************)
EXTENDS TechniqueRules

CONSTANTS
  Events,         \* ids in the order of their sequence; they commit in any order
  ContentOf,      \* the stored fields of each event
  VendorIdsOf,    \* extract_vendor_technique_ids of each event
  TimeOf,         \* event_time of each event, all different
  DeployedOf,     \* what the rules make of each event that the process was deployed with:
                  \* <<technique, confidence>>, which need not be what they say by now
  Catalogue,      \* technique ids of mitre_techniques
  Cap,            \* ai_classify_confidence_cap
  MaxSignatures,  \* ai_classify_max_signatures
  ScanLimit,      \* _SCAN_LIMIT
  Replies,        \* what the model may reply: sequences of <<technique, confidence>>
  Infinite,       \* a confidence too large for a float, as 1e999 in JSON
  Batch,          \* BATCH of the script
  AiRuns,         \* requests to POST /mitre/ai-classify
  script,         \* the process of the operator's script
  MaxFaults       \* bound on connections lost, restarts and failed linkings

ASSUME TechniqueMappingAssumption ==
  /\ Events \subseteq Nat \ {0} /\ IsFiniteSet(Events)
  /\ Batch \in Nat \ {0} /\ {MaxSignatures, ScanLimit, MaxFaults} \subseteq Nat
  /\ \A reply \in Replies : IsFiniteSet(DOMAIN reply)
  /\ \A e \in Events : \A m, n \in DeployedOf[e] : m[1] = n[1] => m = n
  /\ script \notin AiRuns

VARIABLES
  stored,   \* events whose ingest has committed
  tags,     \* committed rows of event_techniques
  pc,       \* what each writer is doing
  todo,     \* rows it has still to insert in its transaction, in order
  rows,     \* rows it has inserted and not yet committed
  groups,   \* AI run: sets of events of one signature, still to be asked about
  lastId,   \* script: last_id
  began,    \* events stored when the script wiped the tags
  faults

vars == <<stored, tags, pc, todo, rows, groups, lastId, began, faults>>

Writers == AiRuns \union {script}

(* The sequences of all of S that Before allows.                           *)
Orders(S, Before(_, _)) ==
  {s \in [1 .. Cardinality(S) -> S] :
     IsInjective(s) /\ \A i, j \in DOMAIN s : i < j => ~Before(s[j], s[i])}

Row(e, technique, source, confidence) ==
  [event |-> e, technique |-> technique, source |-> source, confidence |-> confidence]

SameKey(r, s) == r.event = s.event /\ r.technique = s.technique

Tagged(e) == \E t \in tags : t.event = e

Init ==
  /\ stored = {} /\ tags = {} /\ began = {}
  /\ pc = [w \in Writers |-> "idle"]
  /\ todo = [w \in Writers |-> <<>>]
  /\ rows = [w \in Writers |-> {}]
  /\ groups = [a \in AiRuns |-> <<>>]
  /\ lastId = 0 /\ faults = 0
-----------------------------------------------------------------------------
(***************************************************************************)
(* map_techniques: vendor ids win, the rules fill the gap.                 *)
(***************************************************************************)
RuleRows == [e \in Events |->
               {Row(e, m[1], "rules", m[2]) : m \in Classify(ContentOf[e])}]

IngestRows(e) ==
  IF VendorIdsOf[e] # {}
  THEN {Row(e, technique, "vendor", 100) : technique \in VendorIdsOf[e]}
  ELSE {Row(e, m[1], "rules", m[2]) : m \in DeployedOf[e]}

(* An event and its tags commit together; if the savepoint of the linking  *)
(* fails the event is stored without any.                                  *)
Ingest(e) ==
  /\ e \notin stored
  /\ stored' = stored \union {e}
  /\ \/ tags' = tags \union IngestRows(e) /\ UNCHANGED faults
     \/ faults < MaxFaults /\ faults' = faults + 1 /\ UNCHANGED tags
  /\ UNCHANGED <<pc, todo, rows, groups, lastId, began>>
-----------------------------------------------------------------------------
(***************************************************************************)
(* The transaction of a writer, row by row.                                *)
(***************************************************************************)
Holders(r) == {w \in Writers : \E s \in rows[w] : SameKey(r, s)}

WaitsFor(w, v) ==
  /\ todo[w] # <<>>
  /\ v # w /\ v \in Holders(Head(todo[w]))

(* INSERT ... ON CONFLICT DO NOTHING.                                      *)
Insert(w) ==
  LET r == Head(todo[w])
  IN  /\ todo[w] # <<>> /\ Holders(r) \subseteq {w}
      /\ todo' = [todo EXCEPT ![w] = Tail(@)]
      /\ rows' = [rows EXCEPT ![w] = IF \E s \in tags \union @ : SameKey(r, s)
                                     THEN @ ELSE @ \union {r}]
      /\ UNCHANGED <<stored, tags, pc, groups, lastId, began, faults>>

Commit(w) ==
  /\ tags' = tags \union rows[w]
  /\ rows' = [rows EXCEPT ![w] = {}]

Rollback(w) ==
  /\ rows' = [rows EXCEPT ![w] = {}]
  /\ todo' = [todo EXCEPT ![w] = <<>>]
-----------------------------------------------------------------------------
(***************************************************************************)
(* reclassify.py.                                                          *)
(***************************************************************************)
(* Mutant: a tag whose technique the rules still find is left alone.       *)
WipeOutdated ==
  /\ pc[script] \in {"idle", "failed"}
  /\ pc' = [pc EXCEPT ![script] = "scanning"]
  /\ tags' = {t \in tags : t.source # "rules" \/ \E r \in RuleRows[t.event] : SameKey(r, t)}
  /\ lastId' = 0 /\ began' = stored
  /\ UNCHANGED <<stored, todo, rows, groups, faults>>

(* Mutant: the tags of the AI go as well.                                  *)
WipeAll ==
  /\ pc[script] \in {"idle", "failed"}
  /\ pc' = [pc EXCEPT ![script] = "scanning"]
  /\ tags' = {t \in tags : t.source = "vendor"}
  /\ lastId' = 0 /\ began' = stored
  /\ UNCHANGED <<stored, todo, rows, groups, faults>>

(* The operator runs the script, or runs it again after it failed: all     *)
(* tags of the rules are deleted, and that is committed.                   *)
Wipe ==
  /\ pc[script] \in {"idle", "failed"}
  /\ pc' = [pc EXCEPT ![script] = "scanning"]
  /\ tags' = {t \in tags : t.source # "rules"}
  /\ lastId' = 0 /\ began' = stored
  /\ UNCHANGED <<stored, todo, rows, groups, faults>>

Page == LET rest == {e \in stored : e > lastId}
        IN  {e \in rest : Cardinality({d \in rest : d <= e}) <= Batch}

(* Mutant: vendor tags do not keep the rules away.                         *)
ScriptRowsOfAll(e) == RuleRows[e]

ScriptRows(e) == IF VendorIdsOf[e] # {} THEN {} ELSE RuleRows[e]

Reached(page) == Max(page)

(* One batch is read, in the transaction that will write its tags: in the  *)
(* order of the events, and for one event in any.                          *)
Scan ==
  /\ pc[script] = "scanning" /\ Page # {}
  /\ \E order \in Orders(UNION {ScriptRows(e) : e \in Page}, LAMBDA r, s : r.event < s.event) :
       todo' = [todo EXCEPT ![script] = order]
  /\ lastId' = Reached(Page)
  /\ pc' = [pc EXCEPT ![script] = "writing"]
  /\ UNCHANGED <<stored, tags, rows, groups, began, faults>>

CommitBatch ==
  /\ pc[script] = "writing" /\ todo[script] = <<>>
  /\ Commit(script)
  /\ pc' = [pc EXCEPT ![script] = "scanning"]
  /\ UNCHANGED <<stored, todo, groups, lastId, began, faults>>

(* No rows left: the script rebuilds the open evidence and ends.           *)
Done ==
  /\ pc[script] = "scanning" /\ Page = {}
  /\ pc' = [pc EXCEPT ![script] = "done"]
  /\ UNCHANGED <<stored, tags, todo, rows, groups, lastId, began, faults>>
-----------------------------------------------------------------------------
(***************************************************************************)
(* classify_tenant.                                                        *)
(***************************************************************************)
Signature == [e \in Events |->
  LET c == ContentOf[e]
  IN  <<c.category, c.event_id, c.process_image, c.parent_image, c.command_line,
        c.registry_target>>]

(* An event of which none of the fields the model is shown says anything   *)
(* is not asked about.                                                     *)
Described(e) ==
  \E field \in DOMAIN ContentOf[e] \ {"provider", "details"} : ContentOf[e][field] # {}

Newer(d, e) == TimeOf[d] > TimeOf[e]

(* The untagged events by signature, the largest group first and, of two   *)
(* that are equally large, the one with the most recent event.             *)
Groups(untagged) == {{d \in untagged : Signature[d] = Signature[e]} : e \in untagged}

Larger(s, t) ==
  \/ Cardinality(s) > Cardinality(t)
  \/ Cardinality(s) = Cardinality(t) /\ \E e \in s : \A d \in t : Newer(e, d)

Ranked(untagged) ==
  {SubSeq(ranking, 1, Min({Len(ranking), MaxSignatures})) :
     ranking \in Orders(Groups(untagged), Larger)}

(* The most recent untagged events, no more than the run looks through.    *)
Unclassified ==
  LET untagged == {e \in stored : ~Tagged(e)}
  IN  {e \in untagged : Cardinality({d \in untagged : Newer(d, e)}) < ScanLimit}

BeginAi(a) ==
  /\ pc[a] = "idle"
  /\ pc' = [pc EXCEPT ![a] = "asking"]
  /\ \E ranking \in Ranked({e \in Unclassified : Described(e)}) :
       groups' = [groups EXCEPT ![a] = ranking]
  /\ UNCHANGED <<stored, tags, todo, rows, lastId, began, faults>>

(* What is proposed of a signature goes to every event of its group, the   *)
(* most recent event first.                                                *)
FannedOut(group, reply) ==
  {[n \in DOMAIN order |->
      LET item == reply[order[n][2]]
      IN  Row(order[n][1], item[1], "ai", Clamped(item[2], Cap))] :
     order \in Orders(group \X Proposed(reply, Catalogue),
                      LAMBDA x, y : Newer(x[1], y[1]) \/ (x[1] = y[1] /\ x[2] < y[2]))}

(* int() of an infinite number is an error that parse_proposals does not   *)
(* catch.                                                                  *)
Overflows(reply) == \E i \in Proposed(reply, Catalogue) : reply[i][2] = Infinite

(* The model answers about the next signature.                             *)
Answer(a, reply) ==
  /\ pc[a] = "asking" /\ todo[a] = <<>> /\ groups[a] # <<>> /\ ~Overflows(reply)
  /\ \E order \in FannedOut(Head(groups[a]), reply) : todo' = [todo EXCEPT ![a] = order]
  /\ groups' = [groups EXCEPT ![a] = Tail(@)]
  /\ UNCHANGED <<stored, tags, pc, rows, lastId, began, faults>>

(* The provider raises: the signature is skipped.                          *)
ProviderFails(a) ==
  /\ pc[a] = "asking" /\ todo[a] = <<>> /\ groups[a] # <<>>
  /\ groups' = [groups EXCEPT ![a] = Tail(@)]
  /\ UNCHANGED <<stored, tags, pc, todo, rows, lastId, began, faults>>

EndAi(a) ==
  /\ pc[a] = "asking" /\ todo[a] = <<>> /\ groups[a] = <<>>
  /\ Commit(a)
  /\ pc' = [pc EXCEPT ![a] = "done"]
  /\ UNCHANGED <<stored, todo, groups, lastId, began, faults>>
-----------------------------------------------------------------------------
(* A writer loses its transaction.                                         *)
Aborts(w) ==
  /\ Rollback(w)
  /\ pc' = [pc EXCEPT ![w] = "failed"]
  /\ groups' = [a \in AiRuns |-> IF a = w THEN <<>> ELSE groups[a]]
  /\ UNCHANGED <<stored, tags, lastId, began>>

(* Connection lost, process killed.                                        *)
Dies(w) ==
  /\ pc[w] \in {"scanning", "writing", "asking"} /\ faults < MaxFaults
  /\ faults' = faults + 1
  /\ Aborts(w)

(* The reply cannot be parsed: all the run has written is lost.            *)
ParsingFails(a, reply) ==
  /\ pc[a] = "asking" /\ todo[a] = <<>> /\ groups[a] # <<>> /\ Overflows(reply)
  /\ Aborts(a)
  /\ UNCHANGED faults

(* Mutant: nobody breaks the circle.                                       *)
VictimWaits(w) ==
  /\ \E v \in Writers : WaitsFor(w, v) /\ WaitsFor(v, w)
  /\ UNCHANGED vars

(* Two writers wait for each other: the database aborts one of them.       *)
Victim(w) ==
  /\ \E v \in Writers : WaitsFor(w, v) /\ WaitsFor(v, w)
  /\ Aborts(w)
  /\ UNCHANGED faults

ScriptStep == Wipe \/ Scan \/ CommitBatch \/ Done

AiStep(a) ==
  \/ \E reply \in Replies : Answer(a, reply) \/ ParsingFails(a, reply)
  \/ ProviderFails(a)
  \/ EndAi(a)

Next ==
  \/ \E e \in Events : Ingest(e)
  \/ ScriptStep
  \/ \E a \in AiRuns : BeginAi(a) \/ AiStep(a)
  \/ \E w \in Writers : Insert(w) \/ Dies(w) \/ Victim(w)

Spec == Init /\ [][Next]_vars

(* The operator runs a failed script again, a request that has begun runs  *)
(* on, a deadlock is noticed; nobody has to ingest or to ask the AI.  An   *)
(* insert that waits is first in line when the lock is released: strong    *)
(* fairness, or a script run again and again could starve it for ever.     *)
Fairness ==
  /\ WF_vars(ScriptStep) /\ SF_vars(Insert(script))
  /\ \A a \in AiRuns : WF_vars(AiStep(a)) /\ SF_vars(Insert(a))
  /\ WF_vars(\E w \in Writers : Victim(w))

FairSpec == Spec /\ Fairness
-----------------------------------------------------------------------------
(* Every variable keeps its type.                                          *)
TypeOK ==
  /\ stored \subseteq Events /\ began \subseteq stored
  /\ tags \subseteq [event : Events, technique : STRING,
                     source : {"vendor", "rules", "ai"}, confidence : 1..100]
  /\ pc \in [Writers -> {"idle", "scanning", "writing", "asking", "done", "failed"}]
  /\ lastId \in Nat /\ faults \in 0..MaxFaults

(* ADR 0009, vendor ids first: an event that carries a vendor mapping      *)
(* carries no other, however often the rules are run again and whatever    *)
(* the model proposes about it meanwhile.                                  *)
VendorStandsAlone ==
  \A t \in tags : t.source = "vendor" => \A u \in tags : u.event = t.event => u.source = "vendor"

(* When the script is done every event it found carries what the rules say *)
(* of it now, if not as a tag of the rules then as one of the AI that got  *)
(* there first; and no tag is left that only older rules would give it, in *)
(* its technique or its confidence.                                        *)
RebuiltWhole ==
  pc[script] = "done" =>
    \A e \in began :
      /\ \A r \in ScriptRows(e) : \E t \in tags : SameKey(t, r)
      /\ \A t \in tags : t.event = e /\ t.source = "rules" => t \in RuleRows[e]

(* A committed mapping keeps its source and confidence for good; only the  *)
(* wipe takes mappings away, and only those of the rules.                  *)
TagsKeepTheirSource ==
  [][\A t \in tags : t \in tags' \/ (t.source = "rules" /\ pc'[script] = "scanning")]_vars

(* Rule tags that the script has wiped come back, whatever fails on the    *)
(* way, once the operator has run it to the end.                           *)
TagsComeBack == (pc[script] = "scanning") ~> (pc[script] = "done")
=============================================================================
