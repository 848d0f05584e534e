---------------------------- MODULE CaseWorkflow ----------------------------
(***************************************************************************)
(* Cases (api/v1/endpoints/cases.py): analysts group evidence objects that *)
(* correlation may be replacing at the same moment.  Each request is one   *)
(* transaction: it reads, then writes and commits.  case_evidence has      *)
(* (case_id, evidence_id) as its key and goes with its object.             *)
(***************************************************************************)
EXTENDS EvidenceLifecycle

CONSTANTS
  Cases,      \* case ids
  Flow,       \* of the statuses new, investigating, contained, resolved, closed
  Requests    \* create and attach requests that may be in flight

ASSUME FlowAssumption ==
  "new" \in Flow /\ Flow \subseteq {"new", "investigating", "contained", "resolved", "closed"}

VARIABLES
  status,     \* per case: its workflow status, "none" before it is created
  links,      \* case_evidence
  req         \* per request, its locals

caseVars == <<status, links, req>>

Ready == [pc |-> "idle", case |-> CHOOSE c \in Cases : TRUE, ids |-> {}, existing |-> FALSE]

CaseInit ==
  /\ status = [c \in Cases |-> "none"]
  /\ links = {}
  /\ req = [r \in Requests |-> Ready]

(* Inserting a link waits for an uncommitted DELETE of its object.         *)
CanLink(ids) == \A id \in ids, k \in Correlators : ~LockedBy(k, id)
-----------------------------------------------------------------------------
(* POST /cases: every evidence id must be found, else 404; c is the id the *)
(* sequence hands out, to one request only.                                *)
CreateReads(r, c, ids) ==
  /\ req[r].pc = "idle"
  /\ status[c] = "none" /\ \A q \in Requests : req[q].pc = "creating" => req[q].case # c
  /\ \A id \in ids : Alive(id)
  /\ req' = [req EXCEPT ![r] = [Ready EXCEPT !.pc = "creating", !.case = c, !.ids = ids]]
  /\ UNCHANGED <<vars, status, links>>

(* The case and its links, or, when an object has gone, neither.           *)
CreateWrites(r) ==
  LET c == req[r].case
      ids == req[r].ids
  IN  /\ req[r].pc = "creating"
      /\ CanLink(ids)
      /\ req' = [req EXCEPT ![r] = Ready]
      /\ IF \A id \in ids : Alive(id)
         THEN /\ status' = [status EXCEPT ![c] = "new"]
              /\ links' = links \union ({c} \X ids)
         ELSE UNCHANGED <<status, links>>
      /\ UNCHANGED vars

(* PATCH /cases/{id}: any status of the vocabulary.                        *)
Update(c, s) ==
  /\ status[c] # "none"
  /\ status' = [status EXCEPT ![c] = s]
  /\ UNCHANGED <<vars, links, req>>

(* POST /cases/{id}/evidence: case, object and existing link are read,     *)
AttachReads(r, c, id) ==
  /\ req[r].pc = "idle"
  /\ status[c] # "none" /\ Alive(id)
  /\ req' = [req EXCEPT ![r] = [pc |-> "attaching", case |-> c, ids |-> {id},
                                existing |-> <<c, id>> \in links]]
  /\ UNCHANGED <<vars, status, links>>

(* and the link inserted unless it was there: 500 when another request     *)
(* inserted it meanwhile or the object is gone.                            *)
AttachWrites(r) ==
  LET new == {req[r].case} \X req[r].ids IN
  /\ req[r].pc = "attaching"
  /\ req[r].existing \/ CanLink(req[r].ids)
  /\ IF ~req[r].existing /\ new \subseteq links
     THEN req' = [req EXCEPT ![r].pc = "conflict"] /\ UNCHANGED links
     ELSE /\ req' = [req EXCEPT ![r] = Ready]
          /\ links' = IF ~req[r].existing /\ \A id \in req[r].ids : Alive(id)
                      THEN links \union new ELSE links
  /\ UNCHANGED <<vars, status>>

(* Mutant: links stay when their object goes.                              *)
UnlinkNothing == UNCHANGED links

(* ON DELETE CASCADE.                                                      *)
Unlink == links' = {l \in links : objs'[l[2]].status # "none"}

HeldByRequests == UNION {req[r].ids : r \in Requests}

CaseStep ==
  \/ \E r \in Requests : CreateWrites(r) \/ AttachWrites(r)
  \/ \E r \in Requests, c \in Cases, ids \in SUBSET Ids : CreateReads(r, c, ids)
  \/ \E r \in Requests, c \in Cases, id \in Ids : AttachReads(r, c, id)
  \/ \E c \in Cases, s \in Flow : Update(c, s)
-----------------------------------------------------------------------------
CaseTypeOK ==
  /\ status \in [Cases -> {"none"} \union Flow]
  /\ links \subseteq Cases \X Ids
  /\ req \in [Requests -> [pc : {"idle", "creating", "attaching", "conflict"}, case : Cases,
                           ids : SUBSET Ids, existing : BOOLEAN]]

(* A case never links an object that is gone, even when attach and         *)
(* correlation cross.                                                      *)
LinksHaveEvidence == \A l \in links : status[l[1]] # "none" /\ Alive(l[2])
=============================================================================
