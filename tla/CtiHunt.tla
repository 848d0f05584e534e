------------------------------ MODULE CtiHunt ------------------------------
(***************************************************************************)
(* Hunting a tenant's own indicators (argus/services/cti_hunt.py): every   *)
(* indicator is looked up (IntelLookup), a few at a time, and those that   *)
(* are leads are upserted into hunt_findings.  POST /cti/hunt and the      *)
(* sweep of services/auto_hunt.py may hunt one tenant at the same time.    *)
(*                                                                         *)
(* Indicators are those of one tenant that are within the limit of         *)
(* _collect_indicators; equally confident hits may come in any order (ties *)
(* in local_events keep the order in which the lookups came back).  The    *)
(* lookups that are not a hunter's are POST /cti/lookup.                   *)
(***************************************************************************)
EXTENDS IntelLookup, FiniteSets

CONSTANTS
  Hunters,      \* who may be hunting at the same time
  Fickle,       \* bound: indicators about which providers may change their mind
  Concurrency,  \* _CONCURRENCY, lookups of one hunt in flight
  Threshold     \* _is_lead: the least confidence that makes a lead

ASSUME HuntAssumption ==
  /\ Hunters \X Indicators \subseteq Lookups
  /\ \A h \in Hunters, i \in Indicators : IndicatorsOf[<<h, i>>] = <<i>>
  /\ IsFiniteSet(Indicators) /\ Fickle \subseteq Indicators
  /\ Concurrency \in Nat \ {0} /\ Threshold \in 1 .. Top

VARIABLES
  findings,  \* hunt_findings: key -> the confidence it was last flagged with
  hunt       \* per hunter, hunt_indicators and then persist_hits

huntVars == <<findings, hunt>>
vars == <<lookVars, huntVars>>

NoHunt == [pc |-> "idle", left |-> {}, hits |-> <<>>, queue |-> <<>>, written |-> {}]

Init ==
  /\ LookInit
  /\ findings = <<>>
  /\ hunt = [h \in Hunters |-> NoHunt]

Of(h) == {h} \X Indicators
Requests == Lookups \ (Hunters \X Indicators)
InFlight(h) == {l \in Of(h) : Running(l)}

(* The findings of h's lookups that are leads.                             *)
Leads(h) ==
  UNION {{<<k, look[l].found[k].level>> :
            k \in {q \in DOMAIN look[l].found : look[l].found[q].level >= Threshold}} : l \in Of(h)}

Hits(h) == [k \in {lead[1] : lead \in Leads(h)} |-> (CHOOSE lead \in Leads(h) : lead[1] = k)[2]]

(* hits.sort(key=..., reverse=True), and each hit's findings in the order  *)
(* of the providers.                                                       *)
Best(hits, i) == CHOOSE c \in Levels :
  /\ \E k \in DOMAIN hits : k[2] = i /\ hits[k] = c
  /\ \A k \in DOMAIN hits : k[2] = i => hits[k] <= c

Before(hits, k, q) ==
  IF k[2] = q[2] THEN IndexFirstSubSeq(<<k[1]>>, Providers) < IndexFirstSubSeq(<<q[1]>>, Providers)
  ELSE Best(hits, k[2]) >= Best(hits, q[2])

Orders(hits) ==
  {order \in SetToSeqs(DOMAIN hits) :
     \A m, n \in DOMAIN order : m < n =>
       /\ Before(hits, order[m], order[n])
       /\ \A o \in m .. n : order[m][2] = order[n][2] => order[o][2] = order[m][2]}
-----------------------------------------------------------------------------
Tick == LookTick /\ UNCHANGED huntVars

(* A provider changes its mind about an indicator.                         *)
ProviderTurns(k) ==
  /\ k[2] \in Fickle
  /\ \E c \in Levels \ {verdict[k]} : verdict' = [verdict EXCEPT ![k] = c]
  /\ UNCHANGED <<cache, look, huntVars>>

(* _collect_indicators.                                                    *)
Begin(h) ==
  /\ hunt[h].pc = "idle"
  /\ hunt' = [hunt EXCEPT ![h] = [NoHunt EXCEPT !.pc = "looking", !.left = Indicators]]
  /\ UNCHANGED <<lookVars, findings>>

(* A check gets past the semaphore.                                        *)
Check(h, i) ==
  /\ hunt[h].pc = "looking" /\ i \in hunt[h].left
  /\ Cardinality(InFlight(h)) < Concurrency
  /\ LookStarts(<<h, i>>)
  /\ hunt' = [hunt EXCEPT ![h].left = @ \ {i}]
  /\ UNCHANGED findings

(* gather is over: the hits are sorted, and persisted if there are any.    *)
Gathered(h) ==
  /\ hunt[h].pc = "looking" /\ hunt[h].left = {}
  /\ \A l \in Of(h) : look[l].pc = "done"
  /\ look' = [l \in Lookups |-> IF l \in Of(h) THEN AtRest ELSE look[l]]
  /\ IF Leads(h) = {} THEN hunt' = [hunt EXCEPT ![h] = NoHunt]
     ELSE \E order \in Orders(Hits(h)) : hunt' = [hunt EXCEPT ![h] =
            [NoHunt EXCEPT !.pc = "persisting", !.hits = Hits(h), !.queue = order]]
  /\ UNCHANGED <<verdict, cache, findings>>

(* h is about to upsert a row that g has upserted and not committed.       *)
HuntWaits(h, g) ==
  h # g /\ hunt[h].queue # <<>> /\ Head(hunt[h].queue) \in hunt[g].written

PersistRow(h) ==
  /\ hunt[h].queue # <<>> /\ \A g \in Hunters : ~HuntWaits(h, g)
  /\ hunt' = [hunt EXCEPT ![h].queue = Tail(@), ![h].written = @ \union {Head(hunt[h].queue)}]
  /\ UNCHANGED <<lookVars, findings>>

(* What the rows written by h say once it commits.                         *)
Upserts(h) == [k \in hunt[h].written |-> hunt[h].hits[k]]

(* The transaction commits; ON CONFLICT DO UPDATE took whatever was there. *)
PersistEnds(h) ==
  /\ hunt[h].pc = "persisting" /\ hunt[h].queue = <<>>
  /\ findings' = [k \in hunt[h].written \union DOMAIN findings |->
                    IF k \in hunt[h].written THEN Upserts(h)[k] ELSE findings[k]]
  /\ hunt' = [hunt EXCEPT ![h] = NoHunt]
  /\ UNCHANGED lookVars

HuntDeadlocked(h) ==
  \E circle \in SUBSET Hunters :
    /\ h \in circle
    /\ \A g \in circle : (\E f \in circle : HuntWaits(g, f)) /\ (\E f \in circle : HuntWaits(f, g))

(* Mutant: nobody breaks the circle.                                       *)
HuntVictimWaits(h) == HuntDeadlocked(h) /\ UNCHANGED vars

(* PostgreSQL fails h's upsert, which ends its transaction and its hunt:   *)
(* the sweep logs and goes on to the next tenant, the request is a 500.    *)
HuntVictim(h) ==
  /\ HuntDeadlocked(h)
  /\ hunt' = [hunt EXCEPT ![h] = NoHunt]
  /\ UNCHANGED <<lookVars, findings>>

LookStep(l) == LookSteps(l) /\ UNCHANGED huntVars
LookAborts(l) == LookFails(l) /\ UNCHANGED huntVars
Requested(l) == LookStarts(l) /\ UNCHANGED huntVars
Answered(l) == Return(l) /\ UNCHANGED huntVars

HuntWork(h) ==
  \/ \E i \in Indicators : Check(h, i)
  \/ Gathered(h) \/ PersistRow(h) \/ PersistEnds(h)

HuntStep(h) == HuntWork(h) \/ HuntVictim(h)

Surroundings ==
  \/ Tick
  \/ \E k \in Keys : ProviderTurns(k)
  \/ \E l \in Lookups : LookStep(l) \/ LookAborts(l)
  \/ \E l \in Requests : Requested(l) \/ Answered(l)

Next == Surroundings \/ \E h \in Hunters : Begin(h) \/ HuntStep(h)

Spec == Init /\ [][Next]_vars

(* h takes a step of its own: in its loop or in one of its lookups.        *)
Advance(h) == HuntStep(h) \/ \E l \in Of(h) : LookStep(l)

CacheRow(h) == \E l \in Of(h) : Upsert(l) /\ UNCHANGED huntVars

(* A task that runs is resumed by the event loop, and a statement that     *)
(* waits for a row is not overtaken for ever.                              *)
Fairness ==
  /\ \A h \in Hunters : WF_vars(Advance(h)) /\ SF_vars(CacheRow(h)) /\ SF_vars(PersistRow(h))
  /\ \A l \in Requests : WF_vars(LookStep(l)) /\ SF_vars(Upsert(l) /\ UNCHANGED huntVars)

FairSpec == Spec /\ Fairness

(* Time passes, hunts are begun again and again (the sweep's interval),    *)
(* and at some point the providers and the database stop failing.          *)
Fault(l) == LookAborts(l) \/ (ProviderFails(l) /\ UNCHANGED huntVars)

Recurring ==
  /\ SF_vars(Tick)
  /\ \A h \in Hunters : WF_vars(Begin(h))
  /\ <>[][\A l \in Lookups : ~Fault(l)]_vars
-----------------------------------------------------------------------------
(* Every variable keeps its type, and a hunt holds what its phase is about.*)
TypeOK ==
  /\ LookTypeOK
  /\ DOMAIN findings \subseteq Keys
  /\ \A k \in DOMAIN findings : findings[k] \in Threshold .. Top
  /\ \A h \in Hunters :
       /\ hunt[h].pc \in {"idle", "looking", "persisting"}
       /\ hunt[h].left \subseteq Indicators
       /\ DOMAIN hunt[h].hits \subseteq Keys
       /\ ToSet(hunt[h].queue) \union hunt[h].written = DOMAIN hunt[h].hits
       /\ hunt[h].hits # <<>> <=> hunt[h].pc = "persisting"

(* "one indicator never kills the sweep", "never fails the lookup": a hunt *)
(* comes back, and so does a request, although transactions hold the rows  *)
(* they upserted while they wait for a provider or for each other's rows.  *)
NobodyHangs ==
  /\ \A h \in Hunters : (hunt[h].pc # "idle") ~> (hunt[h].pc = "idle")
  /\ \A l \in Requests : Running(l) ~> ~Running(l)

(* "always hunting", "an IP the fleet talked to yesterday can be freshly   *)
(* flagged today": once a provider has settled on a confidence, the        *)
(* finding appears and comes to carry it, whatever the caches still say,   *)
(* whatever failed before and whoever else fills and refreshes the caches. *)
LeadsConverge ==
  \A k \in Keys : \A c \in Threshold .. Top :
    <>[](verdict[k] = c) => <>[](k \in DOMAIN findings /\ findings[k] = c)

=============================================================================
