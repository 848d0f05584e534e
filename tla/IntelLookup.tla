---------------------------- MODULE IntelLookup ----------------------------
(***************************************************************************)
(* Cache-first lookups of threat intelligence: lookup_cti over cti_cache   *)
(* (argus/services/cti.py) and lookup_indicator over enrichment_cache      *)
(* (services/enrichment.py) are the same loop over two tables.  A lookup   *)
(* is one transaction: POST /cti/lookup and the hunter's are about one     *)
(* indicator, POST /events/{id}/enrich is about all those of an event.     *)
(*                                                                         *)
(* Time is kept as ages, so that the caches can be followed for ever: what *)
(* the code stamps with a datetime has, here, the time elapsed since.      *)
(***************************************************************************)
EXTENDS Integers, SequencesExt

CONSTANTS
  Providers,     \* the enabled providers, in registry order
  Indicators,    \* indicators a provider can be asked about
  Lookups,       \* lookups that may run at the same time
  IndicatorsOf,  \* the indicators each of them is about, in order
  Top,           \* confidences a provider gives are 0 (not found) to Top
  Ttl,           \* the age at which a cached answer is stale
  MaxWait        \* bound: ticks one call may take (HTTP timeouts cut it short)

Keys == ToSet(Providers) \X Indicators
Levels == 0 .. Top
Ages == 0 .. Ttl + MaxWait

ASSUME LookupAssumption ==
  /\ Ttl \in Nat \ {0} /\ MaxWait \in Nat /\ Top \in Nat
  /\ Providers \in Seq(ToSet(Providers))
  /\ \A l \in Lookups : IndicatorsOf[l] \in Seq(Indicators)

VARIABLES
  verdict,  \* what each provider says of each indicator now
  cache,    \* the cache table: key -> [level, fetched, answered]
  look      \* per lookup, its transaction

(* answered (a ghost) is when the provider gave the answer; fetched stands *)
(* for fetched_at, which is stamped before it is asked.                    *)
NoAnswer == [level |-> 0, fetched |-> 0, answered |-> 0]

AtRest == [pc |-> "idle", todo |-> <<>>, since |-> 0, answer |-> NoAnswer,
           rows |-> <<>>, found |-> <<>>]

LookInit ==
  /\ verdict \in [Keys -> Levels]
  /\ cache = <<>>
  /\ look = [l \in Lookups |-> AtRest]

Running(l) == look[l].pc \in {"deciding", "asking", "answered"}
Key(l) == Head(look[l].todo)

(* table with one row put in.                                              *)
With(table, key, row) ==
  [k \in {key} \union DOMAIN table |-> IF k = key THEN row ELSE table[k]]

(* The providers of the first indicator, then those of the next.           *)
KeysOf(l) ==
  FlattenSeq([i \in DOMAIN IndicatorsOf[l] |->
    [p \in DOMAIN Providers |-> <<Providers[p], IndicatorsOf[l][i]>>]])

(* On to the next provider; the next indicator is a new call, which takes  *)
(* the time again.                                                         *)
Onward(l) ==
  LET rest == Tail(look[l].todo) IN
  [look[l] EXCEPT !.pc = "deciding", !.todo = rest, !.answer = NoAnswer,
     !.since = IF rest # <<>> /\ Head(rest)[2] # Key(l)[2] THEN 0 ELSE @]

(* Mutant: a cached answer never expires.                                  *)
FreshForever(l) == Key(l) \in DOMAIN cache

(* cached.fetched_at > now - ttl, where now was taken when the call began. *)
Fresh(l) == Key(l) \in DOMAIN cache /\ cache[Key(l)].fetched - look[l].since < Ttl

Bound(age) == IF age > Ttl + MaxWait THEN Ttl + MaxWait ELSE age
Older(row) == [row EXCEPT !.fetched = Bound(@ + 1), !.answered = Bound(@ + 1)]
-----------------------------------------------------------------------------
(* Time passes.                                                            *)
LookTick ==
  /\ \A l \in Lookups : Running(l) => look[l].since < MaxWait
  /\ cache' = [k \in DOMAIN cache |-> Older(cache[k])]
  /\ look' = [l \in Lookups |->
       IF Running(l)
       THEN [look[l] EXCEPT !.since = @ + 1, !.answer = Older(@),
               !.rows = [k \in DOMAIN look[l].rows |-> Older(look[l].rows[k])]]
       ELSE look[l]]
  /\ UNCHANGED verdict

LookStarts(l) ==
  /\ look[l].pc = "idle"
  /\ look' = [look EXCEPT ![l] = [AtRest EXCEPT !.pc = "deciding", !.todo = KeysOf(l)]]
  /\ UNCHANGED <<verdict, cache>>

(* How old an answer was when the call that uses it began.                 *)
Staleness(l, row) == IF row.answered > look[l].since THEN row.answered - look[l].since ELSE 0

(* What l has found, with row for the provider it is at.                   *)
Found(l, row) ==
  With(look[l].found, Key(l), [level |-> row.level, stale |-> Staleness(l, row)])

(* Mutant: an answer served from the cache counts as fetched again.        *)
UseCachedTouches(l) ==
  /\ look[l].pc = "deciding" /\ look[l].todo # <<>> /\ Fresh(l)
  /\ look' = [look EXCEPT ![l] = [Onward(l) EXCEPT !.found = Found(l, cache[Key(l)])]]
  /\ cache' = [cache EXCEPT ![Key(l)].fetched = 0]
  /\ UNCHANGED verdict

(* A fresh row answers for the provider.                                   *)
UseCached(l) ==
  /\ look[l].pc = "deciding" /\ look[l].todo # <<>> /\ Fresh(l)
  /\ look' = [look EXCEPT ![l] = [Onward(l) EXCEPT !.found = Found(l, cache[Key(l)])]]
  /\ UNCHANGED <<verdict, cache>>

Ask(l) ==
  /\ look[l].pc = "deciding" /\ look[l].todo # <<>> /\ ~Fresh(l)
  /\ look' = [look EXCEPT ![l].pc = "asking"]
  /\ UNCHANGED <<verdict, cache>>

(* The provider answers with what it says now.                             *)
Answer(l) ==
  /\ look[l].pc = "asking"
  /\ look' = [look EXCEPT ![l] = [@ EXCEPT !.pc = "answered",
       !.answer = [level |-> verdict[Key(l)], fetched |-> look[l].since, answered |-> 0]]]
  /\ UNCHANGED <<verdict, cache>>

(* It fails, and the loop goes on to the next one.                         *)
ProviderFails(l) ==
  /\ look[l].pc = "asking"
  /\ look' = [look EXCEPT ![l] = Onward(l)]
  /\ UNCHANGED <<verdict, cache>>

(* l is about to upsert a row that m has upserted and not committed.       *)
LookWaits(l, m) == l # m /\ look[l].pc = "answered" /\ Key(l) \in DOMAIN look[m].rows

LookBlocked(l) == \E m \in Lookups : LookWaits(l, m)

Upsert(l) ==
  /\ look[l].pc = "answered" /\ ~LookBlocked(l)
  /\ look' = [look EXCEPT ![l] = [Onward(l) EXCEPT
       !.rows = With(look[l].rows, Key(l), look[l].answer), !.found = Found(l, look[l].answer)]]
  /\ UNCHANGED <<verdict, cache>>

(* The transaction commits and the findings are returned.                  *)
LookEnds(l) ==
  /\ look[l].pc = "deciding" /\ look[l].todo = <<>>
  /\ cache' = [k \in DOMAIN look[l].rows \union DOMAIN cache |->
                IF k \in DOMAIN look[l].rows THEN look[l].rows[k] ELSE cache[k]]
  /\ look' = [look EXCEPT ![l] = [@ EXCEPT !.pc = "done", !.rows = <<>>, !.since = 0]]
  /\ UNCHANGED verdict

(* Its transaction fails: every row it upserted is rolled back.            *)
RolledBack(l) ==
  /\ look' = [look EXCEPT ![l] = [AtRest EXCEPT !.pc = "done"]]
  /\ UNCHANGED <<verdict, cache>>

LookFails(l) == Running(l) /\ RolledBack(l)

(* PostgreSQL fails one of the transactions that wait in a circle.         *)
LookDeadlocked(l) ==
  \E circle \in SUBSET {m \in Lookups : LookBlocked(m)} :
    /\ l \in circle
    /\ \A m \in circle : (\E n \in circle : LookWaits(m, n)) /\ (\E n \in circle : LookWaits(n, m))

LookVictim(l) == LookDeadlocked(l) /\ RolledBack(l)

(* The caller has what it asked for.                                       *)
Return(l) ==
  /\ look[l].pc = "done"
  /\ look' = [look EXCEPT ![l] = AtRest]
  /\ UNCHANGED <<verdict, cache>>

LookSteps(l) ==
  \/ UseCached(l) \/ Ask(l) \/ Answer(l) \/ ProviderFails(l)
  \/ Upsert(l) \/ LookEnds(l) \/ LookVictim(l)

lookVars == <<verdict, cache, look>>

-----------------------------------------------------------------------------
RowType == [level : Levels, fetched : Ages, answered : Ages]

(* Every variable keeps its type; a lookup holds rows only while it runs.  *)
LookTypeOK ==
  /\ verdict \in [Keys -> Levels]
  /\ DOMAIN cache \subseteq Keys /\ \A k \in DOMAIN cache : cache[k] \in RowType
  /\ \A l \in Lookups :
       /\ look[l].pc \in {"idle", "deciding", "asking", "answered", "done"}
       /\ look[l].todo \in Seq(Keys) /\ look[l].since \in 0 .. MaxWait
       /\ look[l].answer \in RowType
       /\ \A k \in DOMAIN look[l].rows : k \in DOMAIN look[l].found /\ look[l].rows[k] \in RowType
       /\ look[l].rows # <<>> => Running(l)

(* "fresh cache row -> return it; miss or stale -> call provider": whoever *)
(* overwrites whose row, and however slow the providers are, a finding was *)
(* the provider's answer less than a TTL before the call that returns it.  *)
AnswersWithinTtl ==
  \A l \in Lookups : \A k \in DOMAIN look[l].found : look[l].found[k].stale < Ttl
=============================================================================
