--------------------------- MODULE CtiHuntProofs ---------------------------
(***************************************************************************)
(* No finding of a lookup was older than the TTL when the call began,      *)
(* whatever the providers, the lookups and the hunters do meanwhile.       *)
(*                                                                         *)
(* A row is fresh by the age of fetched, which was stamped before the      *)
(* provider was asked: the answer is never older than its row says, in the *)
(* table and in every transaction on its way there.                        *)
(*                                                                         *)
(* Of the hunts: hunt_findings holds leads and nothing else, and no two    *)
(* hunts hold one of its rows, through every interleaving of hunters,      *)
(* lookups and deadlocks.                                                  *)
(***************************************************************************)
EXTENDS CtiHunt, FiniteSetTheorems, WellFoundedInduction, TLAPS

(* A row whose answer was given after the time it is stamped with.         *)
Aged(row) ==
  /\ DOMAIN row = {"level", "fetched", "answered"}
  /\ row.fetched \in Nat /\ row.answered \in Nat
  /\ row.answered <= row.fetched

(* A transaction that is sound: the rows it is to commit are aged, so is   *)
(* an answer, given after the call began, and what it found was fresh.     *)
Sound(tx) ==
  /\ DOMAIN tx = {"pc", "todo", "since", "answer", "rows", "found"}
  /\ tx.since \in 0 .. MaxWait
  /\ \A k \in DOMAIN tx.rows : Aged(tx.rows[k])
  /\ tx.pc = "answered" => Aged(tx.answer) /\ tx.answer.answered <= tx.since
  /\ \A k \in DOMAIN tx.found : tx.found[k].stale \in Nat /\ tx.found[k].stale < Ttl

LookSound == DOMAIN look = Lookups /\ \A l \in Lookups : Sound(look[l])

CacheAged == \A k \in DOMAIN cache : Aged(cache[k])

AgeInv == LookSound /\ CacheAged
-----------------------------------------------------------------------------
(* A tick leaves a row aged, and adds one to the age of its answer at most.*)
LEMMA OlderIsAged ==
  ASSUME NEW row, Aged(row)
  PROVE  Aged(Older(row)) /\ Older(row).answered <= row.answered + 1
<1> DEFINE y == Older(row)
<1>1. /\ DOMAIN y = {"level", "fetched", "answered"}
      /\ y.fetched = Bound(row.fetched + 1) /\ y.answered = Bound(row.answered + 1)
  BY DEF Older, Aged
<1>2. row.fetched \in Nat /\ row.answered \in Nat /\ row.answered <= row.fetched
  BY DEF Aged
<1>3. Ttl + MaxWait \in Nat
  BY LookupAssumption
<1>4. /\ Bound(row.fetched + 1) \in Nat /\ Bound(row.answered + 1) \in Nat
      /\ Bound(row.answered + 1) <= Bound(row.fetched + 1)
      /\ Bound(row.answered + 1) <= row.answered + 1
  BY <1>2, <1>3 DEF Bound
<1> HIDE DEF y
<1>5. Aged(y) /\ y.answered <= row.answered + 1
  BY <1>1, <1>4 DEF Aged
<1> QED BY <1>5 DEF y

(* A row put in a table of aged rows.                                      *)
LEMMA WithAged ==
  ASSUME NEW table, NEW key, NEW row, Aged(row), \A k \in DOMAIN table : Aged(table[k])
  PROVE  \A k \in DOMAIN With(table, key, row) : Aged(With(table, key, row)[k])
<1> SUFFICES ASSUME NEW k \in DOMAIN With(table, key, row)
             PROVE  Aged(With(table, key, row)[k])
  OBVIOUS
<1>1. CASE k = key
  BY <1>1 DEF With
<1>2. CASE k # key
  BY <1>2 DEF With
<1> QED BY <1>1, <1>2

(* A finding that is fresh, added to others that are.                      *)
LEMMA FoundIsFresh ==
  ASSUME NEW l \in Lookups, Sound(look[l]), NEW row,
         Staleness(l, row) \in Nat, Staleness(l, row) < Ttl
  PROVE  \A k \in DOMAIN Found(l, row) :
           Found(l, row)[k].stale \in Nat /\ Found(l, row)[k].stale < Ttl
<1> DEFINE new == [level |-> row.level, stale |-> Staleness(l, row)]
<1>1. new.stale \in Nat /\ new.stale < Ttl
  OBVIOUS
<1> HIDE DEF new
<1> DEFINE found == With(look[l].found, Key(l), new)
<1>2. ASSUME NEW k \in DOMAIN found PROVE found[k].stale \in Nat /\ found[k].stale < Ttl
  <2>1. CASE k = Key(l)
    <3>1. found[k] = new
      BY <2>1 DEF With
    <3> HIDE DEF found
    <3> QED BY <1>1, <3>1
  <2>2. CASE k # Key(l)
    <3>1. k \in DOMAIN look[l].found /\ found[k] = look[l].found[k]
      BY <2>2 DEF With
    <3> HIDE DEF found
    <3> QED BY <3>1 DEF Sound
  <2> QED BY <2>1, <2>2
<1>3. Found(l, row) = found
  BY DEF Found, new
<1> QED BY <1>2, <1>3

(* Going on to the next provider changes neither the rows nor the findings.*)
LEMMA OnwardShape ==
  ASSUME NEW l \in Lookups, Sound(look[l])
  PROVE  /\ DOMAIN Onward(l) = {"pc", "todo", "since", "answer", "rows", "found"}
         /\ Onward(l).pc = "deciding" /\ Onward(l).since \in 0 .. MaxWait
         /\ Onward(l).rows = look[l].rows /\ Onward(l).found = look[l].found
BY LookupAssumption DEF Onward, Sound

LEMMA OnwardIsSound ==
  ASSUME NEW l \in Lookups, Sound(look[l])
  PROVE  Sound(Onward(l))
<1>1. Onward(l).pc # "answered"
  BY OnwardShape
<1> QED BY <1>1, OnwardShape DEF Sound

(* A transaction that has nothing yet, or nothing any more.                *)
LEMMA RestIsSound ==
  /\ Sound(AtRest)
  /\ Sound([AtRest EXCEPT !.pc = "done"])
  /\ \A t : Sound([AtRest EXCEPT !.pc = "deciding", !.todo = t])
BY LookupAssumption DEF AtRest, Sound

(* One transaction changes, and stays sound.                               *)
LEMMA OneStaysSound ==
  ASSUME AgeInv, NEW l \in Lookups, NEW tx, Sound(tx), look' = [look EXCEPT ![l] = tx]
  PROVE  LookSound'
<1>1. DOMAIN look' = Lookups
  BY DEF AgeInv, LookSound
<1>2. ASSUME NEW m \in Lookups PROVE Sound(look'[m])
  <2>1. CASE m = l
    BY <2>1 DEF AgeInv, LookSound
  <2>2. CASE m # l
    <3>1. look'[m] = look[m]
      BY <2>2 DEF AgeInv, LookSound
    <3> QED BY <3>1 DEF AgeInv, LookSound
  <2> QED BY <2>1, <2>2
<1> QED BY <1>1, <1>2 DEF LookSound, Sound, Aged
-----------------------------------------------------------------------------
(* Time passes: every row and every transaction that runs grows older.     *)
LEMMA TickKeepsAges ==
  ASSUME AgeInv, LookTick
  PROVE  AgeInv'
<1>1. CacheAged'
  <2>1. cache' = [k \in DOMAIN cache |-> Older(cache[k])]
    BY DEF LookTick
  <2>2. \A k \in DOMAIN cache : Aged(Older(cache[k]))
    BY OlderIsAged DEF AgeInv, CacheAged
  <2> QED BY <2>1, <2>2 DEF CacheAged, Aged
<1>2. DOMAIN look' = Lookups
  BY DEF LookTick
<1>3. ASSUME NEW l \in Lookups, Running(l) PROVE Sound(look'[l])
  <2>1. Sound(look[l])
    BY DEF AgeInv, LookSound
  <2> DEFINE tx == look[l]
             rows == [k \in DOMAIN tx.rows |-> Older(tx.rows[k])]
  <2>2. /\ DOMAIN look'[l] = DOMAIN tx
        /\ look'[l].pc = tx.pc /\ look'[l].since = tx.since + 1
        /\ look'[l].answer = Older(tx.answer) /\ look'[l].rows = rows
        /\ look'[l].found = tx.found
    BY <1>3, <2>1 DEF LookTick, Sound
  <2>3. tx.since + 1 \in 0 .. MaxWait
    <3>1. tx.since \in 0 .. MaxWait /\ tx.since < MaxWait /\ MaxWait \in Nat
      BY <1>3, <2>1, LookupAssumption DEF LookTick, Sound
    <3> QED BY <3>1
  <2>4. \A k \in DOMAIN rows : Aged(rows[k])
    <3>1. ASSUME NEW k \in DOMAIN rows PROVE Aged(rows[k])
      <4>1. Aged(tx.rows[k])
        BY <2>1 DEF Sound
      <4>2. Aged(Older(tx.rows[k]))
        BY <4>1, OlderIsAged
      <4> QED BY <4>2
    <3> QED BY <3>1
  <2>5. tx.pc = "answered" => Aged(Older(tx.answer)) /\ Older(tx.answer).answered <= tx.since + 1
    <3> SUFFICES ASSUME tx.pc = "answered"
                 PROVE  Aged(Older(tx.answer)) /\ Older(tx.answer).answered <= tx.since + 1
      OBVIOUS
    <3>1. /\ Aged(tx.answer) /\ tx.answer.answered \in Nat
          /\ tx.since \in Nat /\ tx.answer.answered <= tx.since
      BY <2>1 DEF Sound, Aged
    <3>2. Aged(Older(tx.answer)) /\ Older(tx.answer).answered <= tx.answer.answered + 1
      BY <3>1, OlderIsAged
    <3>3. Older(tx.answer).answered \in Nat
      BY <3>2 DEF Aged
    <3> QED BY <3>1, <3>2, <3>3
  <2> HIDE DEF rows
  <2> QED BY <2>1, <2>2, <2>3, <2>4, <2>5 DEF Sound
<1>4. ASSUME NEW l \in Lookups, ~Running(l) PROVE Sound(look'[l])
  <2>1. look'[l] = look[l]
    BY <1>4 DEF LookTick
  <2> QED BY <2>1 DEF AgeInv, LookSound
<1> QED BY <1>1, <1>2, <1>3, <1>4 DEF AgeInv, LookSound, Sound, Aged

(* A fresh row serves: what it says was less than a TTL old.               *)
LEMMA CachedIsFresh ==
  ASSUME AgeInv, NEW l \in Lookups, UseCached(l)
  PROVE  AgeInv'
<1>1. Sound(look[l]) /\ Aged(cache[Key(l)])
  BY DEF AgeInv, LookSound, CacheAged, UseCached, Fresh
<1> DEFINE row == cache[Key(l)]
<1>2. Staleness(l, row) \in Nat /\ Staleness(l, row) < Ttl
  <2>1. /\ row.fetched \in Nat /\ row.answered \in Nat /\ row.answered <= row.fetched
        /\ look[l].since \in Nat /\ Ttl \in Nat \ {0} /\ row.fetched - look[l].since < Ttl
    BY <1>1, LookupAssumption DEF Sound, Aged, UseCached, Fresh
  <2> HIDE DEF row
  <2> QED BY <2>1 DEF Staleness
<1> DEFINE tx == [Onward(l) EXCEPT !.found = Found(l, row)]
<1>3. /\ DOMAIN tx = {"pc", "todo", "since", "answer", "rows", "found"}
      /\ tx.pc = "deciding" /\ tx.since \in 0 .. MaxWait
      /\ tx.rows = look[l].rows /\ tx.found = Found(l, row)
  BY <1>1, OnwardShape
<1>4. \A k \in DOMAIN Found(l, row) : Found(l, row)[k].stale \in Nat /\ Found(l, row)[k].stale < Ttl
  BY <1>1, <1>2, FoundIsFresh
<1>5. look' = [look EXCEPT ![l] = tx] /\ cache' = cache
  BY DEF UseCached
<1> HIDE DEF tx, row
<1>6. Sound(tx)
  BY <1>1, <1>3, <1>4 DEF Sound
<1> QED BY <1>5, <1>6, OneStaysSound DEF AgeInv, CacheAged, Aged

(* Ages stop at Ttl + MaxWait: a row that old is not fresh for any call.   *)
LEMMA CappedIsStale ==
  ASSUME AgeInv, NEW l \in Lookups, Fresh(l)
  PROVE  cache[Key(l)].fetched < Ttl + MaxWait
<1>1. /\ cache[Key(l)].fetched \in Nat /\ look[l].since \in 0 .. MaxWait
      /\ cache[Key(l)].fetched - look[l].since < Ttl
  BY DEF AgeInv, LookSound, CacheAged, Sound, Aged, Fresh
<1> QED BY <1>1, LookupAssumption

(* The provider answers: now, for a row stamped when the call began.       *)
LEMMA AnswerIsAged ==
  ASSUME AgeInv, NEW l \in Lookups, Answer(l)
  PROVE  AgeInv'
<1>1. Sound(look[l])
  BY DEF AgeInv, LookSound
<1> DEFINE answer == [level |-> verdict[Key(l)], fetched |-> look[l].since, answered |-> 0]
           tx == [look[l] EXCEPT !.pc = "answered", !.answer = answer]
<1>2. Aged(answer) /\ answer.answered <= look[l].since
  BY <1>1 DEF Sound, Aged
<1>3. look' = [look EXCEPT ![l] = tx] /\ cache' = cache
  BY DEF Answer
<1> HIDE DEF answer
<1>4. /\ DOMAIN tx = {"pc", "todo", "since", "answer", "rows", "found"}
      /\ tx.since = look[l].since /\ tx.answer = answer
      /\ tx.rows = look[l].rows /\ tx.found = look[l].found
  BY <1>1 DEF Sound
<1> HIDE DEF tx
<1>5. Sound(tx)
  BY <1>1, <1>2, <1>4 DEF Sound
<1> QED BY <1>3, <1>5, OneStaysSound DEF AgeInv, CacheAged, Aged

(* The answer is put in a row, and found: it was given during the call.    *)
LEMMA UpsertIsAged ==
  ASSUME AgeInv, NEW l \in Lookups, Upsert(l)
  PROVE  AgeInv'
<1>1. Sound(look[l])
  BY DEF AgeInv, LookSound
<1> DEFINE row == look[l].answer
           rows == With(look[l].rows, Key(l), row)
           tx == [Onward(l) EXCEPT !.rows = rows, !.found = Found(l, row)]
<1>2. Aged(row) /\ row.answered <= look[l].since /\ look[l].since \in Nat
  BY <1>1, LookupAssumption DEF Upsert, Sound
<1>3. Staleness(l, row) \in Nat /\ Staleness(l, row) < Ttl
  BY <1>2, LookupAssumption DEF Staleness, Aged
<1>4. \A k \in DOMAIN rows : Aged(rows[k])
  BY <1>1, <1>2, WithAged DEF Sound
<1>5. \A k \in DOMAIN Found(l, row) : Found(l, row)[k].stale \in Nat /\ Found(l, row)[k].stale < Ttl
  BY <1>1, <1>3, FoundIsFresh
<1>6. look' = [look EXCEPT ![l] = tx] /\ cache' = cache
  BY DEF Upsert
<1> HIDE DEF rows
<1>7. /\ DOMAIN tx = {"pc", "todo", "since", "answer", "rows", "found"}
      /\ tx.pc = "deciding" /\ tx.since \in 0 .. MaxWait
      /\ tx.rows = rows /\ tx.found = Found(l, row)
  BY <1>1, OnwardShape
<1> HIDE DEF tx, row
<1>8. Sound(tx)
  BY <1>4, <1>5, <1>7 DEF Sound
<1> QED BY <1>6, <1>8, OneStaysSound DEF AgeInv, CacheAged, Aged

(* The transaction commits: aged rows over aged rows.                      *)
LEMMA CommitIsAged ==
  ASSUME AgeInv, NEW l \in Lookups, LookEnds(l)
  PROVE  AgeInv'
<1>1. Sound(look[l])
  BY DEF AgeInv, LookSound
<1> DEFINE rows == look[l].rows
           tx == [look[l] EXCEPT !.pc = "done", !.rows = <<>>, !.since = 0]
<1>2. CacheAged'
  <2>1. cache' = [k \in DOMAIN rows \union DOMAIN cache |->
                    IF k \in DOMAIN rows THEN rows[k] ELSE cache[k]]
    BY DEF LookEnds
  <2>2. ASSUME NEW k \in DOMAIN cache' PROVE Aged(cache'[k])
    <3>1. CASE k \in DOMAIN rows
      <4>1. Aged(rows[k])
        BY <1>1, <3>1 DEF Sound
      <4> QED BY <2>1, <3>1, <4>1
    <3>2. CASE k \notin DOMAIN rows
      <4>1. k \in DOMAIN cache /\ cache'[k] = cache[k]
        BY <2>1, <2>2, <3>2
      <4> QED BY <4>1 DEF AgeInv, CacheAged
    <3> QED BY <3>1, <3>2
  <2> QED BY <2>2 DEF CacheAged, Aged
<1>3. look' = [look EXCEPT ![l] = tx]
  BY DEF LookEnds
<1>4. /\ DOMAIN tx = {"pc", "todo", "since", "answer", "rows", "found"}
      /\ tx.pc = "done" /\ tx.since = 0 /\ MaxWait \in Nat /\ tx.rows = <<>> /\ tx.found = look[l].found
  BY <1>1, LookupAssumption DEF Sound
<1>5. DOMAIN <<>> = {}
  OBVIOUS
<1> HIDE DEF tx
<1>6. Sound(tx)
  BY <1>1, <1>4, <1>5 DEF Sound
<1>7. LookSound'
  BY <1>3, <1>6, OneStaysSound
<1> QED BY <1>2, <1>7 DEF AgeInv

(* A transaction that asks, goes on, starts, fails or returns.             *)
LEMMA OthersKeepAges ==
  ASSUME AgeInv, NEW l \in Lookups,
         Ask(l) \/ ProviderFails(l) \/ LookStarts(l) \/ RolledBack(l) \/ Return(l)
  PROVE  AgeInv'
<1>1. Sound(look[l])
  BY DEF AgeInv, LookSound
<1>2. cache' = cache
  BY DEF Ask, ProviderFails, LookStarts, RolledBack, Return
<1>3. PICK tx : Sound(tx) /\ look' = [look EXCEPT ![l] = tx]
  <2>1. CASE Ask(l)
    <3> DEFINE tx == [look[l] EXCEPT !.pc = "asking"]
    <3>1. Sound(tx)
      BY <1>1 DEF Sound
    <3> QED BY <2>1, <3>1 DEF Ask
  <2>2. CASE ProviderFails(l)
    BY <1>1, <2>2, OnwardIsSound DEF ProviderFails
  <2>3. CASE LookStarts(l)
    BY <2>3, RestIsSound DEF LookStarts
  <2>4. CASE RolledBack(l)
    BY <2>4, RestIsSound DEF RolledBack
  <2>5. CASE Return(l)
    BY <2>5, RestIsSound DEF Return
  <2> QED BY <2>1, <2>2, <2>3, <2>4, <2>5
<1>4. LookSound'
  BY <1>3, OneStaysSound
<1> QED BY <1>2, <1>4 DEF AgeInv, CacheAged, Aged

(* gather is over: the transactions of the hunt rest, the others go on.    *)
LEMMA GatheredKeepsAges ==
  ASSUME AgeInv, NEW h \in Hunters, Gathered(h)
  PROVE  AgeInv'
<1>1. look' = [l \in Lookups |-> IF l \in Of(h) THEN AtRest ELSE look[l]] /\ cache' = cache
  BY DEF Gathered
<1>2. \A l \in Lookups : Sound(look'[l])
  BY <1>1, RestIsSound DEF AgeInv, LookSound
<1> QED BY <1>1, <1>2 DEF AgeInv, LookSound, CacheAged, Sound, Aged

LEMMA HuntLookups ==
  ASSUME NEW h \in Hunters, NEW i \in Indicators
  PROVE  <<h, i>> \in Lookups
BY HuntAssumption
-----------------------------------------------------------------------------
(* An answer is never older than its row says, in the table and in every   *)
(* transaction, through every hunt, lookup and tick of the clock.          *)
THEOREM AgeInvariant == Spec => []AgeInv
<1>1. Init => AgeInv
  <2> SUFFICES ASSUME Init PROVE AgeInv
    OBVIOUS
  <2>1. look = [l \in Lookups |-> AtRest] /\ cache = <<>>
    BY DEF Init, LookInit
  <2>2. DOMAIN <<>> = {}
    OBVIOUS
  <2> QED BY <2>1, <2>2, RestIsSound DEF AgeInv, LookSound, CacheAged
<1>2. AgeInv /\ [Next]_vars => AgeInv'
  <2> SUFFICES ASSUME AgeInv, [Next]_vars PROVE AgeInv'
    OBVIOUS
  <2>1. ASSUME UNCHANGED <<look, cache>> PROVE AgeInv'
    BY <2>1 DEF AgeInv, LookSound, CacheAged, Sound, Aged
  <2>2. CASE Tick
    BY <2>2, TickKeepsAges DEF Tick
  <2>3. ASSUME NEW k \in Keys, ProviderTurns(k) PROVE AgeInv'
    BY <2>1, <2>3 DEF ProviderTurns
  <2>4. ASSUME NEW l \in Lookups, LookStep(l) PROVE AgeInv'
    <3>1. CASE UseCached(l)
      BY <3>1, CachedIsFresh
    <3>2. CASE Answer(l)
      BY <3>2, AnswerIsAged
    <3>3. CASE Upsert(l)
      BY <3>3, UpsertIsAged
    <3>4. CASE LookEnds(l)
      BY <3>4, CommitIsAged
    <3>5. CASE Ask(l) \/ ProviderFails(l) \/ RolledBack(l)
      BY <3>5, OthersKeepAges
    <3> QED BY <2>4, <3>1, <3>2, <3>3, <3>4, <3>5 DEF LookStep, LookSteps, LookVictim
  <2>5. ASSUME NEW l \in Lookups, LookAborts(l) \/ Requested(l) \/ Answered(l) PROVE AgeInv'
    BY <2>5, OthersKeepAges DEF LookAborts, LookFails, Requested, Answered
  <2>6. ASSUME NEW h \in Hunters, Begin(h) \/ HuntStep(h) PROVE AgeInv'
    <3>1. ASSUME NEW i \in Indicators, Check(h, i) PROVE AgeInv'
      BY <3>1, HuntLookups, OthersKeepAges DEF Check
    <3>2. CASE Gathered(h)
      BY <3>2, GatheredKeepsAges
    <3>3. CASE Begin(h) \/ PersistRow(h) \/ PersistEnds(h) \/ HuntVictim(h)
      BY <2>1, <3>3 DEF Begin, PersistRow, PersistEnds, HuntVictim, lookVars
    <3> QED BY <2>6, <3>1, <3>2, <3>3 DEF HuntStep, HuntWork
  <2>7. CASE UNCHANGED vars
    BY <2>1, <2>7 DEF vars, lookVars
  <2> QED BY <2>2, <2>3, <2>4, <2>5, <2>6, <2>7 DEF Next, Surroundings, Requests
<1> QED BY <1>1, <1>2, PTL DEF Spec

(* A finding was the provider's answer less than a TTL before the call     *)
(* that returns it: for any providers, lookups, hunters and TTL.           *)
THEOREM FindingsAreFresh == Spec => []AnswersWithinTtl
<1>1. AgeInv => AnswersWithinTtl
  BY DEF AgeInv, LookSound, Sound, AnswersWithinTtl
<1> QED BY <1>1, AgeInvariant, PTL
-----------------------------------------------------------------------------
(* Types.  What a lookup works through are keys, so what a provider says   *)
(* of one is a confidence there is, in every row and every finding.        *)
Typed(tx) ==
  /\ tx.pc \in {"idle", "deciding", "asking", "answered", "done"}
  /\ tx.todo \in Seq(Keys)
  /\ tx.pc \in {"asking", "answered"} => tx.todo # <<>>
  /\ tx.answer \in RowType
  /\ DOMAIN tx.found \subseteq Keys /\ \A k \in DOMAIN tx.found : tx.found[k].level \in Levels
  /\ \A k \in DOMAIN tx.rows : k \in DOMAIN tx.found /\ tx.rows[k] \in RowType
  /\ tx.rows # <<>> => tx.pc \in {"deciding", "asking", "answered"}

LookInv ==
  /\ verdict \in [Keys -> Levels]
  /\ DOMAIN cache \subseteq Keys /\ \A k \in DOMAIN cache : cache[k] \in RowType
  /\ \A l \in Lookups : Typed(look[l])

(* The recursion by which sequences are put end to end.                    *)
IsFlat(flat, seqs, n) ==
  flat = [i \in 1..n |-> IF i = 1 THEN seqs[i] ELSE flat[i - 1] \o seqs[i]]

LEMMA LeastNatural ==
  ASSUME NEW T, T \subseteq Nat, T # {}
  PROVE  \E m \in T : \A n \in T : m <= n
<1>1. PICK m \in T : \A n \in T : <<n, m>> \notin OpToRel(<, Nat)
  BY NatLessThanWellFounded, WFMin
<1>2. ASSUME NEW n \in T PROVE m <= n
  <2>1. <<n, m>> \in Nat \X Nat /\ ~(n < m)
    BY <1>1 DEF OpToRel
  <2> QED BY <2>1
<1> QED BY <1>2

LEMMA FlatExists ==
  ASSUME NEW seqs, NEW n \in Nat
  PROVE  \E flat : IsFlat(flat, seqs, n)
<1> DEFINE Bad == {m \in Nat : ~\E flat : IsFlat(flat, seqs, m)}
<1> SUFFICES ASSUME Bad # {} PROVE FALSE
  OBVIOUS
<1>1. PICK m \in Bad : \A k \in Bad : m <= k
  <2>1. Bad \subseteq Nat
    OBVIOUS
  <2> HIDE DEF Bad
  <2> QED BY <2>1, LeastNatural
<1>2. CASE m = 0
  <2> DEFINE f == [i \in 1..0 |-> seqs[i]]
  <2>1. IsFlat(f, seqs, 0)
    BY DEF IsFlat
  <2> QED BY <1>2, <2>1
<1>3. CASE m # 0
  <2>1. m - 1 \in Nat /\ ~(m <= m - 1)
    BY <1>3
  <2>2. PICK f : IsFlat(f, seqs, m - 1)
    BY <1>1, <2>1
  <2> DEFINE g == [i \in 1..m |-> IF i # m THEN f[i]
                                 ELSE IF m = 1 THEN seqs[m] ELSE f[m - 1] \o seqs[m]]
  <2>3. f = [i \in 1..(m - 1) |-> IF i = 1 THEN seqs[i] ELSE f[i - 1] \o seqs[i]]
    BY <2>2 DEF IsFlat
  <2>4. ASSUME NEW i \in 1..m
        PROVE  g[i] = IF i = 1 THEN seqs[i] ELSE g[i - 1] \o seqs[i]
    <3>1. CASE i = m /\ m = 1
      BY <3>1
    <3>2. CASE i = m /\ m # 1
      <4>1. m \in Nat /\ m - 1 \in 1..m /\ m - 1 # m
        BY <1>3, <3>2
      <4>2. g[m - 1] = f[m - 1]
        BY <4>1
      <4>3. g[i] = f[m - 1] \o seqs[m]
        BY <3>2
      <4> HIDE DEF g
      <4> QED BY <3>2, <4>2, <4>3
    <3>3. CASE i # m
      <4>1. i \in 1..(m - 1) /\ g[i] = f[i]
        BY <3>3
      <4>2. f[i] = IF i = 1 THEN seqs[i] ELSE f[i - 1] \o seqs[i]
        BY <2>3, <4>1
      <4>3. i # 1 => g[i - 1] = f[i - 1]
        BY <4>1
      <4> HIDE DEF g
      <4> QED BY <4>1, <4>2, <4>3
    <3> QED BY <3>1, <3>2, <3>3
  <2>5. g = [i \in 1..m |-> IF i = 1 THEN seqs[i] ELSE g[i - 1] \o seqs[i]]
    BY <2>4
  <2> HIDE DEF g
  <2>6. IsFlat(g, seqs, m)
    BY <2>5 DEF IsFlat
  <2> QED BY <2>6
<1> QED BY <1>2, <1>3

(* Sequences over a set, put end to end, are a sequence over it.           *)
LEMMA FlatTyped ==
  ASSUME NEW S, NEW seqs \in Seq(Seq(S))
  PROVE  FlattenSeq(seqs) \in Seq(S)
<1> DEFINE n == Len(seqs)
           flat == CHOOSE f : IsFlat(f, seqs, n)
           Bad == {i \in 1..n : flat[i] \notin Seq(S)}
<1>1. n \in Nat /\ \A i \in 1..n : seqs[i] \in Seq(S)
  OBVIOUS
<1> HIDE DEF n
<1>2. IsFlat(flat, seqs, n)
  BY <1>1, FlatExists, Zenon
<1>3. flat = [i \in 1..n |-> IF i = 1 THEN seqs[i] ELSE flat[i - 1] \o seqs[i]]
  BY <1>2 DEF IsFlat
<1> HIDE DEF flat
<1>4. Bad = {}
  <2> SUFFICES ASSUME Bad # {} PROVE FALSE
    OBVIOUS
  <2>1. PICK m \in Bad : \A i \in Bad : m <= i
    <3>1. Bad \subseteq Nat
      BY <1>1
    <3> HIDE DEF Bad
    <3> QED BY <3>1, LeastNatural
  <2>2. m \in 1..n /\ flat[m] = IF m = 1 THEN seqs[m] ELSE flat[m - 1] \o seqs[m]
    BY <1>3, <2>1
  <2>3. CASE m = 1
    BY <1>1, <2>1, <2>2, <2>3
  <2>4. CASE m # 1
    <3>1. m - 1 \in 1..n /\ ~(m <= m - 1)
      BY <1>1, <2>2, <2>4
    <3>2. flat[m - 1] \in Seq(S)
      BY <2>1, <3>1
    <3>3. flat[m - 1] \o seqs[m] \in Seq(S)
      BY <1>1, <2>2, <3>2
    <3> QED BY <2>1, <2>2, <2>4, <3>3
  <2> QED BY <2>3, <2>4
<1>5. CASE n = 0
  BY <1>5 DEF FlattenSeq, n
<1>6. CASE n # 0
  <2>1. FlattenSeq(seqs) = flat[n]
    BY <1>6 DEF FlattenSeq, flat, n, IsFlat
  <2>2. n \in 1..n
    BY <1>1, <1>6
  <2> QED BY <1>4, <2>1, <2>2
<1> QED BY <1>5, <1>6

LEMMA KeysAreKeys ==
  ASSUME NEW l \in Lookups
  PROVE  KeysOf(l) \in Seq(Keys)
<1> DEFINE Of1(i) == [p \in DOMAIN Providers |-> <<Providers[p], IndicatorsOf[l][i]>>]
           seqs == [i \in DOMAIN IndicatorsOf[l] |-> Of1(i)]
<1>1. /\ IndicatorsOf[l] \in Seq(Indicators) /\ Providers \in Seq(ToSet(Providers))
      /\ DOMAIN IndicatorsOf[l] = 1..Len(IndicatorsOf[l]) /\ Len(IndicatorsOf[l]) \in Nat
      /\ DOMAIN Providers = 1..Len(Providers) /\ Len(Providers) \in Nat
  BY LookupAssumption
<1>2. ASSUME NEW i \in DOMAIN IndicatorsOf[l] PROVE Of1(i) \in Seq(Keys)
  <2>1. IndicatorsOf[l][i] \in Indicators
    BY <1>1
  <2>2. \A p \in DOMAIN Providers : Providers[p] \in ToSet(Providers)
    BY DEF ToSet
  <2>3. \A p \in DOMAIN Providers : <<Providers[p], IndicatorsOf[l][i]>> \in Keys
    BY <2>1, <2>2 DEF Keys
  <2>4. Of1(i) \in [1..Len(Providers) -> Keys]
    BY <1>1, <2>3
  <2> HIDE DEF Of1
  <2> QED BY <1>1, <2>4
<1>3. seqs \in [1..Len(IndicatorsOf[l]) -> Seq(Keys)]
  BY <1>1, <1>2
<1>4. KeysOf(l) = FlattenSeq(seqs)
  BY DEF KeysOf
<1> HIDE DEF seqs, Of1
<1>5. seqs \in Seq(Seq(Keys))
  BY <1>1, <1>3
<1> QED BY <1>4, <1>5, FlatTyped

LEMMA NoAnswerTyped == NoAnswer \in RowType
  BY LookupAssumption DEF NoAnswer, RowType, Levels, Ages

LEMMA OlderTyped == ASSUME NEW row \in RowType PROVE Older(row) \in RowType
<1> DEFINE old == Older(row)
<1>1. row \in [level : Levels, fetched : Ages, answered : Ages]
  BY DEF RowType
<1>2. /\ row = [level |-> row.level, fetched |-> row.fetched, answered |-> row.answered]
      /\ row.level \in Levels /\ row.fetched \in Ages /\ row.answered \in Ages
  BY <1>1
<1>3. old = [level |-> row.level, fetched |-> Bound(row.fetched + 1),
             answered |-> Bound(row.answered + 1)]
  <2>1. DOMAIN row = {"level", "fetched", "answered"}
    BY <1>1
  <2>2. old = [[row EXCEPT !["fetched"] = Bound(@ + 1)] EXCEPT !["answered"] = Bound(@ + 1)]
    BY DEF Older
  <2>3. old = [f \in DOMAIN row |-> IF f = "fetched" THEN Bound(row.fetched + 1)
                                   ELSE IF f = "answered" THEN Bound(row.answered + 1) ELSE row[f]]
    BY <2>1, <2>2
  <2> HIDE DEF old
  <2> QED BY <2>1, <2>3
<1>4. \A age \in Ages : Bound(age + 1) \in Ages
  BY LookupAssumption DEF Ages, Bound
<1> HIDE DEF old
<1>5. old \in RowType
  BY <1>2, <1>3, <1>4 DEF RowType
<1> QED BY <1>5 DEF old

LEMMA RestTyped ==
  /\ Typed(AtRest)
  /\ Typed([AtRest EXCEPT !.pc = "done"])
  /\ \A t \in Seq(Keys) : Typed([AtRest EXCEPT !.pc = "deciding", !.todo = t])
<1>1. DOMAIN <<>> = {} /\ <<>> \in Seq(Keys)
  OBVIOUS
<1> QED BY <1>1, NoAnswerTyped DEF AtRest, Typed

LEMMA OnwardTyped ==
  ASSUME NEW l \in Lookups, Sound(look[l]), Typed(look[l]), look[l].todo # <<>>
  PROVE  Typed(Onward(l))
<1>1. /\ Onward(l).pc = "deciding" /\ Onward(l).todo = Tail(look[l].todo)
      /\ Onward(l).answer = NoAnswer
      /\ Onward(l).rows = look[l].rows /\ Onward(l).found = look[l].found
  BY DEF Onward, Sound
<1>2. Tail(look[l].todo) \in Seq(Keys)
  BY DEF Typed
<1> QED BY <1>1, <1>2, NoAnswerTyped DEF Typed

(* A finding of a level there is, for the key the lookup is at.            *)
LEMMA FoundTyped ==
  ASSUME NEW l \in Lookups, Typed(look[l]), look[l].todo # <<>>, NEW row, row.level \in Levels
  PROVE  /\ Key(l) \in Keys
         /\ DOMAIN Found(l, row) = {Key(l)} \union DOMAIN look[l].found
         /\ DOMAIN Found(l, row) \subseteq Keys
         /\ \A k \in DOMAIN Found(l, row) : Found(l, row)[k].level \in Levels
<1> DEFINE new == [level |-> row.level, stale |-> Staleness(l, row)]
           found == With(look[l].found, Key(l), new)
<1>1. Key(l) \in Keys
  BY DEF Key, Typed
<1>2. new.level \in Levels
  OBVIOUS
<1> HIDE DEF new
<1>3. DOMAIN found = {Key(l)} \union DOMAIN look[l].found
  BY DEF With
<1>4. ASSUME NEW k \in DOMAIN found PROVE found[k].level \in Levels
  <2>1. CASE k = Key(l)
    <3>1. found[k] = new
      BY <2>1 DEF With
    <3> HIDE DEF found
    <3> QED BY <1>2, <3>1
  <2>2. CASE k # Key(l)
    <3>1. k \in DOMAIN look[l].found /\ found[k] = look[l].found[k]
      BY <2>2 DEF With
    <3> HIDE DEF found
    <3> QED BY <3>1 DEF Typed
  <2> QED BY <2>1, <2>2
<1>5. Found(l, row) = found
  BY DEF Found, new
<1> HIDE DEF found
<1> QED BY <1>1, <1>3, <1>4, <1>5 DEF Typed

(* One transaction changes, the tables do not.                             *)
LEMMA OneStaysTyped ==
  ASSUME AgeInv, LookInv, NEW l \in Lookups, NEW tx, Typed(tx), look' = [look EXCEPT ![l] = tx],
         UNCHANGED <<verdict, cache>>
  PROVE  LookInv'
<1>1. ASSUME NEW m \in Lookups PROVE Typed(look'[m])
  <2>1. CASE m = l
    BY <2>1 DEF AgeInv, LookSound
  <2>2. CASE m # l
    <3>1. look'[m] = look[m]
      BY <2>2 DEF AgeInv, LookSound
    <3> QED BY <3>1 DEF LookInv
  <2> QED BY <2>1, <2>2
<1> QED BY <1>1 DEF LookInv, Typed

LEMMA TickTyped == ASSUME AgeInv, LookInv, LookTick PROVE LookInv'
<1>1. \A k \in DOMAIN cache' : k \in Keys /\ cache'[k] \in RowType
  BY OlderTyped DEF LookTick, LookInv
<1>2. ASSUME NEW l \in Lookups PROVE Typed(look'[l])
  <2> DEFINE tx == look[l]
             rows == [k \in DOMAIN tx.rows |-> Older(tx.rows[k])]
  <2>1. Typed(tx) /\ Sound(tx)
    BY DEF LookInv, AgeInv, LookSound
  <2>2. CASE ~Running(l)
    <3>1. look'[l] = tx
      BY <2>2 DEF LookTick
    <3> QED BY <2>1, <3>1
  <2>3. CASE Running(l)
    <3>1. /\ look'[l].pc = tx.pc /\ look'[l].todo = tx.todo /\ look'[l].found = tx.found
          /\ look'[l].answer = Older(tx.answer) /\ look'[l].rows = rows
      BY <2>1, <2>3 DEF LookTick, Sound
    <3>2. \A k \in DOMAIN rows : k \in DOMAIN tx.rows /\ rows[k] = Older(tx.rows[k])
      OBVIOUS
    <3> HIDE DEF rows
    <3>3. \A k \in DOMAIN rows : k \in DOMAIN tx.found /\ rows[k] \in RowType
      BY <2>1, <3>2, OlderTyped DEF Typed
    <3>4. Older(tx.answer) \in RowType
      BY <2>1, OlderTyped DEF Typed
    <3> QED BY <2>1, <2>3, <3>1, <3>3, <3>4 DEF Typed, Running
  <2> QED BY <2>2, <2>3
<1>3. verdict' = verdict
  BY DEF LookTick
<1> QED BY <1>1, <1>2, <1>3 DEF LookInv, Typed

LEMMA UseCachedTyped == ASSUME AgeInv, LookInv, NEW l \in Lookups, UseCached(l) PROVE LookInv'
<1> DEFINE row == cache[Key(l)]
           tx == [Onward(l) EXCEPT !.found = Found(l, row)]
<1>1. Sound(look[l]) /\ Typed(look[l]) /\ look[l].todo # <<>>
  BY DEF AgeInv, LookSound, LookInv, UseCached
<1>2. row \in RowType
  BY DEF LookInv, UseCached, Fresh
<1>3. Typed(Onward(l)) /\ DOMAIN Onward(l) = {"pc", "todo", "since", "answer", "rows", "found"}
      /\ Onward(l).rows = look[l].rows /\ Onward(l).found = look[l].found
  BY <1>1, OnwardTyped, OnwardShape
<1>4. look' = [look EXCEPT ![l] = tx] /\ UNCHANGED <<verdict, cache>>
  BY DEF UseCached
<1>5. /\ tx.pc = Onward(l).pc /\ tx.todo = Onward(l).todo /\ tx.answer = Onward(l).answer
      /\ tx.rows = look[l].rows /\ tx.found = Found(l, row)
  BY <1>3
<1> HIDE DEF tx, row
<1>6. row.level \in Levels
  BY <1>2 DEF RowType
<1>7. /\ DOMAIN Found(l, row) = {Key(l)} \union DOMAIN look[l].found
      /\ DOMAIN Found(l, row) \subseteq Keys
      /\ \A k \in DOMAIN Found(l, row) : Found(l, row)[k].level \in Levels
  BY <1>1, <1>6, FoundTyped
<1>8. Typed(tx)
  BY <1>1, <1>3, <1>5, <1>7 DEF Typed
<1> QED BY <1>4, <1>8, OneStaysTyped

LEMMA AnswerTyped == ASSUME AgeInv, LookInv, NEW l \in Lookups, Answer(l) PROVE LookInv'
<1> DEFINE answer == [level |-> verdict[Key(l)], fetched |-> look[l].since, answered |-> 0]
           tx == [look[l] EXCEPT !.pc = "answered", !.answer = answer]
<1>1. Sound(look[l]) /\ Typed(look[l]) /\ look[l].pc = "asking" /\ look[l].todo # <<>>
  BY DEF AgeInv, LookSound, LookInv, Answer, Typed
<1>2. verdict[Key(l)] \in Levels
  BY <1>1 DEF LookInv, Typed, Key
<1>3. answer \in RowType
  <2>1. look[l].since \in Ages /\ 0 \in Ages
    BY <1>1, LookupAssumption DEF Sound, Ages
  <2> QED BY <1>2, <2>1 DEF RowType
<1>4. look' = [look EXCEPT ![l] = tx] /\ UNCHANGED <<verdict, cache>>
  BY DEF Answer
<1> HIDE DEF answer
<1>5. /\ tx.pc = "answered" /\ tx.todo = look[l].todo /\ tx.answer = answer
      /\ tx.rows = look[l].rows /\ tx.found = look[l].found
  BY <1>1 DEF Sound
<1> HIDE DEF tx
<1>6. Typed(tx)
  BY <1>1, <1>3, <1>5 DEF Typed
<1> QED BY <1>4, <1>6, OneStaysTyped

LEMMA UpsertTyped == ASSUME AgeInv, LookInv, NEW l \in Lookups, Upsert(l) PROVE LookInv'
<1> DEFINE row == look[l].answer
           rows == With(look[l].rows, Key(l), row)
           tx == [Onward(l) EXCEPT !.rows = rows, !.found = Found(l, row)]
<1>1. Sound(look[l]) /\ Typed(look[l]) /\ look[l].todo # <<>>
  BY DEF AgeInv, LookSound, LookInv, Upsert, Typed
<1>2. row \in RowType /\ row.level \in Levels
  BY <1>1 DEF Typed, RowType
<1>3. Typed(Onward(l)) /\ DOMAIN Onward(l) = {"pc", "todo", "since", "answer", "rows", "found"}
      /\ Onward(l).pc = "deciding"
  BY <1>1, OnwardTyped, OnwardShape
<1>4. look' = [look EXCEPT ![l] = tx] /\ UNCHANGED <<verdict, cache>>
  BY DEF Upsert
<1>5. /\ tx.pc = "deciding" /\ tx.todo = Onward(l).todo /\ tx.answer = Onward(l).answer
      /\ tx.rows = rows /\ tx.found = Found(l, row)
  BY <1>3
<1>6. \A k \in DOMAIN rows : \/ k = Key(l) /\ rows[k] = row
                             \/ k \in DOMAIN look[l].rows /\ rows[k] = look[l].rows[k]
  BY DEF With
<1> HIDE DEF tx, row, rows
<1>7. /\ DOMAIN Found(l, row) = {Key(l)} \union DOMAIN look[l].found
      /\ DOMAIN Found(l, row) \subseteq Keys
      /\ \A k \in DOMAIN Found(l, row) : Found(l, row)[k].level \in Levels
  BY <1>1, <1>2, FoundTyped
<1>8. \A k \in DOMAIN rows : k \in DOMAIN Found(l, row) /\ rows[k] \in RowType
  BY <1>1, <1>2, <1>6, <1>7 DEF Typed
<1>9. Typed(tx)
  BY <1>3, <1>5, <1>7, <1>8 DEF Typed
<1> QED BY <1>4, <1>9, OneStaysTyped

LEMMA LookEndsTyped == ASSUME AgeInv, LookInv, NEW l \in Lookups, LookEnds(l) PROVE LookInv'
<1> DEFINE rows == look[l].rows
           tx == [look[l] EXCEPT !.pc = "done", !.rows = <<>>, !.since = 0]
<1>1. Sound(look[l]) /\ Typed(look[l])
  BY DEF AgeInv, LookSound, LookInv
<1>2. /\ cache' = [k \in DOMAIN rows \union DOMAIN cache |->
                     IF k \in DOMAIN rows THEN rows[k] ELSE cache[k]]
      /\ look' = [look EXCEPT ![l] = tx] /\ verdict' = verdict
  BY DEF LookEnds
<1>3. \A k \in DOMAIN rows : k \in Keys /\ rows[k] \in RowType
  BY <1>1 DEF Typed
<1>4. \A k \in DOMAIN cache' : k \in Keys /\ cache'[k] \in RowType
  BY <1>2, <1>3 DEF LookInv
<1>5. /\ tx.pc = "done" /\ tx.todo = look[l].todo /\ tx.answer = look[l].answer
      /\ tx.rows = <<>> /\ tx.found = look[l].found
  BY <1>1 DEF Sound
<1> HIDE DEF tx, rows
<1>6. DOMAIN <<>> = {}
  OBVIOUS
<1>7. Typed(tx)
  BY <1>1, <1>5, <1>6 DEF Typed
<1>8. ASSUME NEW m \in Lookups PROVE Typed(look'[m])
  <2>1. look'[m] = IF m = l THEN tx ELSE look[m]
    BY <1>2 DEF AgeInv, LookSound
  <2> QED BY <1>7, <2>1 DEF LookInv
<1> QED BY <1>2, <1>4, <1>8 DEF LookInv, Typed

LEMMA OthersTyped ==
  ASSUME AgeInv, LookInv, NEW l \in Lookups,
         Ask(l) \/ ProviderFails(l) \/ LookStarts(l) \/ RolledBack(l) \/ Return(l)
  PROVE  LookInv'
<1>1. Sound(look[l]) /\ Typed(look[l])
  BY DEF AgeInv, LookSound, LookInv
<1>2. UNCHANGED <<verdict, cache>>
  BY DEF Ask, ProviderFails, LookStarts, RolledBack, Return
<1>3. PICK tx : Typed(tx) /\ look' = [look EXCEPT ![l] = tx]
  <2>1. CASE Ask(l)
    <3> DEFINE tx == [look[l] EXCEPT !.pc = "asking"]
    <3>1. look[l].pc = "deciding" /\ look[l].todo # <<>> /\ look' = [look EXCEPT ![l] = tx]
      BY <2>1 DEF Ask
    <3>2. /\ tx.pc = "asking" /\ tx.todo = look[l].todo /\ tx.answer = look[l].answer
          /\ tx.rows = look[l].rows /\ tx.found = look[l].found
      BY <1>1 DEF Sound
    <3> HIDE DEF tx
    <3>3. Typed(tx)
      BY <1>1, <3>1, <3>2 DEF Typed
    <3> QED BY <3>1, <3>3
  <2>2. CASE ProviderFails(l)
    <3>1. look[l].todo # <<>>
      BY <1>1, <2>2 DEF ProviderFails, Typed
    <3> QED BY <1>1, <2>2, <3>1, OnwardTyped DEF ProviderFails
  <2>3. CASE LookStarts(l)
    BY <2>3, RestTyped, KeysAreKeys DEF LookStarts
  <2>4. CASE RolledBack(l)
    BY <2>4, RestTyped DEF RolledBack
  <2>5. CASE Return(l)
    BY <2>5, RestTyped DEF Return
  <2> QED BY <2>1, <2>2, <2>3, <2>4, <2>5
<1> QED BY <1>1, <1>2, <1>3, OneStaysTyped
-----------------------------------------------------------------------------
(* A hunt: its hits are leads, and each has been written or is yet to be.  *)
HuntTyped(x) ==
  /\ DOMAIN x = {"pc", "left", "hits", "queue", "written"}
  /\ x.pc \in {"idle", "looking", "persisting"}
  /\ x.left \subseteq Indicators
  /\ DOMAIN x.hits \subseteq Keys /\ \A k \in DOMAIN x.hits : x.hits[k] \in Threshold .. Top
  /\ x.queue \in Seq(Keys) /\ ToSet(x.queue) \union x.written = DOMAIN x.hits
  /\ x.hits # <<>> <=> x.pc = "persisting"

(* No two hunts have written one row and not committed it.                 *)
WrittenApart == \A h, g \in Hunters : h # g => hunt[h].written \cap hunt[g].written = {}

HuntInv ==
  /\ DOMAIN findings \subseteq Keys /\ \A k \in DOMAIN findings : findings[k] \in Threshold .. Top
  /\ DOMAIN hunt = Hunters /\ \A h \in Hunters : HuntTyped(hunt[h])
  /\ WrittenApart

LEMMA NoHuntTyped == HuntTyped(NoHunt) /\ NoHunt.written = {}
<1>1. DOMAIN <<>> = {} /\ <<>> \in Seq(Keys) /\ ToSet(<<>>) = {}
  BY DEF ToSet
<1> QED BY <1>1 DEF HuntTyped, NoHunt

(* One hunt changes, and holds no row but its own.                         *)
LEMMA OneHuntTyped ==
  ASSUME HuntInv, NEW h \in Hunters, NEW x, HuntTyped(x), hunt' = [hunt EXCEPT ![h] = x],
         findings' = findings, \A g \in Hunters \ {h} : x.written \cap hunt[g].written = {}
  PROVE  HuntInv'
<1>1. /\ DOMAIN hunt' = Hunters /\ hunt'[h] = x
      /\ \A g \in Hunters \ {h} : hunt'[g] = hunt[g]
  BY DEF HuntInv
<1>2. \A g \in Hunters : HuntTyped(hunt'[g])
  BY <1>1 DEF HuntInv
<1>3. WrittenApart'
  BY <1>1 DEF HuntInv, WrittenApart
<1> QED BY <1>1, <1>2, <1>3 DEF HuntInv, HuntTyped

LEMMA LeaveHunt == ASSUME HuntInv, UNCHANGED huntVars PROVE HuntInv'
BY DEF HuntInv, huntVars, HuntTyped, WrittenApart

(* A sequence that lists a finite set without repetition lists all of it.  *)
LEMMA ListsAll ==
  ASSUME NEW S, IsFiniteSet(S), NEW s \in SetToSeqs(S)
  PROVE  s \in Seq(S) /\ ToSet(s) = S
<1> DEFINE n == Cardinality(S)
<1>1. n \in Nat /\ s \in [1..n -> S] /\ \A i, j \in 1..n : i # j => s[i] # s[j]
  BY FS_CardinalityType DEF SetToSeqs
<1>2. s \in Injection(1..n, S)
  BY <1>1 DEF Injection, IsInjective
<1>3. Cardinality(1..n) = n
  <2>1. 1 \in Int /\ n \in Int
    BY <1>1
  <2>2. Cardinality(1..n) = IF 1 > n THEN 0 ELSE n - 1 + 1
    BY <2>1, FS_Interval
  <2> QED BY <1>1, <2>2
<1>4. s \in Surjection(1..n, S)
  BY <1>2, <1>3, FS_Injection
<1>5. \A x \in S : \E i \in 1..n : s[i] = x
  BY <1>4 DEF Surjection
<1> HIDE DEF n
<1>6. DOMAIN s = 1..n
  BY <1>1
<1>7. ToSet(s) = S
  BY <1>1, <1>5, <1>6 DEF ToSet
<1> QED BY <1>1, <1>7

LEMMA KeysAreFinite == IsFiniteSet(Keys)
<1> DEFINE n == Len(Providers)
<1>1. n \in Nat /\ Providers \in [1..n -> ToSet(Providers)] /\ DOMAIN Providers = 1..n
  BY LookupAssumption
<1>2. IsFiniteSet(1..n)
  <2>1. 1 \in Int /\ n \in Int
    BY <1>1
  <2> QED BY <2>1, FS_Interval
<1>3. \A x \in ToSet(Providers) : \E i \in 1..n : Providers[i] = x
  BY <1>1 DEF ToSet
<1>4. Providers \in Surjection(1..n, ToSet(Providers))
  BY <1>1, <1>3 DEF Surjection
<1>5. IsFiniteSet(ToSet(Providers))
  BY <1>2, <1>4, FS_Surjection
<1> QED BY <1>5, HuntAssumption, FS_Product DEF Keys

(* The hits of a hunt are what its lookups have found of enough confidence.*)
LEMMA HitsAreLeads ==
  ASSUME LookInv, NEW h \in Hunters
  PROVE  /\ DOMAIN Hits(h) \subseteq Keys /\ IsFiniteSet(DOMAIN Hits(h))
         /\ \A k \in DOMAIN Hits(h) : Hits(h)[k] \in Threshold .. Top
         /\ Leads(h) # {} => DOMAIN Hits(h) # {}
<1>1. ASSUME NEW lead \in Leads(h) PROVE lead[1] \in Keys /\ lead[2] \in Threshold .. Top
  <2>1. PICK l \in Of(h) : lead \in {<<k, look[l].found[k].level>> :
                              k \in {q \in DOMAIN look[l].found : look[l].found[q].level >= Threshold}}
    BY <1>1 DEF Leads
  <2>2. PICK k \in DOMAIN look[l].found :
          look[l].found[k].level >= Threshold /\ lead = <<k, look[l].found[k].level>>
    BY <2>1
  <2>3. l \in Lookups
    BY HuntAssumption DEF Of
  <2>4. k \in Keys /\ look[l].found[k].level \in Levels
    BY <2>2, <2>3 DEF LookInv, Typed
  <2>5. look[l].found[k].level \in Threshold .. Top
    BY <2>2, <2>4, LookupAssumption, HuntAssumption DEF Levels
  <2> QED BY <2>2, <2>4, <2>5
<1>2. DOMAIN Hits(h) = {lead[1] : lead \in Leads(h)}
  BY DEF Hits
<1>3. ASSUME NEW k \in DOMAIN Hits(h) PROVE Hits(h)[k] \in Threshold .. Top
  <2> DEFINE pick == CHOOSE lead \in Leads(h) : lead[1] = k
  <2>1. \E lead \in Leads(h) : lead[1] = k
    BY <1>2, <1>3
  <2>2. pick \in Leads(h)
    BY <2>1
  <2>3. Hits(h)[k] = pick[2]
    BY <1>2, <1>3 DEF Hits
  <2> HIDE DEF pick
  <2> QED BY <1>1, <2>2, <2>3
<1>4. DOMAIN Hits(h) \subseteq Keys
  BY <1>1, <1>2
<1>5. IsFiniteSet(DOMAIN Hits(h))
  BY <1>4, KeysAreFinite, FS_Subset
<1> QED BY <1>2, <1>3, <1>4, <1>5

LEMMA GatheredTyped ==
  ASSUME LookInv, HuntInv, NEW h \in Hunters, Gathered(h)
  PROVE  HuntInv'
<1>1. CASE Leads(h) = {}
  BY <1>1, NoHuntTyped, OneHuntTyped DEF Gathered
<1>2. CASE Leads(h) # {}
  <2>1. PICK order \in Orders(Hits(h)) : hunt' = [hunt EXCEPT ![h] =
          [NoHunt EXCEPT !.pc = "persisting", !.hits = Hits(h), !.queue = order]]
    BY <1>2 DEF Gathered
  <2> DEFINE x == [NoHunt EXCEPT !.pc = "persisting", !.hits = Hits(h), !.queue = order]
  <2>2. /\ DOMAIN x = {"pc", "left", "hits", "queue", "written"} /\ x.pc = "persisting"
        /\ x.left = {} /\ x.hits = Hits(h) /\ x.queue = order /\ x.written = {}
    BY DEF NoHunt
  <2> HIDE DEF x
  <2>3. order \in Seq(DOMAIN Hits(h)) /\ ToSet(order) = DOMAIN Hits(h)
    BY HitsAreLeads, ListsAll DEF Orders
  <2>4. order \in Seq(Keys)
    BY <2>3, HitsAreLeads
  <2>5. DOMAIN <<>> = {}
    OBVIOUS
  <2>6. Hits(h) # <<>>
    BY <1>2, <2>5, HitsAreLeads
  <2>7. HuntTyped(x)
    BY <2>2, <2>3, <2>4, <2>6, HitsAreLeads DEF HuntTyped
  <2>8. hunt' = [hunt EXCEPT ![h] = x] /\ findings' = findings
    BY <2>1 DEF Gathered, x
  <2> QED BY <2>2, <2>7, <2>8, OneHuntTyped
<1> QED BY <1>1, <1>2

LEMMA PersistRowTyped ==
  ASSUME HuntInv, NEW h \in Hunters, PersistRow(h)
  PROVE  HuntInv'
<1> DEFINE x == hunt[h]
           row == Head(x.queue)
           y == [x EXCEPT !.queue = Tail(@), !.written = @ \union {row}]
<1>1. /\ x.queue # <<>> /\ hunt' = [hunt EXCEPT ![h] = y] /\ findings' = findings
      /\ \A g \in Hunters : g # h => row \notin hunt[g].written
  BY DEF PersistRow, HuntWaits, HuntInv
<1>2. HuntTyped(x) /\ \A g \in Hunters \ {h} : x.written \cap hunt[g].written = {}
  BY DEF HuntInv, WrittenApart
<1>3. /\ DOMAIN y = DOMAIN x /\ y.pc = x.pc /\ y.left = x.left /\ y.hits = x.hits
      /\ y.queue = Tail(x.queue) /\ y.written = x.written \union {row}
  BY <1>2 DEF HuntTyped
<1>4. ToSet(x.queue) = {row} \union ToSet(Tail(x.queue)) /\ Tail(x.queue) \in Seq(Keys)
  <2> DEFINE s == x.queue
  <2>1. s \in Seq(Keys) /\ s # <<>>
    BY <1>1, <1>2 DEF HuntTyped
  <2> HIDE DEF s, x
  <2>2. /\ DOMAIN s = 1..Len(s) /\ Len(s) \in Nat \ {0} /\ Head(s) = s[1]
        /\ Tail(s) \in Seq(Keys) /\ DOMAIN Tail(s) = 1..(Len(s) - 1)
        /\ \A i \in 1..(Len(s) - 1) : Tail(s)[i] = s[i + 1]
    BY <2>1
  <2>3. ToSet(s) \subseteq {Head(s)} \union ToSet(Tail(s))
    <3> SUFFICES ASSUME NEW i \in 1..Len(s) PROVE s[i] \in {Head(s)} \union ToSet(Tail(s))
      BY <2>2 DEF ToSet
    <3>1. CASE i = 1
      BY <2>2, <3>1
    <3>2. CASE i # 1
      <4>1. i - 1 \in 1..(Len(s) - 1) /\ Tail(s)[i - 1] = s[i]
        BY <2>2, <3>2
      <4> QED BY <2>2, <4>1 DEF ToSet
    <3> QED BY <3>1, <3>2
  <2>4. {Head(s)} \union ToSet(Tail(s)) \subseteq ToSet(s)
    <3>1. 1 \in 1..Len(s) /\ \A i \in 1..(Len(s) - 1) : i + 1 \in 1..Len(s)
      BY <2>2
    <3> QED BY <2>2, <3>1 DEF ToSet
  <2> QED BY <2>2, <2>3, <2>4 DEF s
<1> HIDE DEF x, y, row
<1>5. HuntTyped(y)
  BY <1>2, <1>3, <1>4 DEF HuntTyped
<1>6. \A g \in Hunters \ {h} : y.written \cap hunt[g].written = {}
  BY <1>1, <1>2, <1>3
<1> QED BY <1>1, <1>5, <1>6, OneHuntTyped

LEMMA PersistEndsTyped ==
  ASSUME HuntInv, NEW h \in Hunters, PersistEnds(h)
  PROVE  HuntInv'
<1> DEFINE x == hunt[h]
<1>1. /\ hunt' = [hunt EXCEPT ![h] = NoHunt]
      /\ findings' = [k \in x.written \union DOMAIN findings |->
                        IF k \in x.written THEN Upserts(h)[k] ELSE findings[k]]
  BY DEF PersistEnds
<1>2. \A k \in x.written : k \in Keys /\ Upserts(h)[k] \in Threshold .. Top
  BY DEF Upserts, HuntInv, HuntTyped
<1> HIDE DEF x
<1>3. \A k \in DOMAIN findings' : k \in Keys /\ findings'[k] \in Threshold .. Top
  BY <1>1, <1>2 DEF HuntInv
<1>4. /\ DOMAIN hunt' = Hunters
      /\ \A g \in Hunters : hunt'[g] = IF g = h THEN NoHunt ELSE hunt[g]
  BY <1>1 DEF HuntInv
<1>5. \A g \in Hunters : HuntTyped(hunt'[g])
  BY <1>4, NoHuntTyped DEF HuntInv
<1>6. WrittenApart'
  BY <1>4, NoHuntTyped DEF HuntInv, WrittenApart
<1> QED BY <1>3, <1>4, <1>5, <1>6 DEF HuntInv, HuntTyped

LEMMA OtherHuntsTyped ==
  ASSUME HuntInv, NEW h \in Hunters
  PROVE  /\ Begin(h) => HuntInv'
         /\ \A i \in Indicators : Check(h, i) => HuntInv'
         /\ HuntVictim(h) => HuntInv'
<1>1. ASSUME Begin(h) PROVE HuntInv'
  <2> DEFINE x == [NoHunt EXCEPT !.pc = "looking", !.left = Indicators]
  <2>1. HuntTyped(x) /\ x.written = {}
    <3>1. DOMAIN <<>> = {} /\ <<>> \in Seq(Keys) /\ ToSet(<<>>) = {}
      BY DEF ToSet
    <3> QED BY <3>1 DEF HuntTyped, NoHunt
  <2>2. hunt' = [hunt EXCEPT ![h] = x] /\ findings' = findings
    BY <1>1 DEF Begin
  <2> HIDE DEF x
  <2> QED BY <2>1, <2>2, OneHuntTyped
<1>2. ASSUME NEW i \in Indicators, Check(h, i) PROVE HuntInv'
  <2> DEFINE x == [hunt[h] EXCEPT !.left = @ \ {i}]
  <2>1. HuntTyped(hunt[h])
    BY DEF HuntInv
  <2>2. /\ DOMAIN x = DOMAIN hunt[h] /\ x.pc = hunt[h].pc /\ x.left = hunt[h].left \ {i}
        /\ x.hits = hunt[h].hits /\ x.queue = hunt[h].queue /\ x.written = hunt[h].written
    BY <2>1 DEF HuntTyped
  <2>3. hunt' = [hunt EXCEPT ![h] = x] /\ findings' = findings
    BY <1>2 DEF Check, HuntInv
  <2> HIDE DEF x
  <2>4. HuntTyped(x)
    BY <2>1, <2>2 DEF HuntTyped
  <2>5. \A g \in Hunters \ {h} : x.written \cap hunt[g].written = {}
    BY <2>2 DEF HuntInv, WrittenApart
  <2> QED BY <2>3, <2>4, <2>5, OneHuntTyped
<1>3. ASSUME HuntVictim(h) PROVE HuntInv'
  BY <1>3, NoHuntTyped, OneHuntTyped DEF HuntVictim
<1> QED BY <1>1, <1>2, <1>3
-----------------------------------------------------------------------------
TypeInv == AgeInv /\ LookInv /\ HuntInv

LEMMA InitTyped == Init => LookInv /\ HuntInv
<1> SUFFICES ASSUME Init PROVE LookInv /\ HuntInv
  OBVIOUS
<1>1. DOMAIN <<>> = {}
  OBVIOUS
<1>2. LookInv
  BY <1>1, RestTyped DEF Init, LookInit, LookInv
<1>3. HuntInv
  BY <1>1, NoHuntTyped DEF Init, HuntInv, WrittenApart
<1> QED BY <1>2, <1>3

LEMMA NextTyped == TypeInv /\ [Next]_vars => LookInv' /\ HuntInv'
<1> SUFFICES ASSUME AgeInv, LookInv, HuntInv, [Next]_vars PROVE LookInv' /\ HuntInv'
  BY DEF TypeInv
<1>1. ASSUME UNCHANGED lookVars PROVE LookInv'
  BY <1>1 DEF lookVars, LookInv, Typed
<1>2. CASE Tick
  BY <1>2, TickTyped, LeaveHunt DEF Tick
<1>3. ASSUME NEW k \in Keys, ProviderTurns(k) PROVE LookInv' /\ HuntInv'
  <2>1. UNCHANGED <<cache, look, huntVars>> /\ verdict' \in [Keys -> Levels]
    BY <1>3 DEF ProviderTurns, LookInv
  <2>2. LookInv'
    BY <2>1 DEF LookInv, Typed
  <2> QED BY <2>1, <2>2, LeaveHunt
<1>4. ASSUME NEW l \in Lookups, LookStep(l) PROVE LookInv' /\ HuntInv'
  <2>1. UNCHANGED huntVars
    BY <1>4 DEF LookStep
  <2>2. CASE UseCached(l)
    BY <2>1, <2>2, UseCachedTyped, LeaveHunt
  <2>3. CASE Answer(l)
    BY <2>1, <2>3, AnswerTyped, LeaveHunt
  <2>4. CASE Upsert(l)
    BY <2>1, <2>4, UpsertTyped, LeaveHunt
  <2>5. CASE LookEnds(l)
    BY <2>1, <2>5, LookEndsTyped, LeaveHunt
  <2>6. CASE Ask(l) \/ ProviderFails(l) \/ RolledBack(l)
    BY <2>1, <2>6, OthersTyped, LeaveHunt
  <2> QED BY <1>4, <2>2, <2>3, <2>4, <2>5, <2>6 DEF LookStep, LookSteps, LookVictim
<1>5. ASSUME NEW l \in Lookups, LookAborts(l) \/ Requested(l) \/ Answered(l)
      PROVE  LookInv' /\ HuntInv'
  BY <1>5, OthersTyped, LeaveHunt DEF LookAborts, LookFails, Requested, Answered
<1>6. ASSUME NEW h \in Hunters, Begin(h) \/ HuntStep(h) PROVE LookInv' /\ HuntInv'
  <2>1. ASSUME NEW i \in Indicators, Check(h, i) PROVE LookInv' /\ HuntInv'
    BY <2>1, HuntLookups, OthersTyped, OtherHuntsTyped DEF Check
  <2>2. CASE Gathered(h)
    <3>1. look' = [l \in Lookups |-> IF l \in Of(h) THEN AtRest ELSE look[l]]
          /\ UNCHANGED <<verdict, cache>>
      BY <2>2 DEF Gathered
    <3>2. \A l \in Lookups : Typed(look'[l])
      BY <3>1, RestTyped DEF LookInv
    <3>3. LookInv'
      BY <3>1, <3>2 DEF LookInv, Typed
    <3> QED BY <2>2, <3>3, GatheredTyped
  <2>3. CASE Begin(h) \/ HuntVictim(h)
    BY <1>1, <2>3, OtherHuntsTyped DEF Begin, HuntVictim
  <2>4. CASE PersistRow(h) \/ PersistEnds(h)
    BY <1>1, <2>4, PersistRowTyped, PersistEndsTyped DEF PersistRow, PersistEnds
  <2> QED BY <1>6, <2>1, <2>2, <2>3, <2>4 DEF HuntStep, HuntWork
<1>7. CASE UNCHANGED vars
  BY <1>1, <1>7, LeaveHunt DEF vars
<1> QED BY <1>2, <1>3, <1>4, <1>5, <1>6, <1>7 DEF Next, Surroundings, Requests

(* hunt_findings holds leads and nothing else: each row is of an indicator *)
(* and a provider there are, with a confidence the provider gave that is   *)
(* at least the threshold, however hunts, lookups, deadlocks and changing  *)
(* minds interleave.  A hunt has written or has yet to write each of its   *)
(* hits, and no two hunts hold one row.                                    *)
THEOREM FindingsAreLeads == Spec => []TypeOK /\ []WrittenApart
<1>1. TypeInv => TypeOK /\ WrittenApart
  <2> SUFFICES ASSUME AgeInv, LookInv, HuntInv PROVE TypeOK /\ WrittenApart
    BY DEF TypeInv
  <2>1. LookTypeOK
    BY DEF LookTypeOK, LookInv, Typed, AgeInv, LookSound, Sound, Running
  <2> QED BY <2>1 DEF TypeOK, HuntInv, HuntTyped
<1>2. Init => LookInv /\ HuntInv
  BY InitTyped
<1>3. AgeInv /\ LookInv /\ HuntInv /\ [Next]_vars => LookInv' /\ HuntInv'
  BY NextTyped DEF TypeInv
<1>4. AgeInv /\ LookInv /\ HuntInv => TypeOK /\ WrittenApart
  BY <1>1 DEF TypeInv
<1> QED BY <1>2, <1>3, <1>4, AgeInvariant, PTL DEF Spec
=============================================================================
