----------------------- MODULE TechniqueMappingProofs -----------------------
(***************************************************************************)
(* The mappings of events to techniques, for any events, rules, AI runs,   *)
(* replies, batch size and number of failures: vendor mappings stand       *)
(* alone, a rebuild is whole, and what is committed stays.                 *)
(*                                                                         *)
(* The first invariant follows a row from the moment a writer plans it:    *)
(* its event is stored and carries no vendor mapping, and only an ingest,  *)
(* of an event not yet stored, brings one.  The second counts what the     *)
(* script has inserted and not committed, and what the others got in       *)
(* before it, towards what it has rebuilt up to last_id.                   *)
(***************************************************************************)
EXTENDS TechniqueMapping, AnalysisProofs, FiniteSetTheorems, SequenceTheorems, WellFoundedInduction, TLAPS

(* Sequences, told by the set of their elements.                           *)
Listed(s) == s \in Seq(ToSet(s))

LEMMA ListedIff ==
  ASSUME NEW s, NEW n \in Nat, s = [i \in 1..n |-> s[i]]
  PROVE  Listed(s) /\ ToSet(s) = {s[i] : i \in 1..n}
<1> DEFINE T == {s[i] : i \in 1..n}
<1>1. DOMAIN s = 1..n
  OBVIOUS
<1>2. ToSet(s) = T
  BY <1>1 DEF ToSet
<1>3. \A i \in 1..n : s[i] \in T
  OBVIOUS
<1>4. s \in Seq(T)
  <2> HIDE DEF T
  <2>1. s \in [1..n -> T]
    BY <1>3
  <2> QED BY <2>1
<1> QED BY <1>2, <1>4 DEF Listed

(* An order of a finite set lists every element of it.                     *)
LEMMA OrdersAreListed ==
  ASSUME NEW S, IsFiniteSet(S), NEW Before(_, _), NEW s \in Orders(S, Before)
  PROVE  Listed(s) /\ ToSet(s) = S
<1> DEFINE n == Cardinality(S)
<1>1. n \in Nat
  BY FS_CardinalityType
<1>2. s \in [1..n -> S] /\ IsInjective(s)
  BY DEF Orders
<1>3. s \in Injection(1..n, S)
  BY <1>2 DEF Injection, IsInjective
<1>4. Cardinality(1..n) = n
  BY <1>1, FS_Interval
<1>5. s \in Surjection(1..n, S)
  <2> HIDE DEF n
  <2>1. Cardinality(1..n) = Cardinality(S)
    BY <1>4 DEF n
  <2> QED BY <1>3, <2>1, FS_Injection
<1>6. s = [i \in 1..n |-> s[i]] /\ S = {s[i] : i \in 1..n}
  <2> HIDE DEF n
  <2> QED BY <1>2, <1>5 DEF Surjection
<1> HIDE DEF n
<1> QED BY <1>1, <1>6, ListedIff

LEMMA TailIsListed ==
  ASSUME NEW s, Listed(s), s # <<>>
  PROVE  /\ Listed(Tail(s)) /\ ToSet(Tail(s)) \subseteq ToSet(s) /\ Head(s) \in ToSet(s)
         /\ ToSet(s) = {Head(s)} \union ToSet(Tail(s))
<1> DEFINE T == ToSet(s)
           n == Len(s)
<1>1. s \in Seq(T) /\ n \in Nat /\ DOMAIN s = 1..n /\ n > 0
  BY DEF Listed
<1>2. Head(s) = s[1] /\ 1 \in DOMAIN s
  BY <1>1
<1>3. /\ Tail(s) \in Seq(T) /\ Len(Tail(s)) = n - 1 /\ DOMAIN Tail(s) = 1..(n - 1)
      /\ \A i \in 1..(n - 1) : Tail(s)[i] = s[i + 1]
  BY <1>1
<1>4. \A i \in 1..(n - 1) : i + 1 \in DOMAIN s
  BY <1>1
<1>5. \A i \in 1..n : i = 1 \/ (i - 1 \in 1..(n - 1) /\ s[i] = Tail(s)[i - 1])
  BY <1>1, <1>3
<1>6. ToSet(Tail(s)) \subseteq ToSet(s)
  BY <1>1, <1>3, <1>4 DEF ToSet
<1>7. Listed(Tail(s)) /\ ToSet(Tail(s)) = {Tail(s)[i] : i \in 1..(n - 1)}
  <2>1. n - 1 \in Nat
    BY <1>1
  <2>2. Tail(s) \in [1 .. Len(Tail(s)) -> T]
    <3>1. Tail(s) \in Seq(T)
      BY <1>3
    <3> HIDE DEF T
    <3> QED BY <3>1, LenProperties
  <2>3. Tail(s) = [i \in 1..(n - 1) |-> Tail(s)[i]]
    BY <1>3, <2>2
  <2> HIDE DEF n
  <2> QED BY <2>1, <2>3, ListedIff
<1>8. ToSet(s) \subseteq {Head(s)} \union ToSet(Tail(s))
  <2>1. ASSUME NEW i \in 1..n PROVE s[i] \in {Head(s)} \union ToSet(Tail(s))
    <3>1. CASE i = 1
      BY <1>2, <3>1
    <3>2. CASE i - 1 \in 1..(n - 1) /\ s[i] = Tail(s)[i - 1]
      BY <1>7, <3>2
    <3> HIDE DEF n
    <3> QED BY <1>5, <3>1, <3>2
  <2> HIDE DEF n
  <2> QED BY <1>1, <2>1 DEF ToSet
<1>9. Head(s) \in ToSet(s)
  BY <1>1, <1>2 DEF ToSet
<1> QED BY <1>6, <1>7, <1>8, <1>9

LEMMA EmptyIsListed == Listed(<<>>) /\ ToSet(<<>>) = {}
  BY DEF Listed, ToSet
-----------------------------------------------------------------------------
(* What the writers plan to insert: finitely many rows, of known source.   *)
LEMMA EventsAreFinite == Events \subseteq Nat /\ IsFiniteSet(Events)
  BY TechniqueMappingAssumption

LEMMA FewRules ==
  ASSUME NEW e \in Events
  PROVE  IsFiniteSet(RuleRows[e]) /\ \A r \in RuleRows[e] : r.event = e /\ r.source = "rules"
<1> DEFINE C == Classify(ContentOf[e])
           f == [m \in C |-> Row(e, m[1], "rules", m[2])]
<1>1. RuleRows[e] = {Row(e, m[1], "rules", m[2]) : m \in C}
  BY DEF RuleRows
<1>2. IsFiniteSet(C)
  BY FewMatches
<1>3. f \in Surjection(C, RuleRows[e])
  <2> HIDE DEF C
  <2> QED BY <1>1 DEF Surjection
<1>4. IsFiniteSet(RuleRows[e])
  <2> HIDE DEF f, C
  <2> QED BY <1>2, <1>3, FS_Surjection
<1>5. \A r \in RuleRows[e] : r.event = e /\ r.source = "rules"
  <2> HIDE DEF C
  <2> QED BY <1>1 DEF Row
<1> QED BY <1>4, <1>5

LEMMA FewScriptRows ==
  ASSUME NEW page, page \subseteq Events
  PROVE  /\ IsFiniteSet(UNION {ScriptRows(e) : e \in page})
         /\ \A r \in UNION {ScriptRows(e) : e \in page} :
              /\ r.event \in page /\ r.source = "rules"
              /\ VendorIdsOf[r.event] = {} /\ r \in RuleRows[r.event]
<1> DEFINE sets == {ScriptRows(e) : e \in page}
           f == [e \in page |-> ScriptRows(e)]
<1>1. IsFiniteSet(page)
  BY EventsAreFinite, FS_Subset
<1>2. f \in Surjection(page, sets)
  BY DEF Surjection
<1>3. IsFiniteSet(sets)
  <2> HIDE DEF f, sets
  <2> QED BY <1>1, <1>2, FS_Surjection
<1>4. \A e \in page : IsFiniteSet(ScriptRows(e))
  BY FewRules, FS_EmptySet DEF ScriptRows
<1>5. \A T \in sets : IsFiniteSet(T)
  BY <1>4
<1>6. IsFiniteSet(UNION sets)
  <2> HIDE DEF sets
  <2> QED BY <1>3, <1>5, FS_UNION
<1>7. ASSUME NEW e \in page, NEW r \in ScriptRows(e)
      PROVE  r.event = e /\ r.source = "rules" /\ VendorIdsOf[e] = {} /\ r \in RuleRows[e]
  BY <1>7, FewRules DEF ScriptRows
<1>8. \A r \in UNION sets :
        /\ r.event \in page /\ r.source = "rules"
        /\ VendorIdsOf[r.event] = {} /\ r \in RuleRows[r.event]
  BY <1>7
<1> QED BY <1>6, <1>8

(* What an AI run asks about: groups of the untagged events.               *)
LEMMA RankedAreGroups ==
  ASSUME NEW untagged, untagged \subseteq Events, NEW ranking \in Ranked(untagged)
  PROVE  Listed(ranking) /\ \A group \in ToSet(ranking) : group \subseteq untagged
<1> DEFINE G == Groups(untagged)
<1>1. IsFiniteSet(SUBSET untagged) /\ G \subseteq SUBSET untagged
  BY EventsAreFinite, FS_Subset, FS_SUBSET DEF Groups
<1>2. IsFiniteSet(G)
  BY <1>1, FS_Subset
<1>3. PICK all \in Orders(G, Larger) : ranking = SubSeq(all, 1, Min({Len(all), MaxSignatures}))
  BY DEF Ranked
<1>4. Cardinality(G) \in Nat /\ all \in [1 .. Cardinality(G) -> G]
  BY <1>2, <1>3, FS_CardinalityType DEF Orders
<1>5. all \in Seq(G) /\ Len(all) \in Nat
  BY <1>4
<1> DEFINE cut == Min({Len(all), MaxSignatures})
<1>6. cut \in Nat /\ cut <= Len(all)
  <2>1. MaxSignatures \in Nat
    BY TechniqueMappingAssumption
  <2>2. \E x \in {Len(all), MaxSignatures} : \A y \in {Len(all), MaxSignatures} : x =< y
    BY <1>5, <2>1
  <2>3. cut \in {Len(all), MaxSignatures} /\ \A y \in {Len(all), MaxSignatures} : cut =< y
    BY <2>2 DEF Min
  <2> QED BY <1>5, <2>1, <2>3
<1>7. ranking = [i \in 1..cut |-> all[i]]
  <2> HIDE DEF cut
  <2>1. ranking = SubSeq(all, 1, cut)
    BY <1>3 DEF cut
  <2> QED BY <1>5, <1>6, <2>1
<1>8. \A i \in 1..cut : ranking[i] = all[i] /\ all[i] \in G
  <2> HIDE DEF cut, G
  <2>1. ASSUME NEW i \in 1..cut PROVE all[i] \in G
    BY <1>5, <1>6
  <2> QED BY <1>7, <2>1
<1>9. Listed(ranking) /\ ToSet(ranking) = {ranking[i] : i \in 1..cut}
  <2>1. ranking = [i \in 1..cut |-> ranking[i]]
    BY <1>7
  <2> HIDE DEF cut
  <2> QED BY <1>6, <2>1, ListedIff
<1>10. ToSet(ranking) \subseteq G
  <2> HIDE DEF cut, G
  <2> QED BY <1>8, <1>9
<1> QED BY <1>1, <1>9, <1>10

(* What they insert of an answer: AI rows of the events of the group.      *)
LEMMA FannedOutAreRows ==
  ASSUME NEW group, group \subseteq Events, NEW reply \in Replies, NEW s \in FannedOut(group, reply)
  PROVE  Listed(s) /\ \A r \in ToSet(s) : r.event \in group /\ r.source = "ai"
<1> DEFINE P == group \X Proposed(reply, Catalogue)
<1>1. IsFiniteSet(group) /\ IsFiniteSet(Proposed(reply, Catalogue))
  <2>1. Proposed(reply, Catalogue) \subseteq DOMAIN reply /\ IsFiniteSet(DOMAIN reply)
    BY TechniqueMappingAssumption DEF Proposed
  <2> QED BY <2>1, EventsAreFinite, FS_Subset
<1>2. IsFiniteSet(P)
  BY <1>1, FS_Product
<1>3. PICK order \in [1 .. Cardinality(P) -> P] :
        s = [n \in DOMAIN order |-> Row(order[n][1], reply[order[n][2]][1], "ai",
                                        Clamped(reply[order[n][2]][2], Cap))]
  BY DEF FannedOut, Orders
<1>4. Cardinality(P) \in Nat
  BY <1>2, FS_CardinalityType
<1>5. ASSUME NEW n \in DOMAIN order PROVE s[n].event \in group /\ s[n].source = "ai"
  <2>1. order[n] \in P
    BY <1>3
  <2>2. order[n][1] \in group
    BY <2>1
  <2>3. s[n] = Row(order[n][1], reply[order[n][2]][1], "ai", Clamped(reply[order[n][2]][2], Cap))
    BY <1>3
  <2> QED BY <2>2, <2>3 DEF Row
<1>6. DOMAIN s = 1 .. Cardinality(P) /\ DOMAIN order = DOMAIN s
  BY <1>3
<1>7. s = [n \in 1 .. Cardinality(P) |-> s[n]]
  BY <1>3
<1>8. Listed(s)
  <2> HIDE DEF P
  <2> QED BY <1>4, <1>7, ListedIff
<1> QED BY <1>5, <1>6, <1>8 DEF ToSet
-----------------------------------------------------------------------------
(* A page holds the events that follow last_id, without a gap, and it is   *)
(* empty only when none follows.                                           *)
LEMMA PageFollows ==
  ASSUME stored \subseteq Events, lastId \in Nat
  PROVE  /\ Page \subseteq stored
         /\ Page # {} => /\ Max(Page) \in Nat
                         /\ \A e \in Page : e <= Max(Page)
                         /\ \A e \in stored : e <= Max(Page) => e <= lastId \/ e \in Page
         /\ Page = {} => \A e \in stored : e <= lastId
<1> DEFINE rest == {e \in stored : e > lastId}
           upTo(e) == {d \in rest : d <= e}
<1>1. Page = {e \in rest : Cardinality(upTo(e)) <= Batch}
  BY DEF Page
<1>2. rest \subseteq Nat /\ IsFiniteSet(rest)
  BY EventsAreFinite, FS_Subset
<1>3. Page \subseteq rest /\ IsFiniteSet(Page)
  BY <1>1, <1>2, FS_Subset
<1>4. \A e \in rest : IsFiniteSet(upTo(e)) /\ Cardinality(upTo(e)) \in Nat
  <2>1. \A e \in rest : IsFiniteSet(upTo(e))
    BY <1>2, FS_Subset
  <2> QED BY <2>1, FS_CardinalityType
<1>5. Batch \in Nat \ {0}
  BY TechniqueMappingAssumption
<1>6. ASSUME Page # {} PROVE /\ Max(Page) \in Page
                             /\ \A e \in Page : e <= Max(Page)
  <2>1. Page \subseteq Nat
    BY <1>2, <1>3
  <2> QED BY <1>3, <1>6, <2>1, GreatestExists
<1>7. ASSUME Page # {}, NEW e \in stored, e <= Max(Page), ~(e <= lastId) PROVE e \in Page
  <2>1. e \in rest /\ Max(Page) \in rest
    <3>1. e \in rest
      BY <1>7, EventsAreFinite
    <3>2. Max(Page) \in rest
      BY <1>3, <1>6, <1>7
    <3> QED BY <3>1, <3>2
  <2>2. upTo(e) \subseteq upTo(Max(Page))
    <3>1. \A d \in rest : d \in Nat
      BY <1>2
    <3>2. \A d \in rest : d <= e => d <= Max(Page)
      BY <1>7, <2>1, <3>1
    <3> QED BY <3>2
  <2>3. Cardinality(upTo(e)) <= Cardinality(upTo(Max(Page)))
    BY <1>4, <2>1, <2>2, FS_Subset
  <2>4. Cardinality(upTo(Max(Page))) <= Batch
    BY <1>1, <1>6, <1>7
  <2>5. Cardinality(upTo(e)) \in Nat /\ Cardinality(upTo(Max(Page))) \in Nat
    BY <1>4, <2>1
  <2>6. Cardinality(upTo(e)) <= Batch
    <3> HIDE DEF upTo
    <3> QED BY <1>5, <2>3, <2>4, <2>5
  <2> QED BY <1>1, <2>1, <2>6
<1>8. ASSUME Page = {}, NEW e \in stored, ~(e <= lastId) PROVE FALSE
  <2>1. e \in rest
    BY <1>8, EventsAreFinite
  <2>2. PICK m \in rest : \A n \in rest : m <= n
    BY <1>2, <2>1, LeastExists
  <2>3. upTo(m) = {m}
    <3>1. \A d \in rest : d \in Nat /\ m <= d
      BY <1>2, <2>2
    <3>2. \A d \in rest : d <= m => d = m
      BY <3>1
    <3>3. m <= m
      BY <3>1
    <3> QED BY <3>2, <3>3
  <2>4. Cardinality(upTo(m)) = 1
    BY <2>3, FS_Singleton
  <2>5. m \in Page
    <3> HIDE DEF upTo
    <3> QED BY <1>1, <1>5, <2>2, <2>4
  <2> QED BY <1>8, <2>5
<1> HIDE DEF rest, upTo
<1>9. \A e \in rest : e \in stored /\ e \in Nat
  BY <1>2 DEF rest
<1> QED BY <1>3, <1>6, <1>7, <1>8, <1>9
-----------------------------------------------------------------------------
(* The shape of the variables.                                             *)
Shape ==
  /\ stored \subseteq Events /\ began \subseteq stored /\ lastId \in Nat
  /\ DOMAIN pc = Writers /\ DOMAIN todo = Writers /\ DOMAIN rows = Writers /\ DOMAIN groups = AiRuns
  /\ \A w \in Writers : Listed(todo[w])
  /\ \A a \in AiRuns : Listed(groups[a]) /\ \A group \in ToSet(groups[a]) : group \subseteq stored


LEMMA WritersAreTwoKinds == AiRuns \subseteq Writers /\ script \in Writers /\ script \notin AiRuns
  BY TechniqueMappingAssumption DEF Writers

LEMMA ShapeStep == Shape /\ [Next]_vars => Shape'
<1> SUFFICES ASSUME Shape, [Next]_vars PROVE Shape'
  OBVIOUS
<1> USE WritersAreTwoKinds
<1>1. ASSUME NEW e \in Events, Ingest(e) PROVE Shape'
  BY <1>1 DEF Shape, Ingest
<1>2. CASE Wipe
  BY <1>2 DEF Shape, Wipe
<1>3. CASE Scan
  <2>1. PICK order \in Orders(UNION {ScriptRows(e) : e \in Page}, LAMBDA r, s : r.event < s.event) :
          todo' = [todo EXCEPT ![script] = order]
    BY <1>3 DEF Scan
  <2>2. Page \subseteq Events /\ Max(Page) \in Nat
    BY <1>3, PageFollows DEF Shape, Scan
  <2>3. Listed(order)
    BY <2>1, <2>2, FewScriptRows, OrdersAreListed
  <2> QED BY <1>3, <2>1, <2>2, <2>3 DEF Shape, Scan, Reached
<1>4. CASE CommitBatch
  BY <1>4 DEF Shape, CommitBatch, Commit
<1>5. CASE Done
  BY <1>5 DEF Shape, Done
<1>6. ASSUME NEW a \in AiRuns, BeginAi(a) PROVE Shape'
  <2>1. PICK ranking \in Ranked({e \in Unclassified : Described(e)}) :
          groups' = [groups EXCEPT ![a] = ranking]
    BY <1>6 DEF BeginAi
  <2>2. {e \in Unclassified : Described(e)} \subseteq Events \cap stored
    BY DEF Shape, Unclassified
  <2>3. /\ Listed(ranking)
        /\ \A group \in ToSet(ranking) : group \subseteq {e \in Unclassified : Described(e)}
    BY <2>2, RankedAreGroups
  <2>4. \A group \in ToSet(ranking) : group \subseteq stored
    BY <2>2, <2>3
  <2> QED BY <1>6, <2>1, <2>3, <2>4 DEF Shape, BeginAi
<1>7. ASSUME NEW a \in AiRuns, NEW reply \in Replies, Answer(a, reply) PROVE Shape'
  <2>1. PICK order \in FannedOut(Head(groups[a]), reply) : todo' = [todo EXCEPT ![a] = order]
    BY <1>7 DEF Answer
  <2>2. groups[a] # <<>> /\ Listed(groups[a])
    BY <1>7 DEF Answer, Shape
  <2>3. /\ Head(groups[a]) \in ToSet(groups[a]) /\ Listed(Tail(groups[a]))
        /\ ToSet(Tail(groups[a])) \subseteq ToSet(groups[a])
    BY <2>2, TailIsListed
  <2>4. Listed(order)
    BY <2>1, <2>3, FannedOutAreRows DEF Shape
  <2> QED BY <1>7, <2>1, <2>3, <2>4 DEF Shape, Answer
<1>8. ASSUME NEW a \in AiRuns, ProviderFails(a) PROVE Shape'
  <2>1. groups[a] # <<>> /\ Listed(groups[a])
    BY <1>8 DEF ProviderFails, Shape
  <2>2. Listed(Tail(groups[a])) /\ ToSet(Tail(groups[a])) \subseteq ToSet(groups[a])
    BY <2>1, TailIsListed
  <2> QED BY <1>8, <2>2 DEF Shape, ProviderFails
<1>9. ASSUME NEW a \in AiRuns, EndAi(a) PROVE Shape'
  BY <1>9 DEF Shape, EndAi, Commit
<1>10. ASSUME NEW w \in Writers, Insert(w) PROVE Shape'
  <2>1. todo[w] # <<>> /\ Listed(todo[w])
    BY <1>10 DEF Insert, Shape
  <2>2. Listed(Tail(todo[w]))
    BY <2>1, TailIsListed
  <2> QED BY <1>10, <2>2 DEF Shape, Insert
<1>11. ASSUME NEW w \in Writers, Aborts(w) PROVE Shape'
  BY <1>11, EmptyIsListed DEF Shape, Aborts, Rollback
<1>12. CASE UNCHANGED vars
  BY <1>12 DEF Shape, vars
<1> QED BY <1>1, <1>2, <1>3, <1>4, <1>5, <1>6, <1>7, <1>8, <1>9, <1>10, <1>11, <1>12
        DEF Next, ScriptStep, AiStep, ParsingFails, Dies, Victim
-----------------------------------------------------------------------------
(* The rows a writer has still to insert or has inserted, uncommitted.     *)
Pending(w) == rows[w] \union ToSet(todo[w])

(* No vendor mapping is on the event, and none will come: it is stored.    *)
NoVendor(e) == e \in stored /\ \A t \in tags : t.event = e => t.source # "vendor"

(* Vendor mappings come with the event, and only if it carries ids.        *)
VendorTagsAreIngested ==
  \A t \in tags : t.event \in stored /\ (t.source = "vendor" => VendorIdsOf[t.event] # {})

(* Nobody is about to tag an event that carries a vendor mapping.          *)
NobodyIntrudes ==
  /\ \A w \in Writers : \A r \in Pending(w) : r.source # "vendor" /\ NoVendor(r.event)
  /\ \A a \in AiRuns : \A group \in ToSet(groups[a]) : \A e \in group : NoVendor(e)

Apart == VendorTagsAreIngested /\ NobodyIntrudes /\ VendorStandsAlone

(* Nothing but an ingest brings vendor mappings, and it brings them to an  *)
(* event that nobody has seen.                                             *)
LEMMA NoVendorStays ==
  ASSUME NEW e, NoVendor(e), stored \subseteq stored',
         \A t \in tags' \ tags : t.event \notin stored \/ t.source # "vendor"
  PROVE  NoVendor(e)'
  BY DEF NoVendor

(* A step that brings no vendor mapping keeps the mappings apart if what   *)
(* it commits, or puts before a writer, is of events without any.          *)
LEMMA ApartKept ==
  ASSUME Shape, Apart, stored' = stored,
         \A t \in tags' \ tags : t.source # "vendor" /\ NoVendor(t.event),
         \A w \in Writers : \A r \in Pending(w)' :
            r \in Pending(w) \/ (r.source # "vendor" /\ NoVendor(r.event)),
         \A a \in AiRuns : \A group \in ToSet(groups[a])' : \A e \in group :
            group \in ToSet(groups[a]) \/ NoVendor(e)
  PROVE  Apart'
<1>1. \A e : NoVendor(e) => NoVendor(e)'
  BY NoVendorStays
<1>2. VendorTagsAreIngested'
  BY DEF Apart, VendorTagsAreIngested, NoVendor
<1>3. NobodyIntrudes'
  <2>1. ASSUME NEW w \in Writers, NEW r \in Pending(w)' PROVE r.source # "vendor" /\ NoVendor(r.event)
    BY <2>1 DEF Apart, NobodyIntrudes
  <2>2. ASSUME NEW a \in AiRuns, NEW group \in ToSet(groups[a])', NEW e \in group PROVE NoVendor(e)
    BY <2>2 DEF Apart, NobodyIntrudes
  <2>3. ASSUME NEW w \in Writers, NEW r \in Pending(w)' PROVE r.source # "vendor" /\ NoVendor(r.event)'
    <3>1. PICK e : e = r.event
      OBVIOUS
    <3>2. NoVendor(e)'
      BY <1>1, <2>1, <3>1
    <3> QED BY <2>1, <3>1, <3>2 DEF NoVendor
  <2>4. ASSUME NEW a \in AiRuns, NEW group \in ToSet(groups[a])', NEW e \in group PROVE NoVendor(e)'
    BY <1>1, <2>2
  <2> QED BY <2>3, <2>4 DEF NobodyIntrudes
<1>4. VendorStandsAlone'
  <2> SUFFICES ASSUME NEW t \in tags', t.source = "vendor", NEW u \in tags', u.event = t.event
               PROVE  u.source = "vendor"
    BY DEF VendorStandsAlone
  <2>1. t \in tags
    OBVIOUS
  <2>2. u \in tags
    BY <2>1 DEF NoVendor
  <2> QED BY <2>1, <2>2 DEF Apart, VendorStandsAlone
<1> QED BY <1>2, <1>3, <1>4 DEF Apart

LEMMA ApartStep == Shape /\ Apart /\ [Next]_vars => Apart'
<1> SUFFICES ASSUME Shape, Apart, [Next]_vars PROVE Apart'
  OBVIOUS
<1> USE WritersAreTwoKinds
<1>1. ASSUME NEW e \in Events, Ingest(e) PROVE Apart'
  <2>1. /\ e \notin stored /\ stored' = stored \union {e}
        /\ tags' = tags \union IngestRows(e) \/ tags' = tags
        /\ todo' = todo /\ rows' = rows /\ groups' = groups
    BY <1>1 DEF Ingest
  <2>2. \A t \in IngestRows(e) : /\ t.event = e
                                 /\ IF VendorIdsOf[e] # {} THEN t.source = "vendor" ELSE t.source = "rules"
    BY FewRules DEF IngestRows, Row
  <2>3. \A d : NoVendor(d) => NoVendor(d)'
    BY <2>1, <2>2, NoVendorStays
  <2>4. VendorTagsAreIngested'
    BY <2>1, <2>2 DEF Apart, VendorTagsAreIngested
  <2>5. NobodyIntrudes'
    <3>1. \A w \in Writers : \A r \in Pending(w) : NoVendor(r.event)'
      <4>1. ASSUME NEW w \in Writers, NEW r \in Pending(w) PROVE NoVendor(r.event)'
        <5>1. PICK d : d = r.event
          OBVIOUS
        <5>2. NoVendor(d)'
          BY <2>3, <5>1 DEF Apart, NobodyIntrudes
        <5> QED BY <5>1, <5>2 DEF NoVendor
      <4> QED BY <4>1
    <3> QED BY <2>1, <2>3, <3>1 DEF Apart, NobodyIntrudes, Pending
  <2>6. VendorStandsAlone'
    BY <2>1, <2>2 DEF Apart, VendorTagsAreIngested, VendorStandsAlone
  <2> QED BY <2>4, <2>5, <2>6 DEF Apart
<1>2. CASE Wipe
  BY <1>2, ApartKept DEF Wipe, Pending
<1>3. CASE Scan
  <2>1. PICK order \in Orders(UNION {ScriptRows(e) : e \in Page}, LAMBDA r, s : r.event < s.event) :
          todo' = [todo EXCEPT ![script] = order]
    BY <1>3 DEF Scan
  <2>2. Page \subseteq stored /\ Page \subseteq Events
    BY PageFollows DEF Shape
  <2>3. ToSet(order) = UNION {ScriptRows(e) : e \in Page}
    BY <2>1, <2>2, FewScriptRows, OrdersAreListed
  <2>4. \A r \in ToSet(order) : r.source = "rules" /\ NoVendor(r.event)
    BY <2>2, <2>3, FewScriptRows DEF Apart, VendorTagsAreIngested, NoVendor
  <2>5. \A w \in Writers : \A r \in Pending(w)' : r \in Pending(w) \/ r \in ToSet(order)
    BY <1>3, <2>1 DEF Scan, Pending, Shape
  <2> QED BY <1>3, <2>4, <2>5, ApartKept DEF Scan
<1>4. CASE CommitBatch
  <2>1. \A w \in Writers : Pending(w)' \subseteq Pending(w)
    BY <1>4 DEF CommitBatch, Commit, Pending, Shape
  <2>2. tags' \ tags \subseteq Pending(script)
    BY <1>4 DEF CommitBatch, Commit, Pending
  <2>3. \A t \in tags' \ tags : t.source # "vendor" /\ NoVendor(t.event)
    BY <2>2 DEF Apart, NobodyIntrudes
  <2> QED BY <1>4, <2>1, <2>3, ApartKept DEF CommitBatch
<1>5. CASE Done
  BY <1>5, ApartKept DEF Done, Pending
<1>6. ASSUME NEW a \in AiRuns, BeginAi(a) PROVE Apart'
  <2> DEFINE untagged == {e \in Unclassified : Described(e)}
  <2>1. PICK ranking \in Ranked(untagged) : groups' = [groups EXCEPT ![a] = ranking]
    BY <1>6 DEF BeginAi
  <2>2. untagged \subseteq Events /\ \A e \in untagged : NoVendor(e)
    BY DEF Shape, NoVendor, Tagged, Unclassified
  <2>3. \A group \in ToSet(ranking) : group \subseteq untagged
    <3> HIDE DEF untagged
    <3> QED BY <2>1, <2>2, RankedAreGroups
  <2>4. \A b \in AiRuns : ToSet(groups[b])' \subseteq ToSet(groups[b]) \union ToSet(ranking)
    BY <2>1 DEF Shape
  <2>5. \A b \in AiRuns : \A group \in ToSet(groups[b])' : \A e \in group :
          group \in ToSet(groups[b]) \/ NoVendor(e)
    <3> HIDE DEF untagged
    <3> QED BY <2>2, <2>3, <2>4
  <2> QED BY <1>6, <2>5, ApartKept DEF BeginAi, Pending
<1>7. ASSUME NEW a \in AiRuns, NEW reply \in Replies, Answer(a, reply) PROVE Apart'
  <2>1. PICK order \in FannedOut(Head(groups[a]), reply) : todo' = [todo EXCEPT ![a] = order]
    BY <1>7 DEF Answer
  <2>2. groups[a] # <<>> /\ Listed(groups[a]) /\ groups' = [groups EXCEPT ![a] = Tail(groups[a])]
    BY <1>7 DEF Answer, Shape
  <2>3. Head(groups[a]) \in ToSet(groups[a]) /\ ToSet(Tail(groups[a])) \subseteq ToSet(groups[a])
    BY <2>2, TailIsListed
  <2>4. Head(groups[a]) \subseteq Events /\ \A e \in Head(groups[a]) : NoVendor(e)
    BY <2>3 DEF Shape, Apart, NobodyIntrudes
  <2>5. \A r \in ToSet(order) : r.event \in Head(groups[a]) /\ r.source = "ai"
    BY <2>1, <2>4, FannedOutAreRows
  <2>6. \A w \in Writers : \A r \in Pending(w)' : r \in Pending(w) \/ r \in ToSet(order)
    BY <1>7, <2>1 DEF Answer, Pending, Shape
  <2>7. \A b \in AiRuns : ToSet(groups[b])' \subseteq ToSet(groups[b])
    BY <2>2, <2>3 DEF Shape
  <2> QED BY <1>7, <2>4, <2>5, <2>6, <2>7, ApartKept DEF Answer
<1>8. ASSUME NEW a \in AiRuns, ProviderFails(a) PROVE Apart'
  <2>1. groups[a] # <<>> /\ Listed(groups[a]) /\ groups' = [groups EXCEPT ![a] = Tail(groups[a])]
    BY <1>8 DEF ProviderFails, Shape
  <2>2. ToSet(Tail(groups[a])) \subseteq ToSet(groups[a])
    BY <2>1, TailIsListed
  <2>3. \A b \in AiRuns : ToSet(groups[b])' \subseteq ToSet(groups[b])
    BY <2>1, <2>2 DEF Shape
  <2> QED BY <1>8, <2>3, ApartKept DEF ProviderFails, Pending
<1>9. ASSUME NEW a \in AiRuns, EndAi(a) PROVE Apart'
  <2>1. \A w \in Writers : Pending(w)' \subseteq Pending(w)
    BY <1>9 DEF EndAi, Commit, Pending, Shape
  <2>2. tags' \ tags \subseteq Pending(a)
    BY <1>9 DEF EndAi, Commit, Pending
  <2>3. \A t \in tags' \ tags : t.source # "vendor" /\ NoVendor(t.event)
    BY <2>2 DEF Apart, NobodyIntrudes
  <2> QED BY <1>9, <2>1, <2>3, ApartKept DEF EndAi
<1>10. ASSUME NEW w \in Writers, Insert(w) PROVE Apart'
  <2>1. todo[w] # <<>> /\ Listed(todo[w])
    BY <1>10 DEF Insert, Shape
  <2>2. Head(todo[w]) \in ToSet(todo[w]) /\ ToSet(Tail(todo[w])) \subseteq ToSet(todo[w])
    BY <2>1, TailIsListed
  <2>3. \A v \in Writers : Pending(v)' \subseteq Pending(v)
    BY <1>10, <2>2 DEF Insert, Pending, Shape
  <2> QED BY <1>10, <2>3, ApartKept DEF Insert
<1>11. ASSUME NEW w \in Writers, Aborts(w) PROVE Apart'
  <2>1. \A v \in Writers : Pending(v)' \subseteq Pending(v)
    BY <1>11, EmptyIsListed DEF Aborts, Rollback, Pending, Shape
  <2>2. \A a \in AiRuns : ToSet(groups[a])' \subseteq ToSet(groups[a])
    BY <1>11, EmptyIsListed DEF Aborts
  <2> QED BY <1>11, <2>1, <2>2, ApartKept DEF Aborts
<1>12. CASE UNCHANGED vars
  BY <1>12, ApartKept DEF vars, Pending
<1> QED BY <1>1, <1>2, <1>3, <1>4, <1>5, <1>6, <1>7, <1>8, <1>9, <1>10, <1>11, <1>12
        DEF Next, ScriptStep, AiStep, ParsingFails, Dies, Victim
-----------------------------------------------------------------------------
(* Outside a batch the script holds no rows, and what it writes is what    *)
(* the rules say; the AI writes tags of its own.                           *)
ScriptHolds ==
  /\ pc[script] # "writing" => Pending(script) = {}
  /\ \A r \in Pending(script) : r \in RuleRows[r.event]
  /\ \A a \in AiRuns : \A r \in Pending(a) : r.source = "ai"

Rebuilding == pc[script] \in {"scanning", "writing", "done"}

Stands(r) == \E t \in tags \union Pending(script) : SameKey(t, r)

(* Up to last_id every event the script found has the tags the rules give  *)
(* it, committed or about to be, and no other rule tag is left on any.     *)
RebuiltSoFar ==
  Rebuilding =>
    /\ \A e \in began : e <= lastId => \A r \in ScriptRows(e) : Stands(r)
    /\ \A t \in tags : t.event \in began /\ t.source = "rules" => t \in RuleRows[t.event]
    /\ pc[script] = "done" => \A e \in began : e <= lastId

Rebuild == ScriptHolds /\ RebuiltSoFar

(* A step of anybody else keeps what the script has done, if it takes no   *)
(* tag away and brings no rule tag to an event the script found.           *)
LEMMA RebuildKept ==
  ASSUME Shape, Rebuild, tags \subseteq tags', began' = began, lastId' = lastId, pc'[script] = pc[script],
         Pending(script)' = Pending(script),
         \A t \in tags' \ tags : t.source = "rules" => t.event \notin began,
         \A a \in AiRuns : \A r \in Pending(a)' : r.source = "ai"
  PROVE  Rebuild'
<1>1. \A r : Stands(r) => Stands(r)'
  BY DEF Stands
<1>2. ScriptHolds'
  BY DEF Rebuild, ScriptHolds
<1>3. RebuiltSoFar'
  BY <1>1 DEF Rebuild, RebuiltSoFar, Rebuilding
<1> QED BY <1>2, <1>3 DEF Rebuild

LEMMA RebuildStep == Shape /\ Rebuild /\ [Next]_vars => Rebuild'
<1> SUFFICES ASSUME Shape, Rebuild, [Next]_vars PROVE Rebuild'
  OBVIOUS
<1> USE WritersAreTwoKinds
<1>1. ASSUME NEW e \in Events, Ingest(e) PROVE Rebuild'
  <2>1. /\ e \notin stored
        /\ tags' = tags \union IngestRows(e) \/ tags' = tags
    BY <1>1 DEF Ingest
  <2>2. \A t \in IngestRows(e) : t.event = e
    BY FewRules DEF IngestRows, Row
  <2>3. \A t \in tags' \ tags : t.event \notin began
    BY <2>1, <2>2 DEF Shape
  <2> QED BY <1>1, <2>1, <2>3, RebuildKept DEF Ingest, Pending, Rebuild, ScriptHolds
<1>2. CASE Wipe
  <2>1. ScriptHolds'
    BY <1>2 DEF Wipe, Rebuild, ScriptHolds, Pending, Shape
  <2>2. pc'[script] = "scanning" /\ lastId' = 0 /\ began' = stored
    BY <1>2 DEF Wipe, Shape
  <2>3. \A e \in began' : ~(e <= lastId')
    <3>1. \A e \in began' : e \in Nat \ {0}
      BY <2>2, TechniqueMappingAssumption DEF Shape
    <3>2. \A e \in Nat \ {0} : ~(e <= 0)
      OBVIOUS
    <3> QED BY <2>2, <3>1, <3>2
  <2>4. \A t \in tags' : t.source # "rules"
    BY <1>2 DEF Wipe
  <2> QED BY <2>1, <2>2, <2>3, <2>4 DEF Rebuild, RebuiltSoFar
<1>3. CASE Scan
  <2>1. PICK order \in Orders(UNION {ScriptRows(e) : e \in Page}, LAMBDA r, s : r.event < s.event) :
          todo' = [todo EXCEPT ![script] = order]
    BY <1>3 DEF Scan
  <2>2. /\ Page \subseteq stored /\ Page \subseteq Events
        /\ \A e \in stored : e <= Max(Page) => e <= lastId \/ e \in Page
    BY <1>3, PageFollows DEF Shape, Scan
  <2>3. ToSet(order) = UNION {ScriptRows(e) : e \in Page}
    BY <2>1, <2>2, FewScriptRows, OrdersAreListed
  <2>4. /\ pc[script] = "scanning" /\ pc'[script] = "writing" /\ lastId' = Max(Page)
        /\ tags' = tags /\ began' = began /\ rows' = rows
    BY <1>3 DEF Scan, Shape, Reached
  <2>5. Pending(script) = {} /\ Pending(script)' = ToSet(order)
    BY <2>1, <2>4 DEF Rebuild, ScriptHolds, Pending, Shape
  <2>6. \A a \in AiRuns : Pending(a)' = Pending(a)
    <3>1. \A a \in AiRuns : todo'[a] = todo[a] /\ rows'[a] = rows[a]
      BY <2>1, <2>4 DEF Shape
    <3> QED BY <3>1 DEF Pending
  <2>7. ScriptHolds'
    <3>1. \A r \in ToSet(order) : r \in RuleRows[r.event]
      BY <2>2, <2>3, FewScriptRows
    <3> QED BY <2>4, <2>5, <2>6, <3>1 DEF Rebuild, ScriptHolds
  <2>8. ASSUME NEW e \in began, e <= Max(Page), NEW r \in ScriptRows(e) PROVE Stands(r)'
    <3>1. CASE e <= lastId
      <4>1. Stands(r)
        BY <2>4, <3>1 DEF Rebuild, RebuiltSoFar, Rebuilding
      <4> QED BY <2>4, <2>5, <4>1 DEF Stands
    <3>2. CASE e \in Page
      <4>1. r \in Pending(script)'
        BY <2>3, <2>5, <3>2
      <4> QED BY <4>1 DEF Stands, SameKey
    <3> QED BY <2>2, <2>8, <3>1, <3>2 DEF Shape
  <2>9. RebuiltSoFar'
    BY <2>4, <2>8 DEF Rebuild, RebuiltSoFar, Rebuilding
  <2> QED BY <2>7, <2>9 DEF Rebuild
<1>4. CASE CommitBatch
  <2>1. /\ pc[script] = "writing" /\ pc'[script] = "scanning" /\ todo[script] = <<>> /\ todo' = todo
        /\ tags' = tags \union rows[script] /\ rows' = [rows EXCEPT ![script] = {}]
        /\ lastId' = lastId /\ began' = began
    BY <1>4 DEF CommitBatch, Commit, Shape
  <2>2. Pending(script) = rows[script] /\ Pending(script)' = {}
    BY <2>1, EmptyIsListed DEF Pending, Shape
  <2>3. \A a \in AiRuns : Pending(a)' = Pending(a)
    BY <2>1 DEF Pending
  <2>4. ScriptHolds'
    BY <2>1, <2>2, <2>3 DEF Rebuild, ScriptHolds
  <2>5. \A r : Stands(r) => Stands(r)'
    BY <2>1, <2>2 DEF Stands
  <2>6. \A r \in rows[script] : r \in RuleRows[r.event]
    BY <2>2 DEF Rebuild, ScriptHolds
  <2>7. RebuiltSoFar'
    BY <2>1, <2>5, <2>6 DEF Rebuild, RebuiltSoFar, Rebuilding
  <2> QED BY <2>4, <2>7 DEF Rebuild
<1>5. CASE Done
  <2>1. /\ pc[script] = "scanning" /\ pc'[script] = "done" /\ Page = {}
        /\ tags' = tags /\ todo' = todo /\ rows' = rows /\ lastId' = lastId /\ began' = began
    BY <1>5 DEF Done, Shape
  <2>2. \A e \in began : e <= lastId
    BY <2>1, PageFollows DEF Shape
  <2>3. ScriptHolds'
    BY <2>1 DEF Rebuild, ScriptHolds, Pending
  <2>4. \A r : Stands(r) => Stands(r)'
    BY <2>1 DEF Stands, Pending
  <2> QED BY <2>1, <2>2, <2>3, <2>4 DEF Rebuild, RebuiltSoFar, Rebuilding
<1>6. ASSUME NEW a \in AiRuns, BeginAi(a) PROVE Rebuild'
  <2>1. pc'[script] = pc[script]
    BY <1>6 DEF BeginAi
  <2> QED BY <1>6, <2>1, RebuildKept DEF BeginAi, Pending, Rebuild, ScriptHolds
<1>7. ASSUME NEW a \in AiRuns, NEW reply \in Replies, Answer(a, reply) PROVE Rebuild'
  <2>1. PICK order \in FannedOut(Head(groups[a]), reply) : todo' = [todo EXCEPT ![a] = order]
    BY <1>7 DEF Answer
  <2>2. groups[a] # <<>> /\ Listed(groups[a])
    BY <1>7 DEF Answer, Shape
  <2>3. Head(groups[a]) \subseteq Events
    BY <2>2, TailIsListed DEF Shape
  <2>4. \A r \in ToSet(order) : r.source = "ai"
    BY <2>1, <2>3, FannedOutAreRows
  <2>5. \A b \in AiRuns : \A r \in Pending(b)' : r \in Pending(b) \/ r \in ToSet(order)
    BY <1>7, <2>1 DEF Answer, Pending, Shape
  <2>6. Pending(script)' = Pending(script)
    BY <1>7, <2>1 DEF Answer, Pending
  <2>7. \A b \in AiRuns : \A r \in Pending(b)' : r.source = "ai"
    BY <2>4, <2>5 DEF Rebuild, ScriptHolds
  <2> QED BY <1>7, <2>6, <2>7, RebuildKept DEF Answer
<1>8. ASSUME NEW a \in AiRuns, ProviderFails(a) PROVE Rebuild'
  BY <1>8, RebuildKept DEF ProviderFails, Pending, Rebuild, ScriptHolds
<1>9. ASSUME NEW a \in AiRuns, EndAi(a) PROVE Rebuild'
  <2>1. /\ tags' = tags \union rows[a] /\ rows' = [rows EXCEPT ![a] = {}]
        /\ todo' = todo /\ lastId' = lastId /\ began' = began /\ pc'[script] = pc[script]
    BY <1>9 DEF EndAi, Commit
  <2>2. Pending(script)' = Pending(script) /\ \A b \in AiRuns : Pending(b)' \subseteq Pending(b)
    BY <2>1 DEF Pending, Shape
  <2>3. \A t \in tags' \ tags : t.source = "ai"
    BY <2>1 DEF Rebuild, ScriptHolds, Pending
  <2>4. \A b \in AiRuns : \A r \in Pending(b)' : r.source = "ai"
    BY <2>2 DEF Rebuild, ScriptHolds
  <2>5. \A t \in tags' \ tags : t.source = "rules" => t.event \notin began
    BY <2>3
  <2> QED BY <2>1, <2>2, <2>4, <2>5, RebuildKept
<1>10. ASSUME NEW w \in Writers, Insert(w) PROVE Rebuild'
  <2> DEFINE r == Head(todo[w])
  <2>1. /\ todo[w] # <<>> /\ todo' = [todo EXCEPT ![w] = Tail(todo[w])]
        /\ rows' = [rows EXCEPT ![w] = IF \E s \in tags \union rows[w] : SameKey(r, s)
                                       THEN rows[w] ELSE rows[w] \union {r}]
        /\ tags' = tags /\ pc' = pc /\ began' = began /\ lastId' = lastId
    BY <1>10 DEF Insert
  <2>2. /\ r \in ToSet(todo[w]) /\ ToSet(Tail(todo[w])) \subseteq ToSet(todo[w])
        /\ ToSet(todo[w]) = {r} \union ToSet(Tail(todo[w]))
    BY <2>1, TailIsListed DEF Shape
  <2>3. \A v \in Writers : Pending(v)' \subseteq Pending(v)
    BY <2>1, <2>2 DEF Pending, Shape
  <2>4. \A v \in Writers : v # w => Pending(v)' = Pending(v)
    BY <2>1 DEF Pending
  <2>5. ScriptHolds'
    BY <2>1, <2>3 DEF Rebuild, ScriptHolds
  <2>6. ASSUME NEW x, Stands(x) PROVE Stands(x)'
    <3>1. PICK t \in tags \union Pending(script) : SameKey(t, x)
      BY <2>6 DEF Stands
    <3>2. CASE t \in tags \/ t \in Pending(script)'
      BY <2>1, <3>1, <3>2 DEF Stands
    <3>3. CASE t \in Pending(script) /\ t \notin Pending(script)' /\ t \notin tags
      <4>1. w = script
        BY <2>4, <3>3
      <4>2. t = r
        BY <2>1, <2>2, <3>3, <4>1 DEF Pending, Shape
      <4>3. PICK s \in tags \union rows[script] : SameKey(r, s)
        BY <2>1, <3>3, <4>1, <4>2 DEF Pending, Shape
      <4>4. s \in tags' \/ s \in Pending(script)'
        BY <2>1, <4>1, <4>3 DEF Pending, Shape
      <4>5. SameKey(s, x)
        BY <3>1, <4>2, <4>3 DEF SameKey
      <4> QED BY <4>4, <4>5 DEF Stands
    <3> QED BY <3>1, <3>2, <3>3
  <2> QED BY <2>1, <2>5, <2>6 DEF Rebuild, RebuiltSoFar, Rebuilding
<1>11. ASSUME NEW w \in Writers, Aborts(w) PROVE Rebuild'
  <2>1. /\ pc' = [pc EXCEPT ![w] = "failed"] /\ todo' = [todo EXCEPT ![w] = <<>>]
        /\ rows' = [rows EXCEPT ![w] = {}] /\ tags' = tags /\ began' = began /\ lastId' = lastId
    BY <1>11 DEF Aborts, Rollback
  <2>2. Pending(w)' = {}
    BY <2>1, EmptyIsListed DEF Pending, Shape
  <2>3. \A v \in Writers : v # w => Pending(v)' = Pending(v)
    BY <2>1 DEF Pending
  <2>4. \A a \in AiRuns : \A r \in Pending(a)' : r.source = "ai"
    BY <2>2, <2>3 DEF Rebuild, ScriptHolds
  <2>5. CASE w # script
    <3>1. pc'[script] = pc[script]
      BY <2>1, <2>5
    <3>2. Pending(script)' = Pending(script)
      BY <2>3, <2>5
    <3> QED BY <2>1, <2>4, <3>1, <3>2, RebuildKept
  <2>6. CASE w = script
    <3>1. pc'[script] = "failed"
      BY <2>1, <2>6 DEF Shape
    <3> QED BY <2>2, <2>4, <2>6, <3>1 DEF Rebuild, ScriptHolds, RebuiltSoFar, Rebuilding
  <2> QED BY <2>5, <2>6
<1>12. CASE UNCHANGED vars
  BY <1>12, RebuildKept DEF vars, Pending, Rebuild, ScriptHolds
<1> QED BY <1>1, <1>2, <1>3, <1>4, <1>5, <1>6, <1>7, <1>8, <1>9, <1>10, <1>11, <1>12
        DEF Next, ScriptStep, AiStep, ParsingFails, Dies, Victim
-----------------------------------------------------------------------------
MappingInv == Shape /\ Apart /\ Rebuild

LEMMA InitHolds == Init => MappingInv
<1> SUFFICES ASSUME Init PROVE MappingInv
  OBVIOUS
<1> USE WritersAreTwoKinds, EmptyIsListed
<1>1. Shape
  BY DEF Init, Shape
<1>2. \A w \in Writers : Pending(w) = {}
  BY DEF Init, Pending
<1>3. Apart
  BY <1>2 DEF Init, Apart, VendorTagsAreIngested, NobodyIntrudes, VendorStandsAlone
<1>4. Rebuild
  BY <1>2 DEF Init, Rebuild, ScriptHolds, RebuiltSoFar, Rebuilding
<1> QED BY <1>1, <1>3, <1>4 DEF MappingInv

LEMMA MappingInvariant == Spec => []MappingInv
<1>1. MappingInv /\ [Next]_vars => MappingInv'
  BY ShapeStep, ApartStep, RebuildStep DEF MappingInv
<1> QED BY InitHolds, <1>1, PTL DEF Spec

(* ADR 0009 for any events, writers, replies and batch size: an event that *)
(* carries a vendor mapping carries no other.                              *)
THEOREM VendorWins == Spec => []VendorStandsAlone
<1>1. MappingInv => VendorStandsAlone
  BY DEF MappingInv, Apart
<1> QED BY MappingInvariant, <1>1, PTL

(* A script that has run to its end has rebuilt the tags of every event it *)
(* found, whoever ingested, classified or failed meanwhile.                *)
THEOREM RebuildIsWhole == Spec => []RebuiltWhole
<1>1. MappingInv => RebuiltWhole
  <2> SUFFICES ASSUME MappingInv, pc[script] = "done", NEW e \in began
               PROVE  /\ \A r \in ScriptRows(e) : \E t \in tags : SameKey(t, r)
                      /\ \A t \in tags : t.event = e /\ t.source = "rules" => t \in RuleRows[e]
    BY DEF RebuiltWhole
  <2>1. Pending(script) = {}
    BY DEF MappingInv, Rebuild, ScriptHolds
  <2>2. \A r \in ScriptRows(e) : Stands(r)
    BY DEF MappingInv, Rebuild, RebuiltSoFar, Rebuilding
  <2>3. \A t \in tags : t.event = e /\ t.source = "rules" => t \in RuleRows[e]
    BY DEF MappingInv, Rebuild, RebuiltSoFar, Rebuilding
  <2> QED BY <2>1, <2>2, <2>3 DEF Stands
<1> QED BY MappingInvariant, <1>1, PTL

(* A committed mapping stays as it is until the script wipes it.           *)
THEOREM MappingsStay == Spec => TagsKeepTheirSource
<1>1. Shape /\ [Next]_vars =>
        [\A t \in tags : t \in tags' \/ (t.source = "rules" /\ pc'[script] = "scanning")]_vars
  <2> SUFFICES ASSUME Shape, Next
               PROVE  \A t \in tags : t \in tags' \/ (t.source = "rules" /\ pc'[script] = "scanning")
    BY DEF vars
  <2>1. CASE Wipe
    BY <2>1, WritersAreTwoKinds DEF Wipe, Shape
  <2>2. CASE ~Wipe
    <3>1. tags \subseteq tags'
      BY <2>2 DEF Next, Ingest, ScriptStep, Scan, CommitBatch, Done, BeginAi, AiStep, Answer,
                  ProviderFails, ParsingFails, EndAi, Insert, Dies, Victim, Aborts, Commit
    <3> QED BY <3>1
  <2> QED BY <2>1, <2>2
<1>2. MappingInv => Shape
  BY DEF MappingInv
<1> QED BY MappingInvariant, <1>1, <1>2, PTL DEF Spec, TagsKeepTheirSource
=============================================================================
