----------------------- MODULE ConnectorPollingProofs -----------------------
(***************************************************************************)
(* Type correctness, drop-freedom and (for one poller) duplicate-freedom   *)
(* of ConnectorPolling, for every set of connectors, alerts and pollers,   *)
(* and that one poller's connectors implement EventFeed.  They rest on     *)
(* what one poll of a vendor guarantees, for every set of alerts, batch    *)
(* size and timestamp assignment: the first lemmas follow a page from the  *)
(* query (Selected, IsPage) through the parser (Kept, NextCursor).         *)
(***************************************************************************)
EXTENDS ConnectorFeed, FiniteSetTheorems, TLAPS

(* The sort orders are strict, and wazuh's is total.                       *)
LEMMA PrecedesOrder ==
  ASSUME NEW vendor, NEW a \in Alerts, NEW b \in Alerts, NEW c \in Alerts
  PROVE  /\ ~Precedes(vendor, a, a)
         /\ Precedes(vendor, a, b) /\ Precedes(vendor, b, c) => Precedes(vendor, a, c)
         /\ vendor = "wazuh" => a = b \/ Precedes(vendor, a, b) \/ Precedes(vendor, b, a)
         /\ TimeOf[a] < TimeOf[b] => Precedes(vendor, a, b)
  <1>1. /\ a \in Nat /\ b \in Nat /\ c \in Nat
        /\ TimeOf[a] \in Nat /\ TimeOf[b] \in Nat /\ TimeOf[c] \in Nat
    BY AlertsAssumption
  <1> QED BY <1>1 DEF Precedes

(* A page that is not empty has a last alert: among its upper sections     *)
(* there is a smallest one, and the alert it starts from has no successor. *)
LEMMA GreatestExists ==
  ASSUME NEW vendor, NEW kept, kept \subseteq Alerts, IsFiniteSet(kept), kept # {}
  PROVE  Greatest(vendor, kept) # {}
  <1> DEFINE Upper(a) == {b \in kept : b = a \/ Precedes(vendor, a, b)}
             Uppers == {Upper(a) : a \in kept}
  <1>1. Uppers \subseteq FiniteSubsetsOf(kept)
    <2> SUFFICES ASSUME NEW a \in kept PROVE Upper(a) \in FiniteSubsetsOf(kept)
      OBVIOUS
    <2>1. Upper(a) \in SUBSET kept
      OBVIOUS
    <2>2. IsFiniteSet(Upper(a))
      BY <2>1, FS_Subset
    <2> QED BY <2>1, <2>2 DEF FiniteSubsetsOf
  <1>2. Uppers # {}
    OBVIOUS
  <1>3. PICK u \in Uppers : \A v \in Uppers : <<v, u>> \notin StrictSubsetOrdering(kept)
    <2> HIDE DEF Uppers
    <2> QED BY <1>1, <1>2, FS_StrictSubsetOrderingWellFounded, WFMin
  <1>4. PICK a \in kept : u = Upper(a)
    OBVIOUS
  <1>5. ASSUME NEW b \in kept, Precedes(vendor, a, b) PROVE FALSE
    <2>1. Upper(b) \subseteq Upper(a)
      BY <1>5, PrecedesOrder
    <2>2. a \in Upper(a) /\ a \notin Upper(b)
      <3>1. a \in Nat /\ b \in Nat /\ TimeOf[a] \in Nat /\ TimeOf[b] \in Nat
        BY AlertsAssumption
      <3>2. a # b /\ ~Precedes(vendor, b, a)
        BY <1>5, <3>1 DEF Precedes
      <3> QED BY <3>2
    <2>3. <<Upper(b), u>> \in StrictSubsetOrdering(kept)
      BY <1>4, <2>1, <2>2 DEF StrictSubsetOrdering
    <2> QED BY <1>3, <2>3
  <1>6. a \in Greatest(vendor, kept)
    BY <1>5 DEF Greatest
  <1> QED BY <1>6
-----------------------------------------------------------------------------
(* What a cursor remembers: ids at its own timestamp, and for wazuh one    *)
(* position.                                                               *)
WellFormed(vendor, cursor) ==
  cursor # NoCursor =>
    /\ cursor.ts \in Nat
    /\ cursor.ids # {}
    /\ \A i \in cursor.ids : TimeOf[i] = cursor.ts
    /\ vendor = "wazuh" => \A i, j \in cursor.ids : i = j

(* The cursor the parser hands back: it stands at the greatest timestamp   *)
(* kept and remembers what was kept, or already skipped, there.            *)
LEMMA NextCursorAt ==
  ASSUME NEW vendor \in Vendors, NEW kept, kept \subseteq Alerts, IsFiniteSet(kept),
         kept # {}, NEW cursor \in Cursors, NEW since \in Int,
         NEW next, next = NextCursor(vendor, kept, cursor, since)
  PROVE  /\ next \in Cursors /\ next # NoCursor
         /\ next.from = IF cursor = NoCursor THEN since ELSE cursor.from
         /\ \A a \in kept : TimeOf[a] <= next.ts
         /\ \E a \in kept : a \in next.ids
         /\ \A a \in next.ids :
              \/ a \in kept /\ TimeOf[a] = next.ts /\ a \in Greatest(vendor, kept)
              \/ vendor # "wazuh" /\ cursor.ts = next.ts /\ a \in cursor.ids
         /\ Greatest(vendor, kept) \subseteq next.ids
         /\ vendor # "wazuh" /\ cursor.ts = next.ts => cursor.ids \subseteq next.ids
  <1> DEFINE top == Greatest(vendor, kept)
             maxTs == TimeOf[CHOOSE a \in top : TRUE]
  <1>1. top # {} /\ top \subseteq kept
    BY GreatestExists DEF Greatest
  <1>2. PICK m \in top : maxTs = TimeOf[m]
    BY <1>1
  <1>3. \A a \in Alerts : TimeOf[a] \in Nat
    BY AlertsAssumption
  <1>4. \A a \in kept : TimeOf[a] <= maxTs
    BY <1>1, <1>2, <1>3 DEF Greatest, Precedes
  <1>5. \A a \in top : TimeOf[a] = maxTs
    BY <1>1, <1>2, <1>3 DEF Greatest, Precedes
  <1>6. next = [ts   |-> maxTs,
                ids  |-> IF vendor # "wazuh" /\ cursor.ts = maxTs
                         THEN top \union cursor.ids ELSE top,
                from |-> IF cursor = NoCursor THEN since ELSE cursor.from]
    BY DEF NextCursor
  <1>7. maxTs \in Nat
    BY <1>1, <1>2, <1>3
  <1> HIDE DEF top, maxTs
  <1>8. /\ next.ts = maxTs
        /\ next.ids = IF vendor # "wazuh" /\ cursor.ts = maxTs
                      THEN top \union cursor.ids ELSE top
        /\ next.from = IF cursor = NoCursor THEN since ELSE cursor.from
    BY <1>6
  <1>9. next \in Cursors
    <2>1. cursor.ids \subseteq Alerts /\ cursor.from \in Int
      BY DEF Cursors
    <2>2. next.ids \in SUBSET Alerts /\ next.from \in Int
      BY <1>1, <1>8, <2>1
    <2> QED BY <1>6, <1>7, <1>8, <2>2 DEF Cursors
  <1>10. next # NoCursor
    BY <1>7, <1>8 DEF NoCursor
  <1>11. top = Greatest(vendor, kept)
    BY DEF top
  <1> QED BY <1>1, <1>4, <1>5, <1>8, <1>9, <1>10, <1>11

(* ... and it is well-formed when the cursor it continues is.              *)
LEMMA NextCursorWellFormed ==
  ASSUME NEW vendor \in Vendors, NEW kept, kept \subseteq Alerts, IsFiniteSet(kept),
         kept # {}, NEW cursor \in Cursors, NEW since \in Int,
         WellFormed(vendor, cursor)
  PROVE  WellFormed(vendor, NextCursor(vendor, kept, cursor, since))
  <1> DEFINE next == NextCursor(vendor, kept, cursor, since)
  <1>1. /\ next \in Cursors /\ next # NoCursor
        /\ \A a \in kept : TimeOf[a] <= next.ts
        /\ \E a \in kept : a \in next.ids
        /\ \A a \in next.ids :
              \/ a \in kept /\ TimeOf[a] = next.ts /\ a \in Greatest(vendor, kept)
              \/ vendor # "wazuh" /\ cursor.ts = next.ts /\ a \in cursor.ids
    BY NextCursorAt
  <1> HIDE DEF next
  <1>2. PICK k \in kept : k \in next.ids
    BY <1>1
  <1>3. TimeOf[k] \in Nat
    BY AlertsAssumption
  <1>4. next.ts \in Nat
    BY <1>1, <1>2, <1>3 DEF Cursors
  <1>5. \A i \in next.ids : TimeOf[i] = next.ts
    <2> SUFFICES ASSUME NEW i \in next.ids, i \in cursor.ids, cursor.ts = next.ts
                 PROVE  TimeOf[i] = next.ts
      BY <1>1
    <2>1. cursor # NoCursor
      BY DEF NoCursor
    <2> QED BY <2>1 DEF WellFormed
  <1>6. vendor = "wazuh" => \A i, j \in next.ids : i = j
    BY <1>1, PrecedesOrder DEF Greatest
  <1>7. WellFormed(vendor, next)
    BY <1>2, <1>4, <1>5, <1>6 DEF WellFormed
  <1> QED BY <1>7 DEF next
-----------------------------------------------------------------------------
(* The four facts about one page that ConnectorPolling rests on.           *)
OnePage(vendor, cursor, since, source, page, kept, next) ==
  /\ vendor \in Vendors
  /\ cursor \in Cursors /\ WellFormed(vendor, cursor)
  /\ since \in Int
  /\ source \subseteq Alerts
  /\ IsPage(vendor, {a \in source : Selected(vendor, cursor, since, a)}, page)
  /\ kept = Kept(vendor, page, cursor)
  /\ next = NextCursor(vendor, kept, cursor, since)

LEMMA KeptIsFinite ==
  ASSUME NEW vendor, NEW cursor, NEW since, NEW source, NEW page, NEW kept, NEW next,
         OnePage(vendor, cursor, since, source, page, kept, next)
  PROVE  kept \subseteq page /\ page \subseteq source /\ kept \subseteq Alerts /\ IsFiniteSet(kept)
  <1>1. page \subseteq source /\ IsFiniteSet(page) /\ kept \subseteq page
    BY DEF OnePage, IsPage, Kept
  <1>2. IsFiniteSet(kept)
    BY <1>1, FS_Subset
  <1> QED BY <1>1, <1>2 DEF OnePage

(* Nothing kept was already behind the cursor the query was built from.    *)
LEMMA KeptIsNew ==
  ASSUME NEW vendor, NEW cursor, NEW since, NEW source, NEW page, NEW kept, NEW next,
         OnePage(vendor, cursor, since, source, page, kept, next),
         NEW a \in kept
  PROVE  ~Behind(vendor, cursor, a)
  <1>1. a \in page /\ a \in Alerts /\ Selected(vendor, cursor, since, a)
        /\ (vendor # "wazuh" => a \notin cursor.ids)
    BY KeptIsFinite DEF OnePage, IsPage, Kept
  <1>2. TimeOf[a] \in Nat /\ a \in Nat /\ cursor.ids \subseteq Nat
    BY <1>1, AlertsAssumption DEF OnePage, Cursors
  <1>3. cursor.ts \in Int
    BY DEF OnePage, Cursors
  <1> QED BY <1>1, <1>2, <1>3 DEF Behind, Selected, OnePage, WellFormed

(* Everything kept is behind the next cursor ...                           *)
LEMMA KeptGoesBehind ==
  ASSUME NEW vendor, NEW cursor, NEW since, NEW source, NEW page, NEW kept, NEW next,
         OnePage(vendor, cursor, since, source, page, kept, next),
         NEW a \in kept
  PROVE  Behind(vendor, next, a)
  <1>1. /\ kept \subseteq Alerts /\ IsFiniteSet(kept) /\ kept # {}
        /\ vendor \in Vendors /\ cursor \in Cursors /\ since \in Int
        /\ next = NextCursor(vendor, kept, cursor, since)
    BY KeptIsFinite DEF OnePage
  <1>2. /\ next \in Cursors /\ next # NoCursor
        /\ TimeOf[a] <= next.ts
        /\ Greatest(vendor, kept) \subseteq next.ids
        /\ \A b \in kept : TimeOf[b] <= next.ts
    BY <1>1, NextCursorAt
  <1>3. \A b \in kept : b \in Nat /\ TimeOf[b] \in Nat
    BY <1>1, AlertsAssumption
  <1>4. CASE TimeOf[a] < next.ts
    BY <1>2, <1>4 DEF Behind
  <1>5. CASE TimeOf[a] = next.ts /\ vendor # "wazuh"
    <2>1. a \in Greatest(vendor, kept)
      BY <1>2, <1>3, <1>5 DEF Greatest, Precedes
    <2> QED BY <1>2, <1>5, <2>1 DEF Behind
  <1>6. CASE TimeOf[a] = next.ts /\ vendor = "wazuh"
    <2>1. PICK last \in Greatest(vendor, kept) : TRUE
      BY <1>1, GreatestExists
    <2>2. last \in kept /\ ~Precedes(vendor, last, a) /\ last \in next.ids
      BY <1>2, <2>1 DEF Greatest
    <2>3. a <= last
      BY <1>3, <1>6, <1>2, <2>2 DEF Precedes
    <2> QED BY <1>2, <1>6, <2>2, <2>3 DEF Behind
  <1>7. next.ts \in Int
    BY <1>2 DEF Cursors
  <1> QED BY <1>2, <1>3, <1>4, <1>5, <1>6, <1>7

(* ... and so is everything that was behind the previous one.              *)
LEMMA BehindStaysBehind ==
  ASSUME NEW vendor, NEW cursor, NEW since, NEW source, NEW page, NEW kept, NEW next,
         OnePage(vendor, cursor, since, source, page, kept, next), kept # {},
         NEW a \in Alerts, Behind(vendor, cursor, a)
  PROVE  Behind(vendor, next, a)
  <1>1. /\ kept \subseteq Alerts /\ kept \subseteq page /\ IsFiniteSet(kept)
        /\ vendor \in Vendors /\ cursor \in Cursors /\ since \in Int
        /\ next = NextCursor(vendor, kept, cursor, since)
    BY KeptIsFinite DEF OnePage
  <1>2. /\ next \in Cursors /\ next # NoCursor
        /\ \A b \in kept : TimeOf[b] <= next.ts
        /\ vendor # "wazuh" /\ cursor.ts = next.ts => cursor.ids \subseteq next.ids
    BY <1>1, NextCursorAt
  <1>3. PICK k \in kept : k \in next.ids
    BY <1>1, NextCursorAt
  <1>4. Selected(vendor, cursor, since, k) /\ k \in Alerts
    BY <1>1 DEF OnePage, IsPage
  <1>5. /\ TimeOf[a] \in Nat /\ TimeOf[k] \in Nat /\ a \in Nat /\ k \in Nat
        /\ cursor.ids \subseteq Nat /\ cursor.ts \in Int /\ next.ts \in Int
    <2>1. TimeOf[a] \in Nat /\ TimeOf[k] \in Nat /\ a \in Nat /\ k \in Nat
      BY <1>4, AlertsAssumption
    <2>2. cursor.ids \subseteq Alerts /\ cursor.ts \in Int
      BY <1>1 DEF Cursors
    <2>3. next.ts \in Int
      BY <1>2 DEF Cursors
    <2> QED BY <2>1, <2>2, <2>3, AlertsAssumption
  <1>6. cursor # NoCursor /\ WellFormed(vendor, cursor)
    BY DEF Behind, OnePage
  <1>7. TimeOf[k] >= cursor.ts /\ TimeOf[a] <= cursor.ts
    BY <1>4, <1>5, <1>6 DEF Selected, Behind, WellFormed
  <1>8. CASE TimeOf[a] < next.ts
    BY <1>2, <1>8 DEF Behind
  <1>9. CASE TimeOf[a] = next.ts
    <2>1. cursor.ts = next.ts /\ TimeOf[a] = cursor.ts /\ TimeOf[k] = cursor.ts
      BY <1>2, <1>5, <1>7, <1>9
    <2>2. CASE vendor # "wazuh"
      BY <1>2, <1>5, <2>1, <2>2 DEF Behind
    <2>3. CASE vendor = "wazuh"
      <3>1. PICK last \in cursor.ids : a <= last
        BY <1>5, <2>1, <2>3 DEF Behind
      <3>2. PICK prev \in cursor.ids : k > prev
        BY <1>4, <1>5, <1>6, <2>1, <2>3 DEF Selected
      <3>3. last = prev
        BY <1>6, <2>3 DEF WellFormed
      <3>4. a <= k
        BY <1>5, <3>1, <3>2, <3>3
      <3> QED BY <1>2, <1>3, <1>9, <2>3, <3>4 DEF Behind
    <2> QED BY <2>2, <2>3
  <1> QED BY <1>2, <1>3, <1>5, <1>7, <1>8, <1>9

(* The page leaves nothing out: an alert in scope that ends up behind the  *)
(* next cursor was kept, or was behind the previous one.                   *)
LEMMA PageIsComplete ==
  ASSUME NEW vendor, NEW cursor, NEW since, NEW source, NEW page, NEW kept, NEW next,
         OnePage(vendor, cursor, since, source, page, kept, next), kept # {},
         NEW a \in source, InScope(vendor, next.from, a), Behind(vendor, next, a)
  PROVE  \/ a \in kept
         \/ InScope(vendor, cursor.from, a) /\ Behind(vendor, cursor, a)
  <1>1. /\ kept \subseteq Alerts /\ kept \subseteq page /\ IsFiniteSet(kept)
        /\ vendor \in Vendors /\ cursor \in Cursors /\ since \in Int /\ a \in Alerts
        /\ WellFormed(vendor, cursor)
        /\ next = NextCursor(vendor, kept, cursor, since)
    <2>1. kept \subseteq Alerts /\ kept \subseteq page /\ IsFiniteSet(kept)
      BY KeptIsFinite
    <2> QED BY <2>1 DEF OnePage
  <1>2. /\ next \in Cursors
        /\ next.from = IF cursor = NoCursor THEN since ELSE cursor.from
        /\ \E b \in kept : b \in next.ids
        /\ \A b \in next.ids :
              \/ b \in kept /\ TimeOf[b] = next.ts /\ b \in Greatest(vendor, kept)
              \/ vendor # "wazuh" /\ cursor.ts = next.ts /\ b \in cursor.ids
    BY <1>1, NextCursorAt
  <1>3. PICK k \in kept : k \in next.ids
    BY <1>2
  <1>4. \A b \in Alerts : b \in Nat /\ TimeOf[b] \in Nat
    BY AlertsAssumption
  <1>5. /\ cursor.ids \subseteq Alerts /\ next.ids \subseteq Alerts
        /\ cursor.ts \in Int /\ next.ts \in Int
    BY <1>1, <1>2 DEF Cursors
  <1>6. WellFormed(vendor, next)
    BY <1>1, NextCursorWellFormed
  <1>7. next # NoCursor /\ TimeOf[k] = next.ts
    BY <1>1, <1>3, <1>6, NextCursorAt DEF WellFormed
  <1>8. \/ Selected(vendor, cursor, since, a)
        \/ InScope(vendor, cursor.from, a) /\ Behind(vendor, cursor, a)
    <2>1. CASE cursor = NoCursor
      BY <1>2, <2>1 DEF Selected
    <2>2. CASE cursor # NoCursor
      <3>1. cursor.ids # {}
        BY <1>1, <2>2 DEF WellFormed
      <3>2. InScope(vendor, cursor.from, a)
        BY <1>2, <2>2
      <3>3. Selected(vendor, cursor, since, a) \/ Behind(vendor, cursor, a)
        BY <1>1, <1>4, <1>5, <2>2, <3>1 DEF Selected, Behind
      <3> QED BY <3>2, <3>3
    <2> QED BY <2>1, <2>2
  <1>9. ASSUME a \in page PROVE a \in kept \/ (Behind(vendor, cursor, a) /\ cursor # NoCursor)
    <2>1. CASE a \in kept
      BY <2>1
    <2>2. CASE a \notin kept
      <3>1. vendor # "wazuh" /\ a \in cursor.ids
        BY <1>9, <2>2 DEF OnePage, Kept
      <3> QED BY <3>1 DEF Behind, NoCursor
    <2> QED BY <2>1, <2>2
  <1>10. ASSUME Selected(vendor, cursor, since, a), a \notin page
         PROVE  cursor # NoCursor /\ Behind(vendor, cursor, a)
    <2>1. \A b \in page : ~Precedes(vendor, a, b)
      BY <1>10 DEF OnePage, IsPage
    <2>2. TimeOf[a] >= next.ts
      <3>1. k \in page /\ k \in Alerts /\ a \in Alerts
        BY <1>1, <1>3
      <3>2. ~(TimeOf[a] < TimeOf[k])
        BY <2>1, <3>1 DEF Precedes
      <3> QED BY <1>4, <1>7, <3>1, <3>2
    <2>3. CASE vendor # "wazuh"
      <3>1. a \in next.ids
        BY <1>4, <1>5, <1>1, <2>2, <2>3 DEF Behind
      <3>2. a \in cursor.ids
        BY <1>1, <1>2, <1>10, <3>1
      <3> QED BY <2>3, <3>2 DEF Behind, NoCursor
    <2>4. CASE vendor = "wazuh"
      <3>1. TimeOf[a] = next.ts
        BY <1>4, <1>5, <1>1, <2>2, <2>4 DEF Behind
      <3>2. PICK last \in next.ids : a <= last
        BY <1>1, <1>4, <1>5, <2>2, <2>4 DEF Behind
      <3>3. last \in kept /\ TimeOf[last] = next.ts
        BY <1>2, <2>4
      <3>4. a = last
        BY <1>1, <1>4, <1>5, <2>1, <2>4, <3>1, <3>2, <3>3 DEF Precedes
      <3> QED BY <1>1, <1>10, <3>3, <3>4
    <2> QED BY <2>3, <2>4
  <1>11. ASSUME cursor # NoCursor PROVE InScope(vendor, cursor.from, a)
    BY <1>2, <1>11
  <1> QED BY <1>8, <1>9, <1>10, <1>11
-----------------------------------------------------------------------------
LEMMA NoCursorType == NoCursor \in Cursors
  BY DEF NoCursor, Cursors

LEMMA IdleType == Idle \in Polls /\ NewRow \in Rows
  <1>1. (CHOOSE c \in Connectors : TRUE) \in Connectors
    BY ConnectorsAssumption
  <1> QED BY <1>1, NoCursorType DEF Idle, NewRow, Polls, Rows

(* A connector starts unused or used up, and without a cursor.             *)
LEMMA InitRow ==
  ASSUME Init, NEW c \in Connectors
  PROVE  row[c] \in Rows /\ row[c].cursor = NoCursor
  <1>1. PICK used \in SUBSET Connectors :
          row = [d \in Connectors |->
                  [NewRow EXCEPT !.state = IF d \in used THEN "deleted" ELSE "none"]]
    BY DEF Init
  <1>2. row[c] = [NewRow EXCEPT !.state = IF c \in used THEN "deleted" ELSE "none"]
    BY <1>1
  <1>3. (IF c \in used THEN "deleted" ELSE "none") \in {"none", "live", "deleted"}
    OBVIOUS
  <1> QED BY <1>2, <1>3, IdleType DEF NewRow, Rows

LEMMA InitTypeOK == Init => TypeOK
  <1> SUFFICES ASSUME Init PROVE TypeOK
    OBVIOUS
  <1>1. stored \in [Connectors -> [Alerts -> 0..MaxCopies]] /\ clock \in 0..MaxClock
    BY ConnectorsAssumption DEF Init
  <1>2. row \in [Connectors -> Rows]
    <2>1. row = [c \in Connectors |-> row[c]]
      BY DEF Init
    <2> QED BY <2>1, InitRow
  <1>3. poll \in [Pollers -> Polls]
    BY IdleType DEF Init
  <1> QED BY <1>1, <1>2, <1>3 DEF Init, TypeOK

LEMMA IngestedType ==
  ASSUME NEW copies \in [Alerts -> 0..MaxCopies], NEW payloads \in SUBSET Alerts
  PROVE  /\ Ingested(copies, payloads) \in [Alerts -> 0..MaxCopies]
         /\ \A a \in Alerts : copies[a] > 0 => Ingested(copies, payloads)[a] > 0
         /\ \A a \in payloads \ Rejected : Ingested(copies, payloads)[a] > 0
         /\ \A a \in Alerts : a \notin payloads => Ingested(copies, payloads)[a] = copies[a]
  BY ConnectorsAssumption DEF Ingested

(* The result of a fetch is a set of alerts and a well-typed cursor.       *)
LEMMA FetchType ==
  ASSUME NEW vendor \in Vendors, NEW cursor \in Cursors, NEW since \in Int,
         NEW page \in SUBSET Alerts, IsFiniteSet(page)
  PROVE  /\ Kept(vendor, page, cursor) \in SUBSET Alerts
         /\ NextCursor(vendor, Kept(vendor, page, cursor), cursor, since) \in Cursors
  <1> DEFINE kept == Kept(vendor, page, cursor)
  <1>1. kept \subseteq page
    BY DEF Kept
  <1>2. kept \subseteq Alerts /\ IsFiniteSet(kept)
    BY <1>1, FS_Subset
  <1>3. CASE kept = {}
    BY <1>2, <1>3, NoCursorType DEF NextCursor
  <1>4. CASE kept # {}
    <2> HIDE DEF kept
    <2>1. NextCursor(vendor, kept, cursor, since) \in Cursors
      BY <1>2, <1>4, NextCursorAt
    <2> QED BY <1>2, <2>1 DEF kept
  <1> QED BY <1>3, <1>4

LEMMA NextTypeOK == TypeOK /\ [Next]_vars => TypeOK'
  <1> SUFFICES ASSUME TypeOK, [Next]_vars PROVE TypeOK'
    OBVIOUS
  <1> USE DEF TypeOK
  <1>1. CASE Source
    <2>1. CASE Tick
      BY <2>1, ConnectorsAssumption DEF Tick
    <2>2. ASSUME NEW c \in Connectors, NEW a \in Alerts, Publish(c, a) PROVE TypeOK'
      BY <2>2 DEF Publish
    <2> QED BY <1>1, <2>1, <2>2 DEF Source
  <1>2. CASE Endpoint
    <2> SUFFICES ASSUME NEW c \in Connectors, Create(c) \/ Update(c) \/ Test(c) \/ Delete(c)
                 PROVE  TypeOK'
      BY <1>2 DEF Endpoint
    <2>1. /\ row[c] \in Rows
          /\ \A enabled \in BOOLEAN : [row[c] EXCEPT !.state = "live", !.enabled = enabled] \in Rows
          /\ [row[c] EXCEPT !.enabled = ~@] \in Rows
          /\ \A verdict \in {"healthy", "error"} : [row[c] EXCEPT !.status = verdict] \in Rows
      BY DEF Rows
    <2>2. CASE Create(c)
      BY <2>1, <2>2 DEF Create
    <2>3. CASE Update(c)
      BY <2>1, <2>3 DEF Update
    <2>4. CASE Test(c)
      BY <2>1, <2>4 DEF Test
    <2>5. CASE Delete(c)
      <3>1. [NewRow EXCEPT !.state = "deleted"] \in Rows
        BY IdleType DEF Rows
      <3> QED BY <2>5, <3>1 DEF Delete
    <2> QED BY <2>2, <2>3, <2>4, <2>5
  <1>3. ASSUME NEW p \in Pollers, PollStep(p) PROVE TypeOK'
    <2>1. /\ poll[p] \in Polls /\ Idle \in Polls /\ poll[p].conn \in Connectors
          /\ row[poll[p].conn] \in Rows
          /\ VendorOf[poll[p].conn] \in Vendors
          /\ poll[p].cursor \in Cursors /\ poll[p].next \in Cursors
          /\ poll[p].payloads \in SUBSET Alerts
      BY IdleType, ConnectorsAssumption DEF Polls
    <2>2. ASSUME NEW c \in Connectors, Snapshot(p, c) PROVE TypeOK'
      <3>1. row[c].cursor \in Cursors
        BY DEF Rows
      <3>2. [Idle EXCEPT !.pc = "fetching", !.conn = c, !.cursor = row[c].cursor] \in Polls
        BY <2>1, <3>1 DEF Polls
      <3> QED BY <2>2, <3>2 DEF Snapshot
    <2>3. CASE Fetch(p)
      <3> DEFINE c == poll[p].conn
                 since == clock - Lookback
      <3>1. PICK page \in SUBSET published[c] :
              LET kept == Kept(VendorOf[c], page, poll[p].cursor) IN
              /\ IsFiniteSet(page)
              /\ poll' = [poll EXCEPT
                    ![p].pc = "fetched", ![p].payloads = kept,
                    ![p].next = NextCursor(VendorOf[c], kept, poll[p].cursor, since)]
        BY <2>3 DEF Fetch, IsPage
      <3>2. page \in SUBSET Alerts /\ since \in Int
        BY <2>1, ConnectorsAssumption
      <3>3. /\ Kept(VendorOf[c], page, poll[p].cursor) \in SUBSET Alerts
            /\ NextCursor(VendorOf[c], Kept(VendorOf[c], page, poll[p].cursor),
                          poll[p].cursor, since) \in Cursors
        BY <2>1, <3>1, <3>2, FetchType
      <3> HIDE DEF since, c
      <3>4. poll' \in [Pollers -> Polls]
        BY <2>1, <3>1, <3>3 DEF Polls
      <3> QED BY <2>3, <3>4 DEF Fetch
    <2>4. CASE FetchFails(p)
      BY <2>1, <2>4 DEF FetchFails, Polls
    <2>5. CASE Ingest(p)
      <3> DEFINE c == poll[p].conn
      <3>1. stored' \in [Connectors -> [Alerts -> 0..MaxCopies]]
        <4>1. stored[c] \in [Alerts -> 0..MaxCopies]
          BY <2>1
        <4>2. Ingested(stored[c], poll[p].payloads) \in [Alerts -> 0..MaxCopies]
          BY <2>1, <4>1, IngestedType
        <4> QED BY <2>5, <4>2 DEF Ingest
      <3>2. row' \in [Connectors -> Rows]
        <4> DEFINE kept == IF poll[p].next = NoCursor THEN row[c].cursor ELSE poll[p].next
        <4>1. row[c].cursor \in Cursors
          BY <2>1 DEF Rows
        <4>2. kept \in Cursors
          BY <2>1, <4>1
        <4> HIDE DEF kept
        <4> DEFINE r == [row[c] EXCEPT !.cursor = kept, !.status = "healthy"]
        <4>3. r \in Rows
          BY <2>1, <4>2 DEF Rows
        <4>4. row' = [row EXCEPT ![c] = r]
          BY <2>5 DEF Ingest, kept
        <4> HIDE DEF r
        <4> QED BY <2>1, <4>3, <4>4
      <3>3. poll' \in [Pollers -> Polls]
        <4>1. [Idle EXCEPT !.pc = "ingested", !.conn = c] \in Polls
          BY <2>1 DEF Polls
        <4> QED BY <2>1, <2>5, <4>1 DEF Ingest
      <3> QED BY <2>5, <3>1, <3>2, <3>3 DEF Ingest
    <2>6. CASE IngestGone(p)
      BY <2>1, <2>6 DEF IngestGone
    <2>7. CASE IngestFails(p)
      BY <2>1, <2>7 DEF IngestFails, Polls
    <2>8. CASE MarkError(p)
      <3>1. row' \in [Connectors -> Rows]
        <4> DEFINE r == [row[poll[p].conn] EXCEPT !.status = "error"]
        <4>1. r \in Rows
          BY <2>1 DEF Rows
        <4>2. row' = [row EXCEPT ![poll[p].conn] = r] \/ row' = row
          BY <2>8 DEF MarkError
        <4> HIDE DEF r
        <4> QED BY <2>1, <4>1, <4>2
      <3> QED BY <2>1, <2>8, <3>1 DEF MarkError
    <2>9. CASE Schedule(p)
      BY <2>1, <2>9 DEF Schedule
    <2> QED BY <1>3, <2>2, <2>3, <2>4, <2>5, <2>6, <2>7, <2>8, <2>9 DEF PollStep
  <1>4. CASE Correlate
    BY <1>4 DEF Correlate
  <1>5. CASE Crash
    BY <1>5, IdleType DEF Crash
  <1>6. CASE UNCHANGED vars
    BY <1>6 DEF vars
  <1> QED BY <1>1, <1>2, <1>3, <1>4, <1>5, <1>6 DEF Next

(* Every variable keeps its type, for all constants.                       *)
THEOREM TypeCorrect == Spec => []TypeOK
  BY InitTypeOK, NextTypeOK, PTL DEF Spec
-----------------------------------------------------------------------------
(* Drop-freedom needs sources in which nothing appears behind a position   *)
(* already handed out: in timestamp order, and for wazuh in (timestamp,    *)
(* _id) order.                                                             *)
ArrivalInOrder ==
  \A c \in Connectors :
    /\ ArrivalOf[c] # "late"
    /\ VendorOf[c] = "wazuh" => ArrivalOf[c] = "position"

(* The strengthening.  A cursor is placed when it stands on published      *)
(* alerts; it is covered when whatever is behind it is stored, refused, or *)
(* in `extra'.  Rows hold covered cursors; a poll holds the one it started *)
(* from and, once fetched, one covered up to its payloads.                 *)
PlacedIn(source, now, vendor, cursor) ==
  /\ WellFormed(vendor, cursor)
  /\ cursor # NoCursor => cursor.ids \subseteq source /\ cursor.ts <= now

CoveredIn(source, copies, vendor, cursor, extra) ==
  \A a \in source : InScope(vendor, cursor.from, a) /\ Behind(vendor, cursor, a)
                      => copies[a] > 0 \/ a \in Rejected \/ a \in extra

RowOK(source, now, copies, vendor, cursor) ==
  PlacedIn(source, now, vendor, cursor) /\ CoveredIn(source, copies, vendor, cursor, {})

PollOK(source, now, copies, vendor, q) ==
  /\ q.pc \in {"fetching", "fetched"} => RowOK(source, now, copies, vendor, q.cursor)
  /\ q.pc = "fetched" =>
       /\ q.payloads \subseteq source
       /\ PlacedIn(source, now, vendor, q.next)
       /\ CoveredIn(source, copies, vendor, q.next, q.payloads)

LossInv ==
  /\ TypeOK
  /\ \A c \in Connectors : \A a \in published[c] : TimeOf[a] <= clock
  /\ \A c \in Connectors :
       RowOK(published[c], clock, stored[c], VendorOf[c], row[c].cursor)
  /\ \A p \in Pollers :
       PollOK(published[poll[p].conn], clock, stored[poll[p].conn], VendorOf[poll[p].conn], poll[p])

(* The empty cursor is placed and covers nothing.                          *)
LEMMA NoCursorOK ==
  ASSUME NEW source, NEW now, NEW copies, NEW vendor, NEW extra
  PROVE  /\ PlacedIn(source, now, vendor, NoCursor)
         /\ CoveredIn(source, copies, vendor, NoCursor, extra)
  BY DEF PlacedIn, CoveredIn, WellFormed, Behind

(* Time passes and copies are added: nothing is lost.                      *)
LEMMA CoveredMoreCopies ==
  ASSUME NEW source \in SUBSET Alerts, NEW now \in Nat, NEW now2 \in Nat, now <= now2,
         NEW copies, NEW more, \A a \in Alerts : copies[a] > 0 => more[a] > 0,
         NEW vendor, NEW cursor \in Cursors, NEW extra
  PROVE  /\ PlacedIn(source, now, vendor, cursor) => PlacedIn(source, now2, vendor, cursor)
         /\ CoveredIn(source, copies, vendor, cursor, extra)
              => CoveredIn(source, more, vendor, cursor, extra)
  <1>1. cursor.ts \in Int
    BY DEF Cursors
  <1> QED BY <1>1 DEF PlacedIn, CoveredIn

LEMMA PollMoreCopies ==
  ASSUME NEW source \in SUBSET Alerts, NEW now \in Nat, NEW now2 \in Nat, now <= now2,
         NEW copies, NEW more, \A a \in Alerts : copies[a] > 0 => more[a] > 0,
         NEW vendor, NEW q \in Polls, PollOK(source, now, copies, vendor, q)
  PROVE  PollOK(source, now2, more, vendor, q)
  <1>1. q.cursor \in Cursors /\ q.next \in Cursors
    BY DEF Polls
  <1>2. q.pc \in {"fetching", "fetched"} => RowOK(source, now2, more, vendor, q.cursor)
    BY <1>1, CoveredMoreCopies DEF PollOK, RowOK
  <1>3. q.pc = "fetched" =>
          PlacedIn(source, now2, vendor, q.next) /\ CoveredIn(source, more, vendor, q.next, q.payloads)
    BY <1>1, CoveredMoreCopies DEF PollOK
  <1> QED BY <1>2, <1>3 DEF PollOK

(* A new alert is not behind any cursor placed on the alerts before it.    *)
LEMMA CoveredNewAlert ==
  ASSUME NEW source \in SUBSET Alerts, NEW now \in Nat, NEW a \in Alerts \ source,
         TimeOf[a] = now, NEW vendor, NEW cursor \in Cursors, NEW copies, NEW extra,
         vendor = "wazuh" => \A b \in source : Precedes("wazuh", b, a),
         PlacedIn(source, now, vendor, cursor)
  PROVE  /\ PlacedIn(source \union {a}, now, vendor, cursor)
         /\ CoveredIn(source, copies, vendor, cursor, extra)
              => CoveredIn(source \union {a}, copies, vendor, cursor, extra)
  <1>1. PlacedIn(source \union {a}, now, vendor, cursor)
    BY DEF PlacedIn
  <1>2. ~Behind(vendor, cursor, a)
    <2> SUFFICES ASSUME Behind(vendor, cursor, a) PROVE FALSE
      OBVIOUS
    <2>1. cursor # NoCursor /\ cursor.ids \subseteq source /\ cursor.ts <= now /\ cursor.ts \in Nat
          /\ \A i \in cursor.ids : TimeOf[i] = cursor.ts
      BY DEF Behind, PlacedIn, WellFormed
    <2>2. \A i \in source \union {a} : i \in Nat /\ TimeOf[i] \in Nat
      BY AlertsAssumption
    <2>3. PICK last \in cursor.ids : vendor = "wazuh" /\ TimeOf[a] = cursor.ts /\ a <= last
      BY <2>1, <2>2 DEF Behind
    <2>4. Precedes("wazuh", last, a)
      BY <2>1, <2>3
    <2> QED BY <2>1, <2>2, <2>3, <2>4 DEF Precedes
  <1> QED BY <1>1, <1>2 DEF CoveredIn

LEMMA PollNewAlert ==
  ASSUME NEW source \in SUBSET Alerts, NEW now \in Nat, NEW a \in Alerts \ source,
         TimeOf[a] = now, NEW vendor, NEW copies, NEW q \in Polls,
         vendor = "wazuh" => \A b \in source : Precedes("wazuh", b, a),
         PollOK(source, now, copies, vendor, q)
  PROVE  PollOK(source \union {a}, now, copies, vendor, q)
  <1>1. q.cursor \in Cursors /\ q.next \in Cursors
    BY DEF Polls
  <1>2. q.pc \in {"fetching", "fetched"} =>
          RowOK(source \union {a}, now, copies, vendor, q.cursor)
    BY <1>1, CoveredNewAlert DEF PollOK, RowOK
  <1>3. q.pc = "fetched" =>
          /\ PlacedIn(source \union {a}, now, vendor, q.next)
          /\ CoveredIn(source \union {a}, copies, vendor, q.next, q.payloads)
    BY <1>1, CoveredNewAlert DEF PollOK
  <1> QED BY <1>2, <1>3 DEF PollOK

(* A fetched page continues a covered cursor by its payloads.              *)
LEMMA FetchCovers ==
  ASSUME NEW vendor, NEW cursor, NEW since, NEW source, NEW page, NEW kept, NEW next,
         NEW now \in Nat, NEW copies, \A a \in source : TimeOf[a] <= now,
         OnePage(vendor, cursor, since, source, page, kept, next),
         RowOK(source, now, copies, vendor, cursor)
  PROVE  /\ kept \subseteq source
         /\ PlacedIn(source, now, vendor, next)
         /\ CoveredIn(source, copies, vendor, next, kept)
  <1>1. kept \subseteq source /\ kept \subseteq Alerts /\ IsFiniteSet(kept)
    BY KeptIsFinite
  <1>2. CASE kept = {}
    <2>1. next = NoCursor
      BY <1>2 DEF OnePage, NextCursor
    <2> QED BY <1>1, <2>1, NoCursorOK
  <1>3. CASE kept # {}
    <2>1. /\ vendor \in Vendors /\ cursor \in Cursors /\ since \in Int
          /\ WellFormed(vendor, cursor)
          /\ next = NextCursor(vendor, kept, cursor, since)
      BY DEF OnePage
    <2>2. WellFormed(vendor, next)
      BY <1>1, <1>3, <2>1, NextCursorWellFormed
    <2>3. /\ \E a \in kept : a \in next.ids
          /\ \A a \in next.ids :
               \/ a \in kept /\ TimeOf[a] = next.ts /\ a \in Greatest(vendor, kept)
               \/ vendor # "wazuh" /\ cursor.ts = next.ts /\ a \in cursor.ids
          /\ next # NoCursor
      BY <1>1, <1>3, <2>1, NextCursorAt
    <2>4. next.ts <= now
      BY <1>1, <2>2, <2>3 DEF WellFormed
    <2>5. next.ids \subseteq source
      <3> SUFFICES ASSUME NEW a \in next.ids, a \in cursor.ids PROVE a \in source
        BY <1>1, <2>3
      <3>1. cursor # NoCursor
        BY DEF NoCursor
      <3> QED BY <3>1 DEF RowOK, PlacedIn
    <2>6. CoveredIn(source, copies, vendor, next, kept)
      <3> SUFFICES ASSUME NEW a \in source, InScope(vendor, next.from, a),
                          Behind(vendor, next, a)
                   PROVE  copies[a] > 0 \/ a \in Rejected \/ a \in kept
        BY DEF CoveredIn
      <3>1. a \in kept \/ (InScope(vendor, cursor.from, a) /\ Behind(vendor, cursor, a))
        BY <1>3, PageIsComplete
      <3> QED BY <3>1 DEF RowOK, CoveredIn
    <2> QED BY <1>1, <2>2, <2>4, <2>5, <2>6 DEF PlacedIn
  <1> QED BY <1>2, <1>3
-----------------------------------------------------------------------------
LEMMA InitLossInv == Init => LossInv
  <1> SUFFICES ASSUME Init PROVE LossInv
    OBVIOUS
  <1>1. TypeOK
    BY InitTypeOK
  <1>2. ASSUME NEW c \in Connectors
        PROVE  RowOK(published[c], clock, stored[c], VendorOf[c], row[c].cursor)
    <2>1. row[c].cursor = NoCursor
      BY InitRow
    <2> QED BY <2>1, NoCursorOK DEF RowOK
  <1>3. ASSUME NEW p \in Pollers
        PROVE  PollOK(published[poll[p].conn], clock, stored[poll[p].conn],
                      VendorOf[poll[p].conn], poll[p])
    BY DEF Init, Idle, PollOK
  <1> QED BY <1>1, <1>2, <1>3 DEF LossInv, Init

LEMMA NextLossInv ==
  ASSUME ArrivalInOrder, LossInv, [Next]_vars
  PROVE  LossInv'
  <1>1. TypeOK /\ TypeOK'
    BY NextTypeOK DEF LossInv
  <1>2. /\ clock \in Nat /\ clock' \in Nat
        /\ \A c \in Connectors :
             /\ published[c] \in SUBSET Alerts /\ published'[c] \in SUBSET Alerts
             /\ row[c] \in Rows /\ row[c].cursor \in Cursors /\ VendorOf[c] \in Vendors
             /\ stored[c] \in [Alerts -> 0..MaxCopies]
        /\ \A p \in Pollers : /\ poll[p] \in Polls /\ poll[p].conn \in Connectors
                              /\ poll[p].cursor \in Cursors /\ poll[p].next \in Cursors
                              /\ poll[p].payloads \in SUBSET Alerts
    BY <1>1, ConnectorsAssumption DEF TypeOK, Rows, Polls
  <1> DEFINE RowAt(c) == RowOK(published[c], clock, stored[c], VendorOf[c], row[c].cursor)
             PollAt(p) == PollOK(published[poll[p].conn], clock, stored[poll[p].conn],
                                 VendorOf[poll[p].conn], poll[p])
             Past == \A c \in Connectors : \A a \in published[c] : TimeOf[a] <= clock
  <1>3. Past /\ (\A c \in Connectors : RowAt(c)) /\ (\A p \in Pollers : PollAt(p))
    BY DEF LossInv
  <1>4. SUFFICES Past' /\ (\A c \in Connectors : RowAt(c)') /\ (\A p \in Pollers : PollAt(p)')
    BY <1>1 DEF LossInv
  <1>5. CASE Tick
    <2>1. clock <= clock' /\ UNCHANGED <<published, row, stored, poll>>
      BY <1>2, <1>5 DEF Tick
    <2>2. Past'
      <3> SUFFICES ASSUME NEW c \in Connectors, NEW a \in published[c]
                   PROVE  TimeOf[a] <= clock'
        BY <2>1
      <3>1. TimeOf[a] <= clock /\ TimeOf[a] \in Nat
        BY <1>2, <1>3, AlertsAssumption
      <3> QED BY <1>2, <2>1, <3>1
    <2>3. ASSUME NEW c \in Connectors PROVE RowAt(c)'
      BY <1>2, <1>3, <2>1, CoveredMoreCopies DEF RowOK
    <2>4. ASSUME NEW p \in Pollers PROVE PollAt(p)'
      BY <1>2, <1>3, <2>1, PollMoreCopies
    <2> QED BY <2>2, <2>3, <2>4
  <1>6. ASSUME NEW c \in Connectors, NEW a \in Alerts, Publish(c, a)
        PROVE  Past' /\ (\A d \in Connectors : RowAt(d)') /\ (\A p \in Pollers : PollAt(p)')
    <2>1. /\ a \in Alerts \ published[c] /\ TimeOf[a] = clock
          /\ VendorOf[c] = "wazuh" => \A b \in published[c] : Precedes("wazuh", b, a)
          /\ published' = [published EXCEPT ![c] = @ \union {a}]
          /\ UNCHANGED <<clock, row, stored, poll>>
      BY <1>6 DEF Publish, ArrivalInOrder
    <2>2. \A d \in Connectors :
            published'[d] = IF d = c THEN published[c] \union {a} ELSE published[d]
      BY <1>1, <2>1 DEF TypeOK
    <2>3. Past'
      BY <1>2, <1>3, <2>1, <2>2
    <2>4. ASSUME NEW d \in Connectors PROVE RowAt(d)'
      <3>1. CASE d = c
        BY <1>2, <1>3, <2>1, <2>2, <3>1, CoveredNewAlert DEF RowOK
      <3>2. CASE d # c
        BY <1>3, <2>1, <2>2, <3>2
      <3> QED BY <3>1, <3>2
    <2>5. ASSUME NEW p \in Pollers PROVE PollAt(p)'
      <3>1. CASE poll[p].conn = c
        BY <1>2, <1>3, <2>1, <2>2, <3>1, PollNewAlert
      <3>2. CASE poll[p].conn # c
        BY <1>2, <1>3, <2>1, <2>2, <3>2
      <3> QED BY <3>1, <3>2
    <2> QED BY <2>3, <2>4, <2>5
  <1>7. ASSUME NEW c \in Connectors, Create(c) \/ Update(c) \/ Test(c) \/ Delete(c)
        PROVE  Past' /\ (\A d \in Connectors : RowAt(d)') /\ (\A p \in Pollers : PollAt(p)')
    <2>1. UNCHANGED <<clock, published, stored, poll>>
      BY <1>7 DEF Create, Update, Test, Delete
    <2>2. ASSUME NEW d \in Connectors
          PROVE  row'[d].cursor = row[d].cursor \/ row'[d].cursor = NoCursor
      <3>1. CASE Delete(c)
        BY <1>1, <3>1 DEF Delete, NewRow, TypeOK
      <3>2. CASE Create(c) \/ Update(c) \/ Test(c)
        <4>1. CASE Create(c)
          BY <1>1, <1>2, <4>1 DEF Create, TypeOK, Rows
        <4>2. CASE Update(c)
          BY <1>1, <1>2, <4>2 DEF Update, TypeOK, Rows
        <4>3. CASE Test(c)
          BY <1>1, <1>2, <4>3 DEF Test, TypeOK, Rows
        <4> QED BY <3>2, <4>1, <4>2, <4>3
      <3> QED BY <1>7, <3>1, <3>2
    <2>3. ASSUME NEW d \in Connectors PROVE RowAt(d)'
      BY <1>3, <2>1, <2>2, NoCursorOK DEF RowOK
    <2> QED BY <1>3, <2>1, <2>3
  <1>8. ASSUME NEW p \in Pollers, PollStep(p)
        PROVE  Past' /\ (\A c \in Connectors : RowAt(c)') /\ (\A q \in Pollers : PollAt(q)')
    <2>1. UNCHANGED <<clock, published>>
      BY <1>8 DEF PollStep, Snapshot, Fetch, FetchFails, Ingest, IngestGone, IngestFails,
                  MarkError, Schedule
    <2>2. Past'
      BY <1>3, <2>1
    <2>3. \A q \in Pollers \ {p} : poll'[q] = poll[q]
      BY <1>1, <1>8 DEF PollStep, Snapshot, Fetch, FetchFails, Ingest, IngestGone, IngestFails,
                  MarkError, Schedule, TypeOK
    <2>4. ASSUME UNCHANGED <<row, stored>>, PollAt(p)'
          PROVE  (\A c \in Connectors : RowAt(c)') /\ (\A q \in Pollers : PollAt(q)')
      BY <1>3, <2>1, <2>3, <2>4
    <2>5. ASSUME poll'[p].pc \in {"idle", "ingested", "error"} PROVE PollAt(p)'
      BY <2>5 DEF PollOK
    <2>6. ASSUME NEW c \in Connectors, Snapshot(p, c) PROVE PollAt(p)'
      <3>1. /\ poll'[p].pc = "fetching" /\ poll'[p].conn = c
            /\ poll'[p].cursor = row[c].cursor
            /\ UNCHANGED stored
        BY <1>1, <1>2, <2>6 DEF Snapshot, TypeOK, Idle, Polls
      <3> QED BY <1>3, <2>1, <3>1 DEF PollOK
    <2>7. CASE Fetch(p)
      <3> DEFINE c == poll[p].conn
                 since == clock - Lookback
      <3>1. PICK page \in SUBSET published[c] :
              LET kept == Kept(VendorOf[c], page, poll[p].cursor) IN
              /\ IsPage(VendorOf[c],
                        {a \in published[c] : Selected(VendorOf[c], poll[p].cursor, since, a)},
                        page)
              /\ poll' = [poll EXCEPT
                    ![p].pc = "fetched", ![p].payloads = kept,
                    ![p].next = NextCursor(VendorOf[c], kept, poll[p].cursor, since)]
        BY <2>7 DEF Fetch
      <3> DEFINE kept == Kept(VendorOf[c], page, poll[p].cursor)
                 next == NextCursor(VendorOf[c], kept, poll[p].cursor, since)
      <3>2. /\ poll'[p].pc = "fetched" /\ poll'[p].conn = c
            /\ poll'[p].cursor = poll[p].cursor
            /\ poll'[p].payloads = kept /\ poll'[p].next = next
        BY <1>1, <1>2, <3>1 DEF TypeOK, Polls
      <3>3. since \in Int
        BY <1>2, ConnectorsAssumption
      <3>4. RowOK(published[c], clock, stored[c], VendorOf[c], poll[p].cursor)
        BY <1>3, <2>7 DEF Fetch, PollOK
      <3>5. c \in Connectors
        BY <1>2
      <3> HIDE DEF since, c, kept, next
      <3>6. OnePage(VendorOf[c], poll[p].cursor, since, published[c], page, kept, next)
        BY <1>2, <3>1, <3>3, <3>4, <3>5 DEF OnePage, RowOK, PlacedIn, kept, next
      <3>7. /\ kept \subseteq published[c]
            /\ PlacedIn(published[c], clock, VendorOf[c], next)
            /\ CoveredIn(published[c], stored[c], VendorOf[c], next, kept)
        BY <1>2, <1>3, <3>4, <3>5, <3>6, FetchCovers
      <3>8. stored' = stored
        BY <2>7 DEF Fetch
      <3>9. PollAt(p)'
        BY <2>1, <3>2, <3>4, <3>7, <3>8 DEF PollOK
      <3>10. UNCHANGED <<row, stored>>
        BY <2>7 DEF Fetch
      <3> QED BY <2>2, <2>4, <3>9, <3>10
    <2>8. CASE Ingest(p)
      <3> DEFINE c == poll[p].conn
                 more == Ingested(stored[c], poll[p].payloads)
      <3>1. c \in Connectors
        BY <1>2
      <3>2. /\ \A a \in Alerts : stored[c][a] > 0 => more[a] > 0
            /\ \A a \in poll[p].payloads \ Rejected : more[a] > 0
        BY <1>2, IngestedType
      <3>3. \A d \in Connectors : stored'[d] = IF d = c THEN more ELSE stored[d]
        BY <1>1, <2>8 DEF Ingest, TypeOK
      <3>4. \A d \in Connectors : row'[d].cursor =
              IF d = c /\ poll[p].next # NoCursor THEN poll[p].next ELSE row[d].cursor
        BY <1>1, <1>2, <2>8 DEF Ingest, TypeOK, Rows
      <3>5. poll'[p].pc \in {"idle", "ingested"}
        BY <1>1, <2>8 DEF Ingest, TypeOK, Idle
      <3> HIDE DEF c, more
      <3>6. ASSUME NEW d \in Connectors PROVE \A a \in Alerts : stored[d][a] > 0 => stored'[d][a] > 0
        BY <3>2, <3>3
      <3>7. ASSUME NEW d \in Connectors PROVE RowAt(d)'
        <4>1. CASE d = c /\ poll[p].next # NoCursor
          <5>1. /\ PlacedIn(published[c], clock, VendorOf[c], poll[p].next)
                /\ CoveredIn(published[c], stored[c], VendorOf[c], poll[p].next, poll[p].payloads)
            BY <1>3, <2>8 DEF Ingest, PollOK, c
          <5>2. CoveredIn(published[c], more, VendorOf[c], poll[p].next, {})
            BY <1>2, <3>1, <3>2, <5>1 DEF CoveredIn
          <5> QED BY <2>1, <3>3, <3>4, <4>1, <5>1, <5>2 DEF RowOK
        <4>2. CASE ~(d = c /\ poll[p].next # NoCursor)
          <5>1. row'[d].cursor = row[d].cursor
            BY <3>4, <4>2
          <5>2. RowOK(published[d], clock, stored'[d], VendorOf[d], row[d].cursor)
            BY <1>2, <1>3, <3>6, CoveredMoreCopies DEF RowOK
          <5> QED BY <2>1, <5>1, <5>2
        <4> QED BY <4>1, <4>2
      <3>8. ASSUME NEW q \in Pollers \ {p} PROVE PollAt(q)'
        <4>1. poll'[q] = poll[q] /\ poll[q].conn \in Connectors
          BY <1>2, <2>3
        <4>2. PollOK(published[poll[q].conn], clock, stored'[poll[q].conn],
                     VendorOf[poll[q].conn], poll[q])
          BY <1>2, <1>3, <3>6, <4>1, PollMoreCopies
        <4> QED BY <2>1, <4>1, <4>2
      <3>9. PollAt(p)'
        BY <2>5, <3>5
      <3> QED BY <2>2, <3>7, <3>8, <3>9
    <2>9. ASSUME MarkError(p)
          PROVE  (\A c \in Connectors : RowAt(c)') /\ (\A q \in Pollers : PollAt(q)')
      <3>1. UNCHANGED stored /\ poll'[p].pc = "idle"
        BY <1>1, <2>9 DEF MarkError, TypeOK, Idle
      <3>2. \A c \in Connectors : row'[c].cursor = row[c].cursor
        BY <1>1, <1>2, <2>9 DEF MarkError, TypeOK, Rows
      <3>3. \A c \in Connectors : RowAt(c)'
        BY <1>3, <2>1, <3>1, <3>2
      <3>4. \A q \in Pollers : PollAt(q)'
        BY <1>3, <2>1, <2>3, <2>5, <3>1
      <3> QED BY <3>3, <3>4
    <2>10. ASSUME FetchFails(p) \/ IngestGone(p) \/ IngestFails(p) \/ Schedule(p)
           PROVE  PollAt(p)' /\ UNCHANGED <<row, stored>>
      <3>1. UNCHANGED <<row, stored>> /\ poll'[p].pc \in {"idle", "error"}
        BY <1>1, <1>2, <2>10 DEF FetchFails, IngestGone, IngestFails, Schedule, TypeOK, Idle, Polls
      <3> QED BY <2>5, <3>1
    <2>11. ASSUME (\E c \in Connectors : Snapshot(p, c)) \/ Fetch(p)
           PROVE  UNCHANGED <<row, stored>>
      BY <2>11 DEF Snapshot, Fetch
    <2> QED BY <1>8, <2>2, <2>4, <2>6, <2>7, <2>8, <2>9, <2>10, <2>11 DEF PollStep
  <1>9. CASE Correlate \/ UNCHANGED vars
    BY <1>3, <1>9 DEF Correlate, vars
  <1>10. CASE Crash
    <2>1. /\ UNCHANGED <<clock, published, row, stored>>
          /\ \A p \in Pollers : poll'[p].pc = "idle"
      BY <1>10 DEF Crash, Idle
    <2> QED BY <1>3, <2>1 DEF PollOK
  <1> QED BY <1>5, <1>6, <1>7, <1>8, <1>9, <1>10 DEF Next, Source, Endpoint

(* The stored cursor of a connector never moves past an alert in scope     *)
(* that was not stored: for any number of overlapping polls, faults and    *)
(* crashes, as long as alerts appear in order.                             *)
THEOREM DropFree == ASSUME ArrivalInOrder PROVE Spec => []NoLoss
  <1>1. Init => LossInv
    BY InitLossInv
  <1>2. LossInv /\ [Next]_vars => LossInv'
    BY NextLossInv
  <1>3. LossInv => NoLoss
    BY DEF LossInv, RowOK, CoveredIn, NoLoss, Complete
  <1> QED BY <1>1, <1>2, <1>3, PTL DEF Spec
-----------------------------------------------------------------------------
(* Duplicate-freedom and the advance of the cursor need the polls of a     *)
(* connector to exclude each other.                                        *)
SinglePoller == \A p, q \in Pollers : p = q

(* What a poll in flight knows: it holds the row's own cursor, and its     *)
(* result is new alerts and a cursor past them.                            *)
HeldOK(r, vendor, q) ==
  /\ q.pc \in {"fetching", "fetched"} =>
       /\ r.state # "none"
       /\ WellFormed(vendor, q.cursor)
       /\ r.state = "live" => q.cursor = r.cursor
  /\ q.pc = "fetched" =>
       /\ WellFormed(vendor, q.next)
       /\ q.next = NoCursor <=> q.payloads = {}
       /\ \A a \in q.payloads : ~Behind(vendor, q.cursor, a)
       /\ \A a \in Alerts : (a \in q.payloads \/ Behind(vendor, q.cursor, a)) /\ q.next # NoCursor
                            => Behind(vendor, q.next, a)

(* Every stored alert of a live connector is behind its cursor, once.      *)
OnceOK(r, vendor, copies) ==
  /\ WellFormed(vendor, r.cursor)
  /\ \A a \in Alerts : copies[a] <= 1
  /\ \A a \in Alerts : copies[a] > 0 =>
       r.state # "none" /\ (r.state = "live" => Behind(vendor, r.cursor, a))

DupInv ==
  /\ TypeOK
  /\ \A c \in Connectors : OnceOK(row[c], VendorOf[c], stored[c])
  /\ \A p \in Pollers : HeldOK(row[poll[p].conn], VendorOf[poll[p].conn], poll[p])

LEMMA InitDupInv == Init => DupInv
  <1> SUFFICES ASSUME Init PROVE DupInv
    OBVIOUS
  <1>1. TypeOK
    BY InitTypeOK
  <1>2. ASSUME NEW c \in Connectors PROVE OnceOK(row[c], VendorOf[c], stored[c])
    <2>1. row[c].cursor = NoCursor /\ stored[c] = [a \in Alerts |-> 0]
      BY InitRow DEF Init
    <2> QED BY <2>1 DEF OnceOK, WellFormed
  <1>3. ASSUME NEW p \in Pollers
        PROVE  HeldOK(row[poll[p].conn], VendorOf[poll[p].conn], poll[p])
    BY DEF Init, Idle, HeldOK
  <1> QED BY <1>1, <1>2, <1>3 DEF DupInv

(* A fetched page is new to its cursor and ends up behind the next one.    *)
LEMMA FetchIsNew ==
  ASSUME NEW vendor, NEW cursor, NEW since, NEW source, NEW page, NEW kept, NEW next,
         OnePage(vendor, cursor, since, source, page, kept, next)
  PROVE  /\ WellFormed(vendor, next)
         /\ next = NoCursor <=> kept = {}
         /\ \A a \in kept : ~Behind(vendor, cursor, a)
         /\ \A a \in Alerts : (a \in kept \/ Behind(vendor, cursor, a)) /\ next # NoCursor
                              => Behind(vendor, next, a)
  <1>1. kept \subseteq Alerts /\ IsFiniteSet(kept)
    BY KeptIsFinite
  <1>2. /\ vendor \in Vendors /\ cursor \in Cursors /\ since \in Int
        /\ WellFormed(vendor, cursor)
        /\ next = NextCursor(vendor, kept, cursor, since)
    BY DEF OnePage
  <1>3. CASE kept = {}
    <2>1. next = NoCursor
      BY <1>2, <1>3 DEF NextCursor
    <2> QED BY <1>3, <2>1 DEF WellFormed
  <1>4. CASE kept # {}
    <2>1. next # NoCursor
      BY <1>1, <1>2, <1>4, NextCursorAt
    <2>2. WellFormed(vendor, next)
      BY <1>1, <1>2, <1>4, NextCursorWellFormed
    <2>3. \A a \in kept : ~Behind(vendor, cursor, a) /\ Behind(vendor, next, a)
      BY KeptIsNew, KeptGoesBehind
    <2>4. \A a \in Alerts : Behind(vendor, cursor, a) => Behind(vendor, next, a)
      BY <1>4, BehindStaysBehind
    <2> QED BY <1>4, <2>1, <2>2, <2>3, <2>4
  <1> QED BY <1>3, <1>4

(* Storing a held page keeps every alert single and behind the cursor.     *)
LEMMA IngestOnce ==
  ASSUME NEW r \in Rows, NEW vendor, NEW copies \in [Alerts -> 0..MaxCopies], NEW q \in Polls,
         OnceOK(r, vendor, copies), HeldOK(r, vendor, q),
         r.state = "live", q.pc = "fetched",
         NEW s \in Rows, s.state = "live",
         s.cursor = IF q.next = NoCursor THEN r.cursor ELSE q.next
  PROVE  /\ OnceOK(s, vendor, Ingested(copies, q.payloads))
         /\ \A a \in Alerts : Behind(vendor, r.cursor, a) => Behind(vendor, s.cursor, a)
  <1>1. q.cursor = r.cursor /\ q.payloads \in SUBSET Alerts
    BY DEF HeldOK, Polls
  <1>2. \A a \in q.payloads : copies[a] = 0
    <2> SUFFICES ASSUME NEW a \in q.payloads, copies[a] # 0 PROVE FALSE
      OBVIOUS
    <2>1. copies[a] > 0 /\ a \in Alerts
      BY <1>1, ConnectorsAssumption
    <2> QED BY <1>1, <2>1 DEF OnceOK, HeldOK
  <1>3. \A a \in Alerts : Ingested(copies, q.payloads)[a]
                            = IF a \in q.payloads \ Rejected THEN 1 ELSE copies[a]
    BY <1>1, <1>2, ConnectorsAssumption DEF Ingested
  <1>4. CASE q.next = NoCursor
    BY <1>3, <1>4 DEF OnceOK, HeldOK
  <1>5. CASE q.next # NoCursor
    BY <1>1, <1>3, <1>5 DEF OnceOK, HeldOK
  <1> QED BY <1>4, <1>5

Advance ==
  \A c \in Connectors : \A a \in published[c] :
    Live(c) /\ Live(c)' /\ Behind(VendorOf[c], row[c].cursor, a)
      => Behind(VendorOf[c], row[c].cursor, a)'

LEMMA NextDupInv ==
  ASSUME SinglePoller, DupInv, [Next]_vars
  PROVE  DupInv' /\ Advance
  <1>1. TypeOK /\ TypeOK'
    BY NextTypeOK DEF DupInv
  <1>2. /\ \A c \in Connectors :
             /\ row[c] \in Rows /\ row'[c] \in Rows /\ VendorOf[c] \in Vendors
             /\ published[c] \in SUBSET Alerts
             /\ stored[c] \in [Alerts -> 0..MaxCopies]
        /\ \A p \in Pollers : /\ poll[p] \in Polls /\ poll[p].conn \in Connectors
                              /\ poll[p].cursor \in Cursors
    BY <1>1, ConnectorsAssumption DEF TypeOK, Polls
  <1> DEFINE Once(c) == OnceOK(row[c], VendorOf[c], stored[c])
             Held(p) == HeldOK(row[poll[p].conn], VendorOf[poll[p].conn], poll[p])
  <1>3. (\A c \in Connectors : Once(c)) /\ (\A p \in Pollers : Held(p))
    BY DEF DupInv
  <1>4. SUFFICES (\A c \in Connectors : Once(c)') /\ (\A p \in Pollers : Held(p)') /\ Advance
    BY <1>1 DEF DupInv
  <1>5. ASSUME \A c \in Connectors : row'[c].cursor = row[c].cursor
        PROVE  Advance
    BY <1>5 DEF Advance
  <1>6. CASE Source \/ Correlate \/ UNCHANGED vars
    <2>1. UNCHANGED <<row, stored, poll>>
      BY <1>6 DEF Source, Tick, Publish, Correlate, vars
    <2> QED BY <1>3, <1>5, <2>1
  <1>7. CASE Crash
    <2>1. /\ UNCHANGED <<row, stored>>
          /\ \A p \in Pollers : poll'[p].pc = "idle"
      BY <1>7 DEF Crash, Idle
    <2> QED BY <1>3, <1>5, <2>1 DEF HeldOK
  <1>8. ASSUME NEW c \in Connectors, Create(c) \/ Update(c) \/ Test(c) \/ Delete(c)
        PROVE  (\A d \in Connectors : Once(d)') /\ (\A p \in Pollers : Held(p)') /\ Advance
    <2>1. UNCHANGED <<stored, poll>> /\ \A d \in Connectors \ {c} : row'[d] = row[d]
      BY <1>1, <1>8 DEF Create, Update, Test, Delete, TypeOK
    <2>2. \/ /\ row'[c].cursor = row[c].cursor /\ row[c].state = "none"
             /\ row'[c].state = "live"
          \/ row'[c].cursor = row[c].cursor /\ row'[c].state = row[c].state
          \/ row'[c].cursor = NoCursor /\ row'[c].state = "deleted"
      <3>1. CASE Create(c)
        BY <1>1, <1>2, <3>1 DEF Create, TypeOK, Rows
      <3>2. CASE Update(c)
        BY <1>1, <1>2, <3>2 DEF Update, TypeOK, Rows
      <3>3. CASE Test(c)
        BY <1>1, <1>2, <3>3 DEF Test, TypeOK, Rows
      <3>4. CASE Delete(c)
        BY <1>1, <3>4 DEF Delete, NewRow, TypeOK
      <3> QED BY <1>8, <3>1, <3>2, <3>3, <3>4
    <2>3. Once(c)'
      BY <1>3, <2>1, <2>2 DEF OnceOK, WellFormed
    <2>4. ASSUME NEW p \in Pollers PROVE Held(p)'
      <3>1. CASE poll[p].conn = c
        BY <1>3, <2>1, <2>2, <3>1 DEF HeldOK
      <3>2. CASE poll[p].conn # c
        BY <1>2, <1>3, <2>1, <3>2
      <3> QED BY <3>1, <3>2
    <2>5. Advance
      BY <2>1, <2>2 DEF Advance, Live
    <2> QED BY <1>3, <2>1, <2>3, <2>4, <2>5
  <1>9. ASSUME NEW p \in Pollers, PollStep(p)
        PROVE  (\A d \in Connectors : Once(d)') /\ (\A q \in Pollers : Held(q)') /\ Advance
    <2>1. SUFFICES (\A d \in Connectors : Once(d)') /\ Held(p)' /\ Advance
      BY DEF SinglePoller
    <2>2. ASSUME poll'[p].pc \in {"idle", "ingested", "error"} PROVE Held(p)'
      BY <2>2 DEF HeldOK
    <2>3. ASSUME UNCHANGED <<row, stored>> PROVE (\A d \in Connectors : Once(d)') /\ Advance
      BY <1>3, <1>5, <2>3
    <2>4. ASSUME NEW c \in Connectors, Snapshot(p, c)
          PROVE  Held(p)' /\ UNCHANGED <<row, stored>>
      <3>1. /\ poll'[p].pc = "fetching" /\ poll'[p].conn = c
            /\ poll'[p].cursor = row[c].cursor /\ row[c].state = "live"
            /\ UNCHANGED <<row, stored>>
        BY <1>1, <1>2, <2>4 DEF Snapshot, TypeOK, Idle, Polls, Live
      <3> QED BY <1>3, <3>1 DEF HeldOK, OnceOK
    <2>5. CASE Fetch(p)
      <3> DEFINE c == poll[p].conn
                 since == clock - Lookback
      <3>1. PICK page \in SUBSET published[c] :
              LET kept == Kept(VendorOf[c], page, poll[p].cursor) IN
              /\ IsPage(VendorOf[c],
                        {a \in published[c] : Selected(VendorOf[c], poll[p].cursor, since, a)},
                        page)
              /\ poll' = [poll EXCEPT
                    ![p].pc = "fetched", ![p].payloads = kept,
                    ![p].next = NextCursor(VendorOf[c], kept, poll[p].cursor, since)]
        BY <2>5 DEF Fetch
      <3> DEFINE kept == Kept(VendorOf[c], page, poll[p].cursor)
                 next == NextCursor(VendorOf[c], kept, poll[p].cursor, since)
      <3>2. /\ poll'[p].pc = "fetched" /\ poll'[p].conn = c
            /\ poll'[p].cursor = poll[p].cursor
            /\ poll'[p].payloads = kept /\ poll'[p].next = next
        BY <1>1, <1>2, <3>1 DEF TypeOK, Polls
      <3>3. since \in Int
        BY <1>1, ConnectorsAssumption DEF TypeOK
      <3>4. c \in Connectors /\ poll[p].pc = "fetching"
        BY <1>2, <2>5 DEF Fetch
      <3>5. WellFormed(VendorOf[c], poll[p].cursor)
        BY <1>3, <3>4 DEF HeldOK
      <3>6. UNCHANGED <<row, stored>>
        BY <2>5 DEF Fetch
      <3>7. HeldOK(row[c], VendorOf[c], poll[p])
        BY <1>3
      <3> HIDE DEF since, c, kept, next
      <3>8. OnePage(VendorOf[c], poll[p].cursor, since, published[c], page, kept, next)
        BY <1>2, <3>1, <3>3, <3>4, <3>5 DEF OnePage, kept, next
      <3>9. /\ WellFormed(VendorOf[c], next)
            /\ next = NoCursor <=> kept = {}
            /\ \A a \in kept : ~Behind(VendorOf[c], poll[p].cursor, a)
            /\ \A a \in Alerts : (a \in kept \/ Behind(VendorOf[c], poll[p].cursor, a)) /\ next # NoCursor
                              => Behind(VendorOf[c], next, a)
        BY <3>8, FetchIsNew
      <3>10. Held(p)'
        BY <3>2, <3>4, <3>6, <3>7, <3>9 DEF HeldOK
      <3> QED BY <2>3, <3>6, <3>10
    <2>6. CASE Ingest(p)
      <3> DEFINE c == poll[p].conn
      <3>1. c \in Connectors /\ row[c].state = "live" /\ poll[p].pc = "fetched"
        BY <1>2, <2>6 DEF Ingest, Live
      <3>2. \A d \in Connectors : stored'[d] =
              IF d = c THEN Ingested(stored[c], poll[p].payloads) ELSE stored[d]
        BY <1>1, <2>6 DEF Ingest, TypeOK
      <3>3. /\ \A d \in Connectors \ {c} : row'[d] = row[d]
            /\ row'[c].state = "live"
            /\ row'[c].cursor = IF poll[p].next = NoCursor THEN row[c].cursor ELSE poll[p].next
        <4>1. row' = [row EXCEPT
                ![c].cursor = IF poll[p].next = NoCursor THEN row[c].cursor ELSE poll[p].next,
                ![c].status = "healthy"]
          BY <2>6 DEF Ingest
        <4>2. row[c] \in Rows /\ row[c].state = "live" /\ DOMAIN row = Connectors
          BY <1>1, <3>1 DEF TypeOK
        <4> HIDE DEF c
        <4> QED BY <3>1, <4>1, <4>2 DEF Rows
      <3>4. poll'[p].pc \in {"idle", "ingested"}
        BY <1>1, <2>6 DEF Ingest, TypeOK, Idle
      <3> HIDE DEF c
      <3>5. HeldOK(row[c], VendorOf[c], poll[p])
        BY <1>3 DEF c
      <3>6. /\ OnceOK(row'[c], VendorOf[c], Ingested(stored[c], poll[p].payloads))
            /\ \A a \in Alerts : Behind(VendorOf[c], row[c].cursor, a)
                                  => Behind(VendorOf[c], row'[c].cursor, a)
        BY <1>2, <1>3, <3>1, <3>3, <3>5, IngestOnce
      <3>7. ASSUME NEW d \in Connectors PROVE Once(d)'
        BY <1>3, <3>2, <3>3, <3>6
      <3>8. Advance
        BY <1>2, <3>3, <3>6 DEF Advance
      <3>9. Held(p)'
        BY <2>2, <3>4
      <3> QED BY <3>7, <3>8, <3>9
    <2>7. CASE MarkError(p)
      <3>1. UNCHANGED stored /\ poll'[p].pc = "idle"
        BY <1>1, <2>7 DEF MarkError, TypeOK, Idle
      <3>2. \A c \in Connectors : row'[c].cursor = row[c].cursor /\ row'[c].state = row[c].state
        BY <1>1, <1>2, <2>7 DEF MarkError, TypeOK, Rows
      <3>3. \A c \in Connectors : Once(c)'
        BY <1>3, <3>1, <3>2 DEF OnceOK
      <3> QED BY <1>5, <2>2, <3>1, <3>2, <3>3
    <2>8. ASSUME FetchFails(p) \/ IngestGone(p) \/ IngestFails(p) \/ Schedule(p)
          PROVE  Held(p)' /\ UNCHANGED <<row, stored>>
      <3>1. UNCHANGED <<row, stored>> /\ poll'[p].pc \in {"idle", "error"}
        BY <1>1, <1>2, <2>8 DEF FetchFails, IngestGone, IngestFails, Schedule, TypeOK, Idle, Polls
      <3> QED BY <2>2, <3>1
    <2> QED BY <1>9, <2>3, <2>4, <2>5, <2>6, <2>7, <2>8 DEF PollStep
  <1> QED BY <1>6, <1>7, <1>8, <1>9 DEF Next, Endpoint

(* No alert is stored twice, through every retry after a fault or a crash, *)
(* when the polls of a connector exclude each other.                       *)
THEOREM DuplicateFree == ASSUME SinglePoller PROVE Spec => []NoDuplicates
  <1>1. Init => DupInv
    BY InitDupInv
  <1>2. DupInv /\ [Next]_vars => DupInv'
    BY NextDupInv
  <1>3. DupInv => NoDuplicates
    BY DEF DupInv, OnceOK, NoDuplicates
  <1> QED BY <1>1, <1>2, <1>3, PTL DEF Spec

(* ... and the cursor never moves back.                                    *)
THEOREM CursorNeverBack == ASSUME SinglePoller PROVE Spec => CursorAdvances
  <1>1. Init => DupInv
    BY InitDupInv
  <1>2. DupInv /\ [Next]_vars => DupInv' /\ [Advance]_vars
    BY NextDupInv
  <1>3. [][Advance]_vars <=> CursorAdvances
    BY PTL DEF Advance, CursorAdvances
  <1> QED BY <1>1, <1>2, <1>3, PTL DEF Spec
-----------------------------------------------------------------------------
(* The refinement of EventFeed adds to both invariants that nothing older  *)
(* than the lookback of the first poll is ever taken.                      *)

(* A cursor is in scope when the alerts it stands on are.                  *)
ScopedAt(vendor, cursor) ==
  cursor # NoCursor => \A i \in cursor.ids : InScope(vendor, cursor.from, i)

(* A live connector has taken in nothing from before its first poll's      *)
(* lookback, and no poll is about to.                                      *)
RowScoped(r, vendor, copies) ==
  /\ ScopedAt(vendor, r.cursor)
  /\ r.state = "live" =>
       \A a \in Alerts : copies[a] > 0 => InScope(vendor, r.cursor.from, a)

PollScoped(vendor, q) ==
  /\ q.pc \in {"fetching", "fetched"} => ScopedAt(vendor, q.cursor)
  /\ q.pc = "fetched" =>
       /\ ScopedAt(vendor, q.next)
       /\ \A a \in q.payloads : InScope(vendor, q.next.from, a)
       /\ q.cursor # NoCursor /\ q.next # NoCursor => q.next.from = q.cursor.from

ScopeInv ==
  /\ \A c \in Connectors : RowScoped(row[c], VendorOf[c], stored[c])
  /\ \A p \in Pollers : PollScoped(VendorOf[poll[p].conn], poll[p])

FeedInv == LossInv /\ DupInv /\ ScopeInv

(* What a query selects is in scope, and so is the cursor that follows.    *)
LEMMA FetchIsScoped ==
  ASSUME NEW vendor, NEW cursor, NEW since, NEW source, NEW page, NEW kept, NEW next,
         OnePage(vendor, cursor, since, source, page, kept, next),
         ScopedAt(vendor, cursor)
  PROVE  /\ ScopedAt(vendor, next)
         /\ \A a \in kept : InScope(vendor, next.from, a)
         /\ cursor # NoCursor /\ next # NoCursor => next.from = cursor.from
  <1>1. /\ kept \subseteq Alerts /\ kept \subseteq page /\ IsFiniteSet(kept)
        /\ vendor \in Vendors /\ cursor \in Cursors /\ since \in Int
        /\ WellFormed(vendor, cursor)
        /\ next = NextCursor(vendor, kept, cursor, since)
    <2>1. kept \subseteq Alerts /\ kept \subseteq page /\ IsFiniteSet(kept)
      BY KeptIsFinite
    <2> QED BY <2>1 DEF OnePage
  <1>2. CASE kept = {}
    BY <1>1, <1>2 DEF NextCursor, ScopedAt
  <1>3. CASE kept # {}
    <2>1. /\ next \in Cursors /\ next # NoCursor
          /\ next.from = IF cursor = NoCursor THEN since ELSE cursor.from
          /\ \A a \in next.ids : a \in kept \/ (cursor.ts = next.ts /\ a \in cursor.ids)
      BY <1>1, <1>3, NextCursorAt
    <2>2. ASSUME NEW a \in kept PROVE InScope(vendor, next.from, a)
      <3>1. Selected(vendor, cursor, since, a) /\ a \in Alerts
        BY <1>1 DEF OnePage, IsPage
      <3>2. CASE cursor = NoCursor
        BY <2>1, <3>1, <3>2 DEF Selected
      <3>3. CASE cursor # NoCursor
        <4>1. PICK i \in cursor.ids : TimeOf[i] = cursor.ts /\ InScope(vendor, cursor.from, i)
          BY <1>1, <3>3 DEF WellFormed, ScopedAt
        <4>2. TimeOf[a] \in Nat /\ cursor.ts \in Nat /\ cursor.from \in Int
          BY <1>1, <3>1, <3>3, AlertsAssumption DEF Cursors, WellFormed
        <4>3. TimeOf[a] >= TimeOf[i]
          BY <3>1, <3>3, <4>1, <4>2 DEF Selected
        <4> QED BY <2>1, <3>3, <4>1, <4>2, <4>3 DEF InScope
      <3> QED BY <3>2, <3>3
    <2>3. ASSUME NEW a \in next.ids PROVE InScope(vendor, next.from, a)
      <3>1. CASE a \in kept
        BY <2>2, <3>1
      <3>2. CASE a \notin kept
        <4>1. a \in cursor.ids /\ cursor.ts = next.ts
          BY <2>1, <3>2
        <4>2. cursor # NoCursor
          BY <4>1 DEF NoCursor
        <4> QED BY <2>1, <4>1, <4>2 DEF ScopedAt
      <3> QED BY <3>1, <3>2
    <2> QED BY <2>1, <2>2, <2>3 DEF ScopedAt
  <1> QED BY <1>2, <1>3

LEMMA InitFeedInv == Init => FeedInv
  <1> SUFFICES ASSUME Init PROVE ScopeInv
    BY InitLossInv, InitDupInv DEF FeedInv
  <1>1. ASSUME NEW c \in Connectors PROVE RowScoped(row[c], VendorOf[c], stored[c])
    <2>1. row[c].cursor = NoCursor /\ stored[c] = [a \in Alerts |-> 0]
      BY <1>1, InitRow DEF Init
    <2> QED BY <2>1 DEF RowScoped, ScopedAt
  <1>2. ASSUME NEW p \in Pollers PROVE PollScoped(VendorOf[poll[p].conn], poll[p])
    BY DEF Init, Idle, PollScoped
  <1> QED BY <1>1, <1>2 DEF ScopeInv

(* Storing a held page keeps the connector's alerts in scope.              *)
LEMMA IngestIsScoped ==
  ASSUME NEW r \in Rows, NEW vendor, NEW copies \in [Alerts -> 0..MaxCopies], NEW q \in Polls,
         OnceOK(r, vendor, copies), HeldOK(r, vendor, q),
         RowScoped(r, vendor, copies), PollScoped(vendor, q),
         r.state = "live", q.pc = "fetched",
         NEW s \in Rows, s.cursor = IF q.next = NoCursor THEN r.cursor ELSE q.next
  PROVE  RowScoped(s, vendor, Ingested(copies, q.payloads))
  <1>1. q.cursor = r.cursor /\ q.payloads \in SUBSET Alerts
    BY DEF HeldOK, Polls
  <1>2. \A a \in Alerts : Ingested(copies, q.payloads)[a] > 0 => a \in q.payloads \/ copies[a] > 0
    BY <1>1, IngestedType
  <1>3. CASE q.next = NoCursor
    BY <1>2, <1>3 DEF RowScoped, HeldOK
  <1>4. CASE q.next # NoCursor
    <2>1. ASSUME NEW a \in Alerts, copies[a] > 0 PROVE InScope(vendor, q.next.from, a)
      <3>1. q.cursor # NoCursor
        BY <1>1, <2>1 DEF OnceOK, Behind
      <3>2. q.next.from = r.cursor.from
        BY <1>1, <1>4, <3>1 DEF PollScoped
      <3> QED BY <2>1, <3>2 DEF RowScoped
    <2> QED BY <1>2, <1>4, <2>1 DEF RowScoped, PollScoped
  <1> QED BY <1>3, <1>4

LEMMA NextScopeInv ==
  ASSUME SinglePoller, DupInv, ScopeInv, [Next]_vars
  PROVE  ScopeInv'
  <1>1. TypeOK /\ TypeOK'
    BY NextTypeOK DEF DupInv
  <1>2. /\ \A c \in Connectors :
             /\ row[c] \in Rows /\ row'[c] \in Rows /\ VendorOf[c] \in Vendors
             /\ published[c] \in SUBSET Alerts
             /\ stored[c] \in [Alerts -> 0..MaxCopies]
        /\ \A p \in Pollers : /\ poll[p] \in Polls /\ poll[p].conn \in Connectors
                              /\ poll[p].cursor \in Cursors
    BY <1>1, ConnectorsAssumption DEF TypeOK, Polls
  <1> DEFINE RowAt(c) == RowScoped(row[c], VendorOf[c], stored[c])
             PollAt(p) == PollScoped(VendorOf[poll[p].conn], poll[p])
  <1>3. (\A c \in Connectors : RowAt(c)) /\ (\A p \in Pollers : PollAt(p))
    BY DEF ScopeInv
  <1>4. SUFFICES (\A c \in Connectors : RowAt(c)') /\ (\A p \in Pollers : PollAt(p)')
    BY DEF ScopeInv
  <1>5. CASE Source \/ Correlate \/ UNCHANGED vars
    <2>1. UNCHANGED <<row, stored, poll>>
      BY <1>5 DEF Source, Tick, Publish, Correlate, vars
    <2> QED BY <1>3, <2>1
  <1>6. CASE Crash
    <2>1. UNCHANGED <<row, stored>> /\ \A p \in Pollers : poll'[p].pc = "idle"
      BY <1>6 DEF Crash, Idle
    <2> QED BY <1>3, <2>1 DEF PollScoped
  <1>7. ASSUME NEW c \in Connectors, Create(c) \/ Update(c) \/ Test(c) \/ Delete(c)
        PROVE  (\A d \in Connectors : RowAt(d)') /\ (\A p \in Pollers : PollAt(p)')
    <2>1. UNCHANGED <<stored, poll>> /\ \A d \in Connectors \ {c} : row'[d] = row[d]
      BY <1>1, <1>7 DEF Create, Update, Test, Delete, TypeOK
    <2>2. RowAt(c)'
      <3>1. CASE Create(c)
        <4>1. row[c].state = "none" /\ row'[c].cursor = row[c].cursor
          BY <1>1, <1>2, <3>1 DEF Create, TypeOK, Rows
        <4>2. \A a \in Alerts : ~(stored[c][a] > 0)
          BY <4>1 DEF DupInv, OnceOK
        <4> QED BY <1>3, <2>1, <4>1, <4>2 DEF RowScoped
      <3>2. CASE Update(c) \/ Test(c)
        <4>1. row'[c].cursor = row[c].cursor /\ row'[c].state = row[c].state
          BY <1>1, <1>2, <3>2 DEF Update, Test, TypeOK, Rows
        <4> QED BY <1>3, <2>1, <4>1 DEF RowScoped
      <3>3. CASE Delete(c)
        <4>1. row'[c].cursor = NoCursor /\ row'[c].state = "deleted"
          BY <1>1, <3>3 DEF Delete, NewRow, TypeOK
        <4> QED BY <4>1 DEF RowScoped, ScopedAt
      <3> QED BY <1>7, <3>1, <3>2, <3>3
    <2> QED BY <1>3, <2>1, <2>2
  <1>8. ASSUME NEW p \in Pollers, PollStep(p)
        PROVE  (\A d \in Connectors : RowAt(d)') /\ (\A q \in Pollers : PollAt(q)')
    <2>1. SUFFICES (\A d \in Connectors : RowAt(d)') /\ PollAt(p)'
      BY DEF SinglePoller
    <2>2. ASSUME poll'[p].pc \in {"idle", "ingested", "error"} PROVE PollAt(p)'
      BY <2>2 DEF PollScoped
    <2>3. ASSUME UNCHANGED <<row, stored>> PROVE \A d \in Connectors : RowAt(d)'
      BY <1>3, <2>3
    <2>4. ASSUME NEW c \in Connectors, Snapshot(p, c)
          PROVE  PollAt(p)' /\ UNCHANGED <<row, stored>>
      <3>1. /\ poll'[p].pc = "fetching" /\ poll'[p].conn = c
            /\ poll'[p].cursor = row[c].cursor
            /\ UNCHANGED <<row, stored>>
        BY <1>1, <1>2, <2>4 DEF Snapshot, TypeOK, Idle, Polls
      <3> QED BY <1>3, <3>1 DEF PollScoped, RowScoped
    <2>5. CASE Fetch(p)
      <3> DEFINE c == poll[p].conn
                 since == clock - Lookback
      <3>1. PICK page \in SUBSET published[c] :
              LET kept == Kept(VendorOf[c], page, poll[p].cursor) IN
              /\ IsPage(VendorOf[c],
                        {a \in published[c] : Selected(VendorOf[c], poll[p].cursor, since, a)},
                        page)
              /\ poll' = [poll EXCEPT
                    ![p].pc = "fetched", ![p].payloads = kept,
                    ![p].next = NextCursor(VendorOf[c], kept, poll[p].cursor, since)]
        BY <2>5 DEF Fetch
      <3> DEFINE kept == Kept(VendorOf[c], page, poll[p].cursor)
                 next == NextCursor(VendorOf[c], kept, poll[p].cursor, since)
      <3>2. /\ poll'[p].pc = "fetched" /\ poll'[p].conn = c
            /\ poll'[p].cursor = poll[p].cursor
            /\ poll'[p].payloads = kept /\ poll'[p].next = next
        BY <1>1, <1>2, <3>1 DEF TypeOK, Polls
      <3>3. since \in Int
        BY <1>1, ConnectorsAssumption DEF TypeOK
      <3>4. c \in Connectors /\ poll[p].pc = "fetching" /\ UNCHANGED <<row, stored>>
        BY <1>2, <2>5 DEF Fetch
      <3>5. WellFormed(VendorOf[c], poll[p].cursor) /\ ScopedAt(VendorOf[c], poll[p].cursor)
        BY <1>3, <3>4 DEF DupInv, HeldOK, PollScoped
      <3> HIDE DEF since, c, kept, next
      <3>6. OnePage(VendorOf[c], poll[p].cursor, since, published[c], page, kept, next)
        BY <1>2, <3>1, <3>3, <3>4, <3>5 DEF OnePage, kept, next
      <3>7. /\ ScopedAt(VendorOf[c], next)
            /\ \A a \in kept : InScope(VendorOf[c], next.from, a)
            /\ poll[p].cursor # NoCursor /\ next # NoCursor => next.from = poll[p].cursor.from
        BY <3>5, <3>6, FetchIsScoped
      <3>8. PollAt(p)'
        BY <3>2, <3>5, <3>7 DEF PollScoped
      <3> QED BY <2>3, <3>4, <3>8
    <2>6. CASE Ingest(p)
      <3> DEFINE c == poll[p].conn
      <3>1. c \in Connectors /\ row[c].state = "live" /\ poll[p].pc = "fetched"
        BY <1>2, <2>6 DEF Ingest, Live
      <3>2. \A d \in Connectors : stored'[d] =
              IF d = c THEN Ingested(stored[c], poll[p].payloads) ELSE stored[d]
        BY <1>1, <2>6 DEF Ingest, TypeOK
      <3>3. /\ \A d \in Connectors \ {c} : row'[d] = row[d]
            /\ row'[c].cursor = IF poll[p].next = NoCursor THEN row[c].cursor ELSE poll[p].next
        BY <1>1, <1>2, <2>6 DEF Ingest, TypeOK, Rows
      <3>4. poll'[p].pc \in {"idle", "ingested"}
        BY <1>1, <2>6 DEF Ingest, TypeOK, Idle
      <3>5. /\ HeldOK(row[c], VendorOf[c], poll[p]) /\ PollAt(p)
            /\ OnceOK(row[c], VendorOf[c], stored[c]) /\ RowAt(c)
        BY <1>3, <3>1 DEF DupInv
      <3> HIDE DEF c
      <3>6. RowScoped(row'[c], VendorOf[c], Ingested(stored[c], poll[p].payloads))
        BY <1>2, <3>1, <3>3, <3>5, IngestIsScoped DEF c
      <3> QED BY <1>3, <2>2, <3>2, <3>3, <3>4, <3>6
    <2>7. CASE MarkError(p)
      <3>1. UNCHANGED stored /\ poll'[p].pc = "idle"
        BY <1>1, <2>7 DEF MarkError, TypeOK, Idle
      <3>2. \A c \in Connectors : row'[c].cursor = row[c].cursor /\ row'[c].state = row[c].state
        BY <1>1, <1>2, <2>7 DEF MarkError, TypeOK, Rows
      <3> QED BY <1>3, <2>2, <3>1, <3>2 DEF RowScoped
    <2>8. ASSUME FetchFails(p) \/ IngestGone(p) \/ IngestFails(p) \/ Schedule(p)
          PROVE  PollAt(p)' /\ UNCHANGED <<row, stored>>
      <3>1. UNCHANGED <<row, stored>> /\ poll'[p].pc \in {"idle", "error"}
        BY <1>1, <1>2, <2>8 DEF FetchFails, IngestGone, IngestFails, Schedule, TypeOK, Idle, Polls
      <3> QED BY <2>2, <3>1
    <2> QED BY <1>8, <2>3, <2>4, <2>5, <2>6, <2>7, <2>8 DEF PollStep
  <1> QED BY <1>5, <1>6, <1>7, <1>8 DEF Next, Endpoint

(* Storing a held page is one delivery of the feed: nothing repeated,      *)
(* nothing older than what is there, no gap.                               *)
Taken(copies) == {a \in Alerts : copies[a] > 0}

LEMMA IngestDelivers ==
  ASSUME NEW r \in Rows, NEW vendor \in Vendors, NEW copies \in [Alerts -> 0..MaxCopies],
         NEW q \in Polls, NEW source \in SUBSET Alerts, NEW now,
         OnceOK(r, vendor, copies), HeldOK(r, vendor, q),
         RowScoped(r, vendor, copies), PollScoped(vendor, q),
         PollOK(source, now, copies, vendor, q), Rejected = {},
         r.state = "live", q.pc = "fetched", q.payloads # {}
  PROVE  /\ q.payloads \subseteq source \ Taken(copies)
         /\ \A a \in q.payloads, d \in Taken(copies) : TimeOf[d] <= TimeOf[a]
         /\ \A a \in Taken(copies) \union q.payloads, b \in source \ (Taken(copies) \union q.payloads) :
              TimeOf[a] <= TimeOf[b]
                \/ \A d \in Taken(copies) \union q.payloads : TimeOf[b] < TimeOf[d]
         /\ Ingested(copies, q.payloads) = [a \in Alerts |-> IF a \in q.payloads THEN 1 ELSE copies[a]]
  <1> DEFINE taken == Taken(copies) \union q.payloads
  <1>1. /\ q.cursor = r.cursor /\ q.payloads \in SUBSET Alerts
        /\ q.cursor \in Cursors /\ q.next \in Cursors /\ q.next # NoCursor
        /\ WellFormed(vendor, q.cursor) /\ WellFormed(vendor, q.next)
    BY DEF HeldOK, Polls
  <1>2. \A a \in Alerts : TimeOf[a] \in Nat
    BY AlertsAssumption
  <1>3. \A a \in q.payloads : ~Behind(vendor, q.cursor, a) /\ a \in source /\ copies[a] = 0
    BY <1>1, ConnectorsAssumption DEF HeldOK, OnceOK, PollOK
  <1>4. \A d \in Taken(copies) : Behind(vendor, q.cursor, d) /\ d \in Alerts
    BY <1>1 DEF Taken, OnceOK
  <1>5. ASSUME NEW cursor \in Cursors, WellFormed(vendor, cursor), NEW d \in Alerts,
               Behind(vendor, cursor, d)
        PROVE  cursor # NoCursor /\ cursor.ts \in Nat /\ TimeOf[d] <= cursor.ts
    <2>1. cursor # NoCursor /\ cursor.ts \in Nat /\ \A i \in cursor.ids : TimeOf[i] = cursor.ts
      BY <1>5 DEF Behind, WellFormed
    <2> QED BY <1>2, <1>5, <2>1 DEF Behind
  <1>6. ASSUME NEW cursor \in Cursors, WellFormed(vendor, cursor), cursor # NoCursor,
               NEW b \in Alerts, ~Behind(vendor, cursor, b)
        PROVE  cursor.ts <= TimeOf[b]
    <2>1. cursor.ts \in Nat
      BY <1>6 DEF WellFormed
    <2> QED BY <1>2, <1>6, <2>1 DEF Behind
  <1>7. \A a \in q.payloads, d \in Taken(copies) : TimeOf[d] <= TimeOf[a]
    <2> SUFFICES ASSUME NEW a \in q.payloads, NEW d \in Taken(copies) PROVE TimeOf[d] <= TimeOf[a]
      OBVIOUS
    <2>1. TimeOf[d] <= q.cursor.ts /\ q.cursor.ts \in Nat /\ q.cursor # NoCursor
      BY <1>1, <1>4, <1>5
    <2>2. q.cursor.ts <= TimeOf[a] /\ TimeOf[a] \in Nat /\ TimeOf[d] \in Nat
      BY <1>1, <1>2, <1>3, <1>4, <1>6, <2>1
    <2> QED BY <2>1, <2>2
  <1>8. \A d \in taken : d \in Alerts /\ Behind(vendor, q.next, d) /\ InScope(vendor, q.next.from, d)
    <2>1. \A d \in taken : d \in Alerts /\ Behind(vendor, q.next, d)
      BY <1>1, <1>4 DEF HeldOK
    <2>2. \A d \in q.payloads : InScope(vendor, q.next.from, d)
      BY DEF PollScoped
    <2>3. \A d \in Taken(copies) : InScope(vendor, q.next.from, d)
      <3> SUFFICES ASSUME NEW d \in Taken(copies) PROVE InScope(vendor, q.next.from, d)
        OBVIOUS
      <3>1. q.cursor # NoCursor
        BY <1>1, <1>4, <1>5
      <3>2. q.next.from = r.cursor.from
        BY <1>1, <3>1 DEF PollScoped
      <3> QED BY <3>2 DEF RowScoped, Taken
    <2> QED BY <2>1, <2>2, <2>3
  <1>9. \A a \in taken, b \in source \ taken :
          TimeOf[a] <= TimeOf[b] \/ \A d \in taken : TimeOf[b] < TimeOf[d]
    <2> SUFFICES ASSUME NEW a \in taken, NEW b \in source \ taken
                 PROVE  TimeOf[a] <= TimeOf[b] \/ \A d \in taken : TimeOf[b] < TimeOf[d]
      OBVIOUS
    <2>1. b \in Alerts /\ ~(copies[b] > 0) /\ b \notin q.payloads /\ b \in source
      BY DEF Taken
    <2>2. CASE InScope(vendor, q.next.from, b)
      <3>1. ~Behind(vendor, q.next, b)
        BY <2>1, <2>2 DEF PollOK, CoveredIn
      <3>2. q.next.ts <= TimeOf[b] /\ TimeOf[a] <= q.next.ts /\ q.next.ts \in Nat
        BY <1>1, <1>5, <1>6, <1>8, <2>1, <3>1
      <3> QED BY <1>2, <1>8, <2>1, <3>2
    <2>3. CASE ~InScope(vendor, q.next.from, b)
      <3>1. q.next.from \in Int
        BY <1>1 DEF Cursors
      <3> QED BY <1>2, <1>8, <2>1, <2>3, <3>1 DEF InScope
    <2> QED BY <2>2, <2>3
  <1>10. Ingested(copies, q.payloads) = [a \in Alerts |-> IF a \in q.payloads THEN 1 ELSE copies[a]]
    BY <1>3, ConnectorsAssumption DEF Ingested
  <1>11. q.payloads \subseteq source \ Taken(copies)
    BY <1>1, <1>3 DEF Taken
  <1> HIDE DEF taken
  <1> QED BY <1>7, <1>9, <1>10, <1>11 DEF taken

(* Every step of the system is, for each connector, a step of its feed.    *)
LEMMA StepsAreFeedSteps ==
  ASSUME SinglePoller, Rejected = {}, FeedInv, [Next]_vars, NEW c \in Connectors
  PROVE  FeedStep(c)
  <1>1. TypeOK /\ LossInv /\ DupInv /\ ScopeInv
    BY DEF FeedInv, LossInv
  <1>2. /\ \A d \in Connectors :
             /\ row[d] \in Rows /\ VendorOf[d] \in Vendors
             /\ published[d] \in SUBSET Alerts
             /\ stored[d] \in [Alerts -> 0..MaxCopies]
        /\ \A p \in Pollers : poll[p] \in Polls /\ poll[p].conn \in Connectors
    BY <1>1, ConnectorsAssumption DEF TypeOK, Polls
  <1>3. ASSUME UNCHANGED <<published, stored>> PROVE FeedStep(c)
    BY <1>3 DEF FeedStep, Feed!vars
  <1>4. ASSUME NEW d \in Connectors, NEW a \in Alerts, Publish(d, a) PROVE FeedStep(c)
    <2>1. stored' = stored /\ published' = [published EXCEPT ![d] = @ \union {a}]
          /\ a \notin published[d]
      BY <1>4 DEF Publish
    <2>2. CASE c = d
      <3>1. published'[c] = published[c] \union {a} /\ stored'[c] = stored[c]
        BY <1>1, <2>1, <2>2 DEF TypeOK
      <3>2. Feed(c)!Publish
        BY <2>1, <2>2, <3>1 DEF Feed!Publish
      <3> QED BY <3>2 DEF FeedStep, Feed!Next
    <2>3. CASE c # d
      BY <1>1, <2>1, <2>3 DEF TypeOK, FeedStep, Feed!vars
    <2> QED BY <2>2, <2>3
  <1>5. ASSUME NEW p \in Pollers, Ingest(p) PROVE FeedStep(c)
    <2>1. /\ published' = published /\ poll[p].pc = "fetched"
          /\ row[poll[p].conn].state = "live"
          /\ stored' = [stored EXCEPT ![poll[p].conn] = Ingested(@, poll[p].payloads)]
      BY <1>5 DEF Ingest, Live
    <2>2. CASE c # poll[p].conn
      BY <1>1, <2>1, <2>2 DEF TypeOK, FeedStep, Feed!vars
    <2>3. CASE c = poll[p].conn /\ poll[p].payloads = {}
      <3>1. stored'[c] = Ingested(stored[c], {})
        BY <1>1, <2>1, <2>3 DEF TypeOK
      <3>2. Ingested(stored[c], {}) = stored[c]
        BY <1>2 DEF Ingested
      <3> QED BY <2>1, <3>1, <3>2 DEF FeedStep, Feed!vars
    <2>4. CASE c = poll[p].conn /\ poll[p].payloads # {}
      <3>1. /\ OnceOK(row[c], VendorOf[c], stored[c]) /\ HeldOK(row[c], VendorOf[c], poll[p])
            /\ RowScoped(row[c], VendorOf[c], stored[c]) /\ PollScoped(VendorOf[c], poll[p])
            /\ PollOK(published[c], clock, stored[c], VendorOf[c], poll[p])
        BY <1>1, <2>4 DEF DupInv, ScopeInv, LossInv
      <3> DEFINE batch == poll[p].payloads
                 done == Feed(c)!Delivered
      <3>2. done = Taken(stored[c])
        BY DEF Feed!Delivered, Taken
      <3>3. /\ batch \subseteq published[c] \ Taken(stored[c])
            /\ \A a \in batch, d \in Taken(stored[c]) : TimeOf[d] <= TimeOf[a]
            /\ \A a \in Taken(stored[c]) \union batch,
                  b \in published[c] \ (Taken(stored[c]) \union batch) :
                 TimeOf[a] <= TimeOf[b]
                   \/ \A d \in Taken(stored[c]) \union batch : TimeOf[b] < TimeOf[d]
            /\ Ingested(stored[c], batch) = [a \in Alerts |-> IF a \in batch THEN 1 ELSE stored[c][a]]
        <4>1. /\ row[c] \in Rows /\ VendorOf[c] \in Vendors
              /\ stored[c] \in [Alerts -> 0..MaxCopies]
              /\ poll[p] \in Polls /\ published[c] \in SUBSET Alerts
          BY <1>2
        <4>2. row[c].state = "live" /\ poll[p].pc = "fetched" /\ poll[p].payloads # {}
          BY <2>1, <2>4
        <4> QED BY <3>1, <4>1, <4>2, IngestDelivers
      <3>4. stored'[c] = Ingested(stored[c], batch) /\ published'[c] = published[c]
        BY <1>1, <2>1, <2>4 DEF TypeOK
      <3>5. Feed(c)!Gapless(done \union batch)
        BY <3>2, <3>3 DEF Feed!Gapless
      <3>6. Feed(c)!Deliver
        <4>1. batch \in SUBSET (published[c] \ done) /\ batch # {}
          BY <2>4, <3>2, <3>3
        <4>2. \A a \in batch, d \in done : TimeOf[d] <= TimeOf[a]
          BY <3>2, <3>3
        <4>3. stored'[c] = [a \in Alerts |-> IF a \in batch THEN 1 ELSE stored[c][a]]
          BY <3>3, <3>4
        <4> HIDE DEF batch
        <4> QED BY <3>4, <3>5, <4>1, <4>2, <4>3 DEF Feed!Deliver
      <3> QED BY <3>6 DEF FeedStep, Feed!Next
    <2> QED BY <2>2, <2>3, <2>4
  <1>6. ASSUME NEW p \in Pollers, PollStep(p) PROVE FeedStep(c)
    <2>1. CASE Ingest(p)
      BY <1>5, <2>1
    <2>2. CASE ~Ingest(p)
      <3>1. UNCHANGED <<published, stored>>
        BY <1>6, <2>2 DEF PollStep, Snapshot, Fetch, FetchFails, IngestGone, IngestFails,
                          MarkError, Schedule
      <3> QED BY <1>3, <3>1
    <2> QED BY <2>1, <2>2
  <1>7. CASE Tick \/ Endpoint \/ Correlate \/ Crash \/ UNCHANGED vars
    <2>1. UNCHANGED <<published, stored>>
      BY <1>7 DEF Tick, Endpoint, Create, Update, Test, Delete, Correlate, Crash, vars
    <2> QED BY <1>3, <2>1
  <1> QED BY <1>4, <1>6, <1>7 DEF Next, Source

(* A connector that one poller serves, whose alerts appear in order and    *)
(* are all accepted, implements EventFeed: see ImplementsEventFeed.        *)
THEOREM EventFeedImplemented ==
  ASSUME SinglePoller, ArrivalInOrder, Rejected = {}
  PROVE  Spec => ImplementsEventFeed
  <1>1. Init => FeedInv
    BY InitFeedInv
  <1>2. FeedInv /\ [Next]_vars => FeedInv'
    BY NextLossInv, NextDupInv, NextScopeInv DEF FeedInv
  <1>3. Init => \A c \in Connectors : Feed(c)!Init
    BY DEF Init, Feed!Init
  <1>4. FeedInv /\ [Next]_vars => [\A c \in Connectors : FeedStep(c)]_vars
    BY StepsAreFeedSteps
  <1> QED BY <1>1, <1>2, <1>3, <1>4, PTL DEF Spec, ImplementsEventFeed
=============================================================================
