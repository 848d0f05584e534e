-------------------------- MODULE IngestionProofs --------------------------
(***************************************************************************)
(* What ingestion keeps straight for any payloads, any batches at once and *)
(* any deadlocks: accepted batches land whole, and signals and graph count *)
(* exactly the events that reached them.                                   *)
(*                                                                         *)
(* The invariant tallies the uncommitted rows of a transaction as well: an *)
(* upserted row counts what was committed when its lock was taken, and the *)
(* transaction's own events except the one whose upsert of it is due.  The *)
(* lock keeps the committed part what it was.                              *)
(***************************************************************************)
EXTENDS Ingestion, FiniteSetTheorems, TLAPS

Parts == {"signal", "graph"}

(* The rows an event upserts, and the savepoint that upserts a row.        *)
Touches(p) == {SignalOf[p]} \union ToSet(GraphOf[p])
PartOf(row) == IF row \in Signals THEN "signal" ELSE "graph"

Table(t) == DOMAIN t \subseteq Rows /\ \A row \in DOMAIN t : t[row] \in Columns

(* The fields of a transaction.                                            *)
TxShape(x) ==
  /\ DOMAIN x = {"pc", "left", "raw", "normalized", "rows", "warned", "event", "part",
                 "todo", "saved"}
  /\ x.pc \in {"unsent", "open", "landed"}
  /\ x.left \in Seq(Payloads)
  /\ x.raw \subseteq Payloads
  /\ x.normalized \subseteq Payloads /\ IsFiniteSet(x.normalized)
  /\ Table(x.rows) /\ Table(x.saved)
  /\ x.warned \subseteq x.normalized \X Parts
  /\ x.event \in Payloads
  /\ x.part \in Parts
  /\ x.todo \in Seq(Touches(x.event))
-----------------------------------------------------------------------------
(* The payloads of `content' that are no longer left.                      *)
Taken(content, left) == {content[i] : i \in 1..(Len(content) - Len(left))}

(* How far a transaction has come in its batch.                            *)
Progress(x, content) ==
  /\ x.pc # "open" => x.rows = <<>> /\ x.todo = <<>> /\ x.normalized = {}
  /\ x.pc = "open" =>
       /\ Len(x.left) <= Len(content)
       /\ \A i \in 1..Len(x.left) : x.left[i] = content[Len(content) - Len(x.left) + i]
       /\ x.raw = {p \in Taken(content, x.left) : KindOf[p] # "hostile"}
       /\ x.normalized = {p \in Taken(content, x.left) : KindOf[p] = "event"}

(* What is left of the current event.                                      *)
Steps(x) ==
  x.todo # <<>> =>
    /\ x.event \in x.normalized
    /\ IsInjective(x.todo)
    /\ x.part = "signal" => x.todo = <<SignalOf[x.event]>> /\ <<x.event, "signal">> \notin x.warned
    /\ x.part = "graph" => ToSet(x.todo) \subseteq ToSet(GraphOf[x.event])
    /\ <<x.event, "graph">> \notin x.warned
    /\ DOMAIN x.saved \subseteq DOMAIN x.rows

Landed ==
  /\ normalized \subseteq raw
  /\ \A p \in raw : KindOf[p] # "hostile"
  /\ \A p \in normalized : KindOf[p] = "event"
  /\ \A p \in raw : \E b \in Batches : tx[b].pc = "landed" /\ p \in ToSet(ContentOf[b])
  /\ \A b \in Batches : tx[b].pc = "landed" =>
       \A p \in ToSet(ContentOf[b]) : /\ KindOf[p] # "hostile" => p \in raw
                                      /\ KindOf[p] = "event" => p \in normalized
-----------------------------------------------------------------------------
(* The rows of the current event that are still to be upserted, now and at *)
(* the savepoint.                                                          *)
Due(x) ==
  IF x.todo = <<>> THEN {}
  ELSE ToSet(x.todo) \union IF x.part = "signal" THEN ToSet(GraphOf[x.event]) ELSE {}
DueThen(x) == IF x.part = "signal" THEN Touches(x.event) ELSE ToSet(GraphOf[x.event])

(* The events of N that row stands for.                                    *)
Counted(row, N, W) == {p \in N : row \in Touches(p) /\ <<p, PartOf(row)>> \notin W}
Own(x, due, row) == {p \in Counted(row, x.normalized, x.warned) : p = x.event => row \notin due}

Describes(row, columns, P) ==
  /\ columns.count = Cardinality(P)
  /\ row \in Signals => \A p \in P : columns.first <= TimeOf[p] /\ TimeOf[p] <= columns.last

Tallied(t, row, before, own) ==
  IF row \in DOMAIN t THEN Describes(row, t[row], before \union own) ELSE own = {}

TxTallies(x, N, W) ==
  \A row \in Rows :
    /\ Tallied(x.rows, row, Counted(row, N, W), Own(x, Due(x), row))
    /\ x.todo # <<>> => Tallied(x.saved, row, Counted(row, N, W), Own(x, DueThen(x), row))
-----------------------------------------------------------------------------
IngestShape ==
  /\ raw \subseteq Payloads
  /\ normalized \subseteq Payloads /\ IsFiniteSet(normalized)
  /\ Table(rows)
  /\ warned \subseteq normalized \X Parts
  /\ DOMAIN tx = Batches
  /\ \A b \in Batches : TxShape(tx[b])

(* No two transactions hold one row.                                       *)
RowLocks == \A b, c \in Batches : b # c => DOMAIN tx[b].rows \cap DOMAIN tx[c].rows = {}

ProgressInv == \A b \in Batches : Progress(tx[b], ContentOf[b]) /\ Steps(tx[b])

TallyInv ==
  /\ \A row \in Rows : Tallied(rows, row, {}, Counted(row, normalized, warned))
  /\ \A b \in Batches : TxTallies(tx[b], normalized, warned)

IngestInv == IngestShape /\ RowLocks /\ ProgressInv /\ Landed /\ TallyInv
-----------------------------------------------------------------------------
(* What is known of the first element of a sequence and of the rest.       *)
LEMMA HeadAndTail ==
  ASSUME NEW S, NEW s \in Seq(S), s # <<>>
  PROVE  /\ Head(s) = s[1] /\ Head(s) \in S /\ Len(s) > 0
         /\ Tail(s) \in Seq(S) /\ Len(Tail(s)) = Len(s) - 1
         /\ \A i \in 1..Len(Tail(s)) : Tail(s)[i] = s[i + 1]
  OBVIOUS

LEMMA HeadAndTailSets ==
  ASSUME NEW S, NEW s \in Seq(S), s # <<>>, IsInjective(s)
  PROVE  /\ ToSet(s) = {Head(s)} \union ToSet(Tail(s))
         /\ Head(s) \notin ToSet(Tail(s))
         /\ IsInjective(Tail(s))
<1>1. /\ DOMAIN s = 1..Len(s) /\ Len(s) \in Nat \ {0}
      /\ DOMAIN Tail(s) = 1..(Len(s) - 1) /\ \A i \in 1..(Len(s) - 1) : Tail(s)[i] = s[i + 1]
      /\ Head(s) = s[1]
  BY HeadAndTail
<1>2. \A i, j \in 1..Len(s) : s[i] = s[j] => i = j
  BY <1>1 DEF IsInjective
<1>3. ToSet(s) \subseteq {Head(s)} \union ToSet(Tail(s))
  <2> SUFFICES ASSUME NEW i \in 1..Len(s) PROVE s[i] \in {Head(s)} \union ToSet(Tail(s))
    BY <1>1 DEF ToSet
  <2>1. CASE i = 1
    BY <1>1, <2>1
  <2>2. CASE i # 1
    <3>1. i - 1 \in 1..(Len(s) - 1) /\ Tail(s)[i - 1] = s[i]
      BY <1>1, <2>2
    <3> QED
      BY <1>1, <3>1 DEF ToSet
  <2> QED
    BY <2>1, <2>2
<1>4. {Head(s)} \union ToSet(Tail(s)) \subseteq ToSet(s)
  <2>1. 1 \in 1..Len(s) /\ \A i \in 1..(Len(s) - 1) : i + 1 \in 1..Len(s)
    BY <1>1
  <2> QED
    BY <1>1, <2>1 DEF ToSet
<1>5. Head(s) \notin ToSet(Tail(s))
  <2>1. \A i \in 1..(Len(s) - 1) : s[i + 1] # s[1]
    BY <1>1, <1>2
  <2> QED
    BY <1>1, <2>1 DEF ToSet
<1>6. IsInjective(Tail(s))
  <2>1. \A i, j \in 1..(Len(s) - 1) : s[i + 1] = s[j + 1] => i = j
    BY <1>1, <1>2
  <2> QED
    BY <1>1, <2>1 DEF IsInjective
<1> QED
  BY <1>3, <1>4, <1>5, <1>6

(* The rows of an event.                                                   *)
LEMMA RowsOfEvents ==
  /\ \A p \in Payloads : /\ SignalOf[p] \in Signals /\ ToSet(GraphOf[p]) \subseteq Links
                         /\ Touches(p) \subseteq Rows
                         /\ GraphOf[p] \in Seq(Touches(p)) /\ IsInjective(GraphOf[p])
                         /\ <<SignalOf[p]>> \in Seq(Touches(p))
  /\ Signals \cap Links = {}
<1>1. \A p \in Payloads : SignalOf[p] \in Signals /\ ToSet(GraphOf[p]) \subseteq Links
  BY DEF Signals, Links
<1>2. ASSUME NEW p \in Payloads PROVE GraphOf[p] \in Seq(Touches(p))
  <2>1. GraphOf[p] \in Seq(Links)
    BY PayloadAssumption
  <2>2. \A i \in 1..Len(GraphOf[p]) : GraphOf[p][i] \in ToSet(GraphOf[p])
    BY <2>1 DEF ToSet
  <2> QED
    BY <2>1, <2>2 DEF Touches
<1>3. ASSUME NEW p \in Payloads
      PROVE  Touches(p) \subseteq Rows /\ <<SignalOf[p]>> \in Seq(Touches(p))
  <2>1. SignalOf[p] \in Touches(p)
    BY DEF Touches
  <2> QED
    BY <1>1, <2>1 DEF Touches, Rows
<1> QED
  BY <1>1, <1>2, <1>3, PayloadAssumption

(* One more event of a row: the count grows by one, and the span.          *)
LEMMA CountOneMore ==
  ASSUME NEW P, IsFiniteSet(P), P \subseteq Payloads, NEW p \in Payloads, p \notin P,
         NEW row, NEW old \in Columns, Describes(row, old, P)
  PROVE  /\ Upserted(row, old, TimeOf[p]) \in Columns
         /\ Describes(row, Upserted(row, old, TimeOf[p]), P \union {p})
<1>1. Cardinality(P \union {p}) = Cardinality(P) + 1 /\ Cardinality(P) \in Nat
  BY FS_AddElement, FS_CardinalityType
<1>2. TimeOf[p] \in Nat /\ \A q \in P : TimeOf[q] \in Nat
  BY PayloadAssumption
<1> QED
  BY <1>1, <1>2 DEF Describes, Upserted, Columns, Lesser, Greater

LEMMA CountFirst ==
  ASSUME NEW p \in Payloads, NEW row
  PROVE  LET first == [count |-> 1, first |-> TimeOf[p], last |-> TimeOf[p]]
         IN  first \in Columns /\ Describes(row, first, {p})
<1>1. Cardinality({p}) = 1
  BY FS_Singleton
<1>2. TimeOf[p] \in Nat
  BY PayloadAssumption
<1> QED
  BY <1>1, <1>2 DEF Describes, Columns

(* An empty table tallies with no events.                                  *)
LEMMA NothingTallied ==
  ASSUME NEW x, x.rows = <<>>, x.todo = <<>>, x.normalized = {}, NEW N, NEW W
  PROVE  TxTallies(x, N, W)
<1>1. DOMAIN x.rows = {}
  OBVIOUS
<1> QED
  BY <1>1 DEF TxTallies, Tallied, Own, Counted

LEMMA InitIngest == Init => IngestInv
<1> SUFFICES ASSUME Init PROVE IngestInv
  OBVIOUS
<1>1. IsFiniteSet({}) /\ DOMAIN <<>> = {}
  BY FS_EmptySet
<1>2. TxShape(Unsent)
  BY <1>1, PayloadAssumption DEF TxShape, Unsent, Table, Parts
<1>3. IngestShape
  BY <1>1, <1>2 DEF Init, IngestShape, Table
<1>4. RowLocks
  BY <1>1 DEF Init, RowLocks, Unsent
<1>5. ProgressInv
  BY DEF Init, ProgressInv, Progress, Steps, Unsent
<1>6. Landed
  BY DEF Init, Landed, Unsent
<1>7. TallyInv
  BY <1>1, NothingTallied DEF Init, TallyInv, Tallied, Counted, Unsent
<1> QED
  BY <1>3, <1>4, <1>5, <1>6, <1>7 DEF IngestInv

(* One transaction moves; nothing is committed.                            *)
LEMMA OneTransaction ==
  ASSUME IngestInv, NEW b \in Batches, NEW y, tx' = [tx EXCEPT ![b] = y],
         UNCHANGED <<raw, normalized, rows, warned>>,
         tx[b].pc # "landed", y.pc # "landed",
         TxShape(y), Progress(y, ContentOf[b]), Steps(y),
         \A c \in Batches \ {b} : DOMAIN y.rows \cap DOMAIN tx[c].rows = {},
         TxTallies(y, normalized, warned)
  PROVE  IngestInv'
<1>1. /\ DOMAIN tx' = Batches /\ tx'[b] = y
      /\ \A c \in Batches \ {b} : tx'[c] = tx[c]
  BY DEF IngestInv, IngestShape
<1>2. IngestShape'
  BY <1>1 DEF IngestInv, IngestShape
<1>3. RowLocks'
  BY <1>1 DEF IngestInv, RowLocks
<1>4. ProgressInv'
  BY <1>1 DEF IngestInv, ProgressInv
<1>5. Landed'
  BY <1>1 DEF IngestInv, Landed
<1>6. TallyInv'
  BY <1>1 DEF IngestInv, TallyInv
<1> QED
  BY <1>2, <1>3, <1>4, <1>5, <1>6 DEF IngestInv

LEMMA BeginKeeps == ASSUME IngestInv, NEW b \in Batches, Begin(b) PROVE IngestInv'
<1> DEFINE y == [Unsent EXCEPT !.pc = "open", !.left = ContentOf[b]]
<1>1. IsFiniteSet({}) /\ DOMAIN <<>> = {}
  BY FS_EmptySet
<1>2. TxShape(y)
  <2>1. ContentOf[b] \in Seq(Payloads)
    BY PayloadAssumption
  <2>2. TxShape(Unsent)
    BY <1>1, PayloadAssumption DEF TxShape, Unsent, Table, Parts
  <2>3. /\ DOMAIN y = DOMAIN Unsent /\ y.pc = "open" /\ y.left = ContentOf[b]
        /\ y.raw = Unsent.raw /\ y.normalized = Unsent.normalized /\ y.rows = Unsent.rows
        /\ y.warned = Unsent.warned /\ y.event = Unsent.event /\ y.part = Unsent.part
        /\ y.todo = Unsent.todo /\ y.saved = Unsent.saved
    BY DEF Unsent
  <2> HIDE DEF y
  <2> QED
    BY <2>1, <2>2, <2>3 DEF TxShape
<1>3. Taken(ContentOf[b], ContentOf[b]) = {}
  BY PayloadAssumption DEF Taken
<1>4. Progress(y, ContentOf[b])
  BY <1>3, PayloadAssumption DEF Progress, Unsent
<1>5. Steps(y) /\ TxTallies(y, normalized, warned) /\ DOMAIN y.rows = {}
  BY <1>1, NothingTallied DEF Steps, Unsent
<1>6. y.pc # "landed" /\ tx[b].pc # "landed"
  BY DEF Begin, Unsent
<1>7. tx' = [tx EXCEPT ![b] = y] /\ UNCHANGED <<raw, normalized, rows, warned>>
  BY DEF Begin
<1> HIDE DEF y
<1> QED
  BY <1>2, <1>4, <1>5, <1>6, <1>7, OneTransaction

LEMMA RollbackKeeps == ASSUME IngestInv, NEW b \in Batches, Rollback(b) PROVE IngestInv'
<1>1. IsFiniteSet({}) /\ DOMAIN <<>> = {}
  BY FS_EmptySet
<1>2. TxShape(Unsent)
  BY <1>1, PayloadAssumption DEF TxShape, Unsent, Table, Parts
<1>3. /\ Progress(Unsent, ContentOf[b]) /\ Steps(Unsent)
      /\ TxTallies(Unsent, normalized, warned) /\ DOMAIN Unsent.rows = {}
      /\ Unsent.pc # "landed"
  BY <1>1, NothingTallied DEF Progress, Steps, Unsent
<1> QED
  BY <1>2, <1>3, OneTransaction DEF Rollback

(* The next payload leaves what is left and joins what is taken.           *)
LEMMA TakesNext ==
  ASSUME NEW content \in Seq(Payloads), IsInjective(content),
         NEW left \in Seq(Payloads), left # <<>>, Len(left) <= Len(content),
         \A i \in 1..Len(left) : left[i] = content[Len(content) - Len(left) + i]
  PROVE  /\ Taken(content, Tail(left)) = Taken(content, left) \union {Head(left)}
         /\ Head(left) \notin Taken(content, left)
         /\ Tail(left) \in Seq(Payloads) /\ Len(Tail(left)) <= Len(content)
         /\ \A i \in 1..Len(Tail(left)) :
              Tail(left)[i] = content[Len(content) - Len(Tail(left)) + i]
<1> DEFINE n == Len(content) - Len(left)
<1>1. /\ n \in Nat /\ n + 1 \in 1..Len(content) /\ Len(content) \in Nat
      /\ Head(left) = content[n + 1]
      /\ Tail(left) \in Seq(Payloads) /\ Len(Tail(left)) = Len(left) - 1 /\ Len(left) \in Nat
      /\ \A i \in 1..Len(Tail(left)) : Tail(left)[i] = left[i + 1]
      /\ DOMAIN content = 1..Len(content)
  BY HeadAndTail
<1>2. Len(content) - Len(Tail(left)) = n + 1
  BY <1>1
<1>3. Taken(content, Tail(left)) = Taken(content, left) \union {Head(left)}
  <2>1. 1..(n + 1) = (1..n) \union {n + 1}
    BY <1>1
  <2> HIDE DEF n
  <2>2. Taken(content, left) = {content[i] : i \in 1..n}
    BY DEF Taken, n
  <2>3. Taken(content, Tail(left)) = {content[i] : i \in 1..(n + 1)}
    BY <1>2 DEF Taken
  <2> QED
    BY <1>1, <2>1, <2>2, <2>3
<1>4. Head(left) \notin Taken(content, left)
  <2>1. \A i \in 1..n : i \in 1..Len(content) /\ i # n + 1
    BY <1>1
  <2> QED
    BY <1>1, <2>1 DEF Taken, IsInjective
<1>5. \A i \in 1..Len(Tail(left)) :
        Tail(left)[i] = content[Len(content) - Len(Tail(left)) + i]
  <2> SUFFICES ASSUME NEW i \in 1..Len(Tail(left))
               PROVE  Tail(left)[i] = content[Len(content) - Len(Tail(left)) + i]
    OBVIOUS
  <2>1. i + 1 \in 1..Len(left) /\ n + (i + 1) = Len(content) - Len(Tail(left)) + i
    BY <1>1, <1>2
  <2> QED
    BY <1>1, <2>1
<1>6. Len(Tail(left)) <= Len(content)
  BY <1>1
<1> HIDE DEF n
<1> QED
  BY <1>1, <1>3, <1>4, <1>5, <1>6

(* A transaction's events are not committed yet.                           *)
LEMMA NotYetCommitted ==
  ASSUME IngestInv, NEW b \in Batches
  PROVE  tx[b].normalized \cap normalized = {}
<1>1. CASE tx[b].pc # "open"
  BY <1>1 DEF IngestInv, ProgressInv, Progress
<1>2. CASE tx[b].pc = "open"
  <2>1. Progress(tx[b], ContentOf[b]) /\ TxShape(tx[b]) /\ ContentOf[b] \in Seq(Payloads)
    BY PayloadAssumption DEF IngestInv, ProgressInv, IngestShape
  <2>2. tx[b].normalized \subseteq ToSet(ContentOf[b])
    <3>1. Len(tx[b].left) \in Nat /\ Len(ContentOf[b]) \in Nat
          /\ DOMAIN ContentOf[b] = 1..Len(ContentOf[b])
      BY <2>1 DEF TxShape
    <3>2. Taken(ContentOf[b], tx[b].left) \subseteq ToSet(ContentOf[b])
      BY <3>1 DEF Taken, ToSet
    <3> QED
      BY <1>2, <2>1, <3>2 DEF Progress
  <2>3. \A p \in normalized : \E c \in Batches : tx[c].pc = "landed" /\ p \in ToSet(ContentOf[c])
    BY DEF IngestInv, Landed
  <2>4. \A c \in Batches : tx[c].pc = "landed" => ToSet(ContentOf[b]) \cap ToSet(ContentOf[c]) = {}
    BY <1>2, PayloadAssumption
  <2> QED
    BY <2>2, <2>3, <2>4
<1> QED
  BY <1>1, <1>2

LEMMA StoreKeeps == ASSUME IngestInv, NEW b \in Batches, Store(b) PROVE IngestInv'
<1> DEFINE x == tx[b]
           p == Head(x.left)
           y == [x EXCEPT
                  !.left = Left(b),
                  !.raw = IF KindOf[p] = "hostile" THEN @ ELSE @ \union {p},
                  !.normalized = IF KindOf[p] = "event" THEN @ \union {p} ELSE @,
                  !.event = p, !.saved = tx[b].rows, !.part = "signal",
                  !.todo = IF KindOf[p] = "event" THEN <<SignalOf[p]>> ELSE <<>>]
<1>1. /\ TxShape(x) /\ Progress(x, ContentOf[b]) /\ TxTallies(x, normalized, warned)
      /\ \A c \in Batches \ {b} : DOMAIN x.rows \cap DOMAIN tx[c].rows = {}
  BY DEF IngestInv, IngestShape, ProgressInv, TallyInv, RowLocks
<1>2. x.pc = "open" /\ x.todo = <<>> /\ x.left # <<>> /\ x.left \in Seq(Payloads)
  BY <1>1 DEF Store, TxShape
<1>3. /\ Taken(ContentOf[b], Tail(x.left)) = Taken(ContentOf[b], x.left) \union {p}
      /\ p \notin Taken(ContentOf[b], x.left) /\ p \in Payloads
      /\ Tail(x.left) \in Seq(Payloads) /\ Len(Tail(x.left)) <= Len(ContentOf[b])
      /\ \A i \in 1..Len(Tail(x.left)) :
           Tail(x.left)[i] = ContentOf[b][Len(ContentOf[b]) - Len(Tail(x.left)) + i]
  <2>1. ContentOf[b] \in Seq(Payloads) /\ IsInjective(ContentOf[b])
    BY PayloadAssumption
  <2>2. /\ Len(x.left) <= Len(ContentOf[b])
        /\ \A i \in 1..Len(x.left) : x.left[i] = ContentOf[b][Len(ContentOf[b]) - Len(x.left) + i]
    BY <1>1, <1>2 DEF Progress
  <2>3. p \in Payloads
    BY <1>2, HeadAndTail
  <2> HIDE DEF x
  <2> QED
    BY <1>2, <2>1, <2>2, <2>3, TakesNext
<1>4. tx' = [tx EXCEPT ![b] = y] /\ UNCHANGED <<raw, normalized, rows, warned>>
  BY DEF Store
<1>5. /\ DOMAIN y = DOMAIN x /\ y.pc = "open" /\ y.left = Tail(x.left) /\ y.rows = x.rows
      /\ y.raw = (IF KindOf[p] = "hostile" THEN x.raw ELSE x.raw \union {p})
      /\ y.normalized = (IF KindOf[p] = "event" THEN x.normalized \union {p} ELSE x.normalized)
      /\ y.event = p /\ y.saved = x.rows /\ y.part = "signal" /\ y.warned = x.warned
      /\ y.todo = IF KindOf[p] = "event" THEN <<SignalOf[p]>> ELSE <<>>
  BY <1>1, <1>2 DEF TxShape, Left
<1> HIDE DEF y
<1>6. TxShape(y)
  <2>1. IsFiniteSet(x.normalized \union {p})
    BY <1>1, FS_AddElement DEF TxShape
  <2>2. y.todo \in Seq(Touches(p))
    <3>1. <<SignalOf[p]>> \in Seq(Touches(p)) /\ <<>> \in Seq(Touches(p))
      BY <1>3, RowsOfEvents
    <3> QED
      BY <1>5, <3>1
  <2>3. p \in Payloads /\ y.raw \subseteq Payloads /\ y.normalized \subseteq Payloads
    BY <1>1, <1>3, <1>5 DEF TxShape
  <2>4. IsFiniteSet(y.normalized)
    BY <1>1, <1>5, <2>1 DEF TxShape
  <2>5. y.warned \subseteq y.normalized \X Parts
    BY <1>1, <1>5 DEF TxShape
  <2>6. y.part \in Parts /\ y.pc \in {"unsent", "open", "landed"}
    BY <1>5 DEF Parts
  <2>7. Table(y.rows) /\ Table(y.saved) /\ DOMAIN y = DOMAIN x
    BY <1>1, <1>5 DEF TxShape
  <2> QED
    BY <1>1, <1>3, <1>5, <2>2, <2>3, <2>4, <2>5, <2>6, <2>7 DEF TxShape
<1>7. Progress(y, ContentOf[b])
  <2>1. /\ x.raw = {q \in Taken(ContentOf[b], x.left) : KindOf[q] # "hostile"}
        /\ x.normalized = {q \in Taken(ContentOf[b], x.left) : KindOf[q] = "event"}
    BY <1>1, <1>2 DEF Progress
  <2>2. y.raw = {q \in Taken(ContentOf[b], y.left) : KindOf[q] # "hostile"}
    BY <1>3, <1>5, <2>1
  <2>3. y.normalized = {q \in Taken(ContentOf[b], y.left) : KindOf[q] = "event"}
    BY <1>3, <1>5, <2>1
  <2> QED
    BY <1>3, <1>5, <2>2, <2>3 DEF Progress
<1>8. p \notin x.normalized
  BY <1>1, <1>2, <1>3 DEF Progress
<1>9. Steps(y)
  <2>1. \A part : <<p, part>> \notin x.warned
    BY <1>1, <1>8 DEF TxShape
  <2>2. IsInjective(<<SignalOf[p]>>)
    BY DEF IsInjective
  <2> QED
    BY <1>5, <2>1, <2>2 DEF Steps
<1>10. TxTallies(y, normalized, warned)
  <2>1. Due(x) = {}
    BY <1>2 DEF Due
  <2>2. y.todo # <<>> => Due(y) = Touches(p) /\ DueThen(y) = Touches(p)
    <3>1. ToSet(<<SignalOf[p]>>) = {SignalOf[p]}
      BY DEF ToSet
    <3> QED
      BY <1>5, <3>1 DEF Due, DueThen, Touches
  <2>3. y.todo = <<>> => Due(y) = {} /\ y.normalized = x.normalized
    <3>1. <<SignalOf[p]>> # <<>>
      OBVIOUS
    <3> QED
      BY <1>5, <3>1 DEF Due
  <2>4. ASSUME NEW row \in Rows
        PROVE  /\ Own(y, Due(y), row) = Own(x, Due(x), row)
               /\ y.todo # <<>> => Own(y, DueThen(y), row) = Own(x, Due(x), row)
    <3>1. CASE y.todo # <<>>
      BY <1>5, <1>8, <2>1, <2>2, <3>1 DEF Own, Counted
    <3>2. CASE y.todo = <<>>
      BY <1>5, <2>1, <2>3, <3>2 DEF Own, Counted
    <3> QED
      BY <3>1, <3>2
  <2> QED
    BY <1>1, <1>5, <2>4 DEF TxTallies
<1> QED
  BY <1>1, <1>2, <1>4, <1>5, <1>6, <1>7, <1>9, <1>10, OneTransaction

(* An upsert takes its row from what is due; so does the end of the        *)
(* savepoint of the signal, that the graph follows.                        *)
LEMMA DueAfterUpsert ==
  ASSUME NEW x, TxShape(x), Steps(x), x.todo # <<>>,
         NEW y, y.event = x.event,
         y.todo = (IF Tail(x.todo) = <<>>
                   THEN (IF x.part = "signal" THEN GraphOf[x.event] ELSE <<>>)
                   ELSE Tail(x.todo)),
         y.part = (IF Tail(x.todo) = <<>> THEN "graph" ELSE x.part)
  PROVE  Due(y) = Due(x) \ {Head(x.todo)} /\ Head(x.todo) \in Due(x)
<1>1. /\ x.event \in Payloads /\ x.todo \in Seq(Touches(x.event)) /\ IsInjective(x.todo)
      /\ x.part \in Parts
  BY DEF TxShape, Steps
<1>2. /\ ToSet(x.todo) = {Head(x.todo)} \union ToSet(Tail(x.todo))
      /\ Head(x.todo) \notin ToSet(Tail(x.todo))
  BY <1>1, HeadAndTailSets
<1>3. ToSet(<<>>) = {}
  BY DEF ToSet
<1>4. CASE x.part = "signal"
  <2>1. x.todo = <<SignalOf[x.event]>> /\ Tail(x.todo) = <<>> /\ Head(x.todo) = SignalOf[x.event]
    <3>1. x.todo = <<SignalOf[x.event]>>
      BY <1>4 DEF Steps
    <3>2. ASSUME NEW r PROVE Tail(<<r>>) = <<>> /\ Head(<<r>>) = r
      OBVIOUS
    <3> QED
      BY <3>1, <3>2
  <2>2. SignalOf[x.event] \notin ToSet(GraphOf[x.event])
    BY <1>1, RowsOfEvents
  <2>3. ToSet(x.todo) = {SignalOf[x.event]}
    BY <1>2, <1>3, <2>1
  <2>4. Due(x) = {SignalOf[x.event]} \union ToSet(GraphOf[x.event])
    BY <1>4, <2>3 DEF Due
  <2>5. Due(y) = ToSet(GraphOf[x.event])
    BY <1>3, <1>4, <2>1 DEF Due
  <2> QED
    BY <2>1, <2>2, <2>4, <2>5
<1>5. CASE x.part = "graph"
  <2>1. Due(x) = ToSet(x.todo)
    BY <1>5 DEF Due
  <2>2. Due(y) = ToSet(Tail(x.todo))
    BY <1>3, <1>5 DEF Due
  <2> QED
    BY <1>2, <2>1, <2>2
<1> QED
  BY <1>1, <1>4, <1>5 DEF Parts

(* What an open transaction knows of its current event.                    *)
LEMMA CurrentEvent ==
  ASSUME IngestInv, NEW b \in Batches, tx[b].todo # <<>>
  PROVE  /\ tx[b].event \in tx[b].normalized /\ tx[b].event \notin normalized
         /\ tx[b].event \in Payloads /\ tx[b].pc = "open"
         /\ \A row \in ToSet(tx[b].todo) :
              /\ row \in Touches(tx[b].event) /\ row \in Rows
              /\ PartOf(row) = tx[b].part
              /\ <<tx[b].event, PartOf(row)>> \notin tx[b].warned
         /\ Head(tx[b].todo) \in ToSet(tx[b].todo)
<1> DEFINE x == tx[b]
<1>1. TxShape(x) /\ Steps(x) /\ Progress(x, ContentOf[b])
  BY DEF IngestInv, IngestShape, ProgressInv
<1>2. x.event \in x.normalized /\ x.event \in Payloads /\ x.pc = "open" /\ x.part \in Parts
      /\ x.todo \in Seq(Touches(x.event)) /\ IsInjective(x.todo)
  BY <1>1 DEF TxShape, Steps, Progress
<1>3. x.event \notin normalized
  BY <1>2, NotYetCommitted
<1>4. Head(x.todo) \in ToSet(x.todo)
  BY <1>2, HeadAndTailSets
<1>5. ASSUME NEW row \in ToSet(x.todo)
      PROVE  /\ row \in Touches(x.event) /\ row \in Rows
             /\ PartOf(row) = x.part
             /\ <<x.event, PartOf(row)>> \notin x.warned
  <2>1. row \in Touches(x.event)
    BY <1>2 DEF ToSet
  <2>2. CASE x.part = "signal"
    <3>1. ToSet(<<SignalOf[x.event]>>) = {SignalOf[x.event]}
      BY DEF ToSet
    <3>2. row = SignalOf[x.event] /\ <<x.event, "signal">> \notin x.warned
      BY <1>1, <2>2, <3>1 DEF Steps
    <3> QED
      BY <1>2, <2>1, <2>2, <3>2, RowsOfEvents DEF PartOf
  <2>3. CASE x.part = "graph"
    <3>1. row \in ToSet(GraphOf[x.event]) /\ <<x.event, "graph">> \notin x.warned
      BY <1>1, <2>3 DEF Steps
    <3>2. row \notin Signals
      BY <1>2, <3>1, RowsOfEvents
    <3> QED
      BY <1>2, <2>1, <2>3, <3>1, <3>2, RowsOfEvents DEF PartOf
  <2> QED
    BY <1>2, <2>2, <2>3 DEF Parts
<1> QED
  BY <1>2, <1>3, <1>4, <1>5

(* The columns that an upsert writes describe what they should.            *)
LEMMA UpsertCounts ==
  ASSUME IngestInv, NEW b \in Batches, tx[b].todo # <<>>,
         NEW row, row = Head(tx[b].todo), NEW new,
         new = IF Sees(b, row) THEN Upserted(row, Seen(b, row), TimeOf[tx[b].event])
               ELSE [count |-> 1, first |-> TimeOf[tx[b].event], last |-> TimeOf[tx[b].event]]
  PROVE  /\ new \in Columns
         /\ Describes(row, new, Counted(row, normalized, warned)
                                  \union Own(tx[b], Due(tx[b]), row) \union {tx[b].event})
<1> DEFINE x == tx[b]
           e == x.event
           before == Counted(row, normalized, warned)
           own == Own(x, Due(x), row)
<1>1. /\ e \in x.normalized /\ e \notin normalized /\ e \in Payloads
      /\ row \in Rows /\ row \in ToSet(x.todo)
  BY CurrentEvent
<1>2. row \in Due(x)
  BY <1>1 DEF Due
<1>3. /\ IsFiniteSet(before) /\ before \subseteq normalized
      /\ IsFiniteSet(own) /\ own \subseteq x.normalized
      /\ normalized \subseteq Payloads /\ x.normalized \subseteq Payloads
  <2>1. /\ before \subseteq normalized /\ own \subseteq x.normalized
    BY DEF Counted, Own
  <2>2. /\ IsFiniteSet(normalized) /\ IsFiniteSet(x.normalized)
        /\ normalized \subseteq Payloads /\ x.normalized \subseteq Payloads
    BY DEF IngestInv, IngestShape, TxShape
  <2> QED
    BY <2>1, <2>2, FS_Subset
<1>4. IsFiniteSet(before \union own) /\ before \union own \subseteq Payloads
  BY <1>3, FS_Union
<1>5. e \notin before \union own
  BY <1>1, <1>2, <1>3 DEF Own
<1>6. /\ Tallied(rows, row, {}, before)
      /\ Tallied(x.rows, row, before, own)
      /\ Table(rows) /\ Table(x.rows)
  BY <1>1 DEF IngestInv, TallyInv, TxTallies, IngestShape, TxShape
<1> HIDE DEF before, own, e, x
<1> DEFINE P == before \union own
<1> HIDE DEF P
<1>10. new \in Columns /\ Describes(row, new, P \union {e})
  <2>1. IsFiniteSet(P) /\ P \subseteq Payloads /\ e \notin P /\ e \in Payloads
    BY <1>1, <1>4, <1>5 DEF P
  <2>2. ASSUME NEW old \in Columns, Describes(row, old, P)
        PROVE  /\ Upserted(row, old, TimeOf[e]) \in Columns
               /\ Describes(row, Upserted(row, old, TimeOf[e]), P \union {e})
    BY <2>1, <2>2, CountOneMore
  <2>3. CASE row \in DOMAIN x.rows
    <3>1. x.rows[row] \in Columns /\ Describes(row, x.rows[row], P)
      BY <1>6, <2>3 DEF Table, Tallied, P
    <3>2. new = Upserted(row, x.rows[row], TimeOf[e])
      BY <2>3 DEF Sees, Seen, x, e
    <3> QED
      BY <2>2, <3>1, <3>2
  <2>4. CASE row \notin DOMAIN x.rows /\ row \in DOMAIN rows
    <3>1. own = {} /\ P = {} \union before
      BY <1>6, <2>4 DEF Tallied, P
    <3>2. rows[row] \in Columns /\ Describes(row, rows[row], P)
      BY <1>6, <2>4, <3>1 DEF Table, Tallied
    <3>3. new = Upserted(row, rows[row], TimeOf[e])
      BY <2>4 DEF Sees, Seen, x, e
    <3> QED
      BY <2>2, <3>2, <3>3
  <2>5. CASE row \notin DOMAIN x.rows /\ row \notin DOMAIN rows
    <3>1. P \union {e} = {e}
      BY <1>6, <2>5 DEF Tallied, P
    <3>2. new = [count |-> 1, first |-> TimeOf[e], last |-> TimeOf[e]]
      BY <2>5 DEF Sees, x, e
    <3> QED
      BY <1>1, <3>1, <3>2, CountFirst
  <2> QED
    BY <2>3, <2>4, <2>5
<1> QED
  BY <1>10 DEF P, before, own, x, e

LEMMA UpsertKeeps == ASSUME IngestInv, NEW b \in Batches, Upsert(b) PROVE IngestInv'
<1> DEFINE x == tx[b]
           row == Head(x.todo)
           rest == Tail(x.todo)
           new == IF Sees(b, row) THEN Upserted(row, Seen(b, row), TimeOf[x.event])
                  ELSE [count |-> 1, first |-> TimeOf[x.event], last |-> TimeOf[x.event]]
           mine == [r \in {row} \union DOMAIN x.rows |-> IF r = row THEN new ELSE x.rows[r]]
           y == [x EXCEPT !.rows = mine,
                          !.saved = IF rest = <<>> THEN mine ELSE @,
                          !.part = IF rest = <<>> THEN "graph" ELSE @,
                          !.todo = IF rest = <<>> THEN NextPart(b) ELSE rest]
<1>1. /\ TxShape(x) /\ Progress(x, ContentOf[b]) /\ Steps(x) /\ TxTallies(x, normalized, warned)
      /\ \A c \in Batches \ {b} : DOMAIN x.rows \cap DOMAIN tx[c].rows = {}
  BY DEF IngestInv, IngestShape, ProgressInv, TallyInv, RowLocks
<1>2. /\ x.pc = "open" /\ x.todo # <<>>
      /\ \A c \in Batches \ {b} : row \notin DOMAIN tx[c].rows
  BY DEF Upsert, Upserting, Locked, Row
<1>3. /\ x.event \in x.normalized /\ x.event \in Payloads
      /\ row \in Touches(x.event) /\ row \in Rows /\ <<x.event, PartOf(row)>> \notin x.warned
  BY <1>2, CurrentEvent
<1>4. /\ new \in Columns
      /\ Describes(row, new, Counted(row, normalized, warned) \union Own(x, Due(x), row)
                               \union {x.event})
  BY <1>2, UpsertCounts
<1>5. tx' = [tx EXCEPT ![b] = y] /\ UNCHANGED <<raw, normalized, rows, warned>>
  BY DEF Upsert, Row
<1> HIDE DEF new
<1>6. /\ DOMAIN mine = {row} \union DOMAIN x.rows /\ mine[row] = new
      /\ \A r \in DOMAIN x.rows \ {row} : mine[r] = x.rows[r]
  OBVIOUS
<1> HIDE DEF mine
<1>7. /\ DOMAIN y = DOMAIN x /\ y.pc = x.pc /\ y.left = x.left /\ y.raw = x.raw
      /\ y.normalized = x.normalized /\ y.warned = x.warned /\ y.event = x.event
      /\ y.rows = mine
      /\ y.saved = (IF rest = <<>> THEN mine ELSE x.saved)
      /\ y.part = (IF rest = <<>> THEN "graph" ELSE x.part)
      /\ y.todo = (IF rest = <<>>
                   THEN (IF x.part = "signal" THEN GraphOf[x.event] ELSE <<>>)
                   ELSE rest)
  BY <1>1 DEF TxShape, NextPart
<1> HIDE DEF y
<1>8. /\ x.part \in Parts /\ x.todo \in Seq(Touches(x.event)) /\ IsInjective(x.todo)
  BY <1>1, <1>2 DEF TxShape, Steps
<1>9. rest \in Seq(Touches(x.event)) /\ IsInjective(rest) /\ ToSet(rest) \subseteq ToSet(x.todo)
  BY <1>2, <1>8, HeadAndTail, HeadAndTailSets
<1>10. x.part = "signal" => rest = <<>>
  <2>1. ASSUME NEW r PROVE Tail(<<r>>) = <<>>
    OBVIOUS
  <2> QED
    BY <1>1, <1>2, <2>1 DEF Steps
<1>11. TxShape(y)
  <2>1. Table(mine)
    BY <1>1, <1>3, <1>4, <1>6 DEF Table, TxShape
  <2>2. y.todo \in Seq(Touches(x.event))
    <3>1. GraphOf[x.event] \in Seq(Touches(x.event)) /\ <<>> \in Seq(Touches(x.event))
      BY <1>3, RowsOfEvents
    <3> QED
      BY <1>7, <1>9, <3>1
  <2> QED
    BY <1>1, <1>7, <2>1, <2>2 DEF TxShape, Parts
<1>12. Progress(y, ContentOf[b])
  BY <1>1, <1>2, <1>7 DEF Progress
<1>13. Steps(y)
  <2>1. <<x.event, "graph">> \notin x.warned
    BY <1>1, <1>2 DEF Steps
  <2>2. IsInjective(y.todo) /\ IsInjective(GraphOf[x.event])
    <3>1. IsInjective(GraphOf[x.event])
      BY <1>3, RowsOfEvents
    <3>2. IsInjective(<<>>)
      BY DEF IsInjective
    <3> QED
      BY <1>7, <1>9, <3>1, <3>2
  <2>3. y.todo # <<>> => y.part = "graph" /\ ToSet(y.todo) \subseteq ToSet(GraphOf[x.event])
    <3>1. CASE rest = <<>>
      BY <1>7, <3>1
    <3>2. CASE rest # <<>>
      BY <1>1, <1>2, <1>7, <1>8, <1>9, <1>10, <3>2 DEF Steps, Parts
    <3> QED
      BY <3>1, <3>2
  <2>4. DOMAIN y.saved \subseteq DOMAIN y.rows
    BY <1>1, <1>2, <1>6, <1>7 DEF Steps
  <2> QED
    BY <1>3, <1>7, <2>1, <2>2, <2>3, <2>4 DEF Steps
<1>14. Due(y) = Due(x) \ {row} /\ row \in Due(x)
  BY <1>1, <1>2, <1>7, DueAfterUpsert
<1>15. Own(y, Due(y), row) = Own(x, Due(x), row) \union {x.event}
  BY <1>3, <1>7, <1>14 DEF Own, Counted
<1>16. \A r \in Rows \ {row} : Own(y, Due(y), r) = Own(x, Due(x), r)
  BY <1>7, <1>14 DEF Own
<1>17. ASSUME NEW r \in Rows
       PROVE  Tallied(y.rows, r, Counted(r, normalized, warned), Own(y, Due(y), r))
  <2>1. CASE r = row
    <3>1. Describes(row, mine[row], Counted(row, normalized, warned) \union Own(y, Due(y), row))
      <4>1. Counted(row, normalized, warned) \union Own(y, Due(y), row)
              = Counted(row, normalized, warned) \union Own(x, Due(x), row) \union {x.event}
        BY <1>15
      <4> QED
        BY <1>4, <1>6, <4>1
    <3> QED
      BY <1>6, <1>7, <2>1, <3>1 DEF Tallied
  <2>2. CASE r # row
    <3>1. Tallied(x.rows, r, Counted(r, normalized, warned), Own(x, Due(x), r))
      BY <1>1 DEF TxTallies
    <3> QED
      BY <1>6, <1>7, <1>16, <2>2, <3>1 DEF Tallied
  <2> QED
    BY <2>1, <2>2
<1>18. ASSUME NEW r \in Rows, y.todo # <<>>
       PROVE  Tallied(y.saved, r, Counted(r, normalized, warned), Own(y, DueThen(y), r))
  <2>1. CASE rest = <<>>
    <3>1. y.saved = y.rows /\ DueThen(y) = Due(y)
      <4>1. y.part = "graph" /\ y.todo = GraphOf[y.event]
        BY <1>7, <1>18, <2>1
      <4> QED
        BY <1>7, <1>18, <2>1, <4>1 DEF DueThen, Due
    <3> QED
      BY <1>17, <3>1
  <2>2. CASE rest # <<>>
    <3>1. y.saved = x.saved /\ DueThen(y) = DueThen(x)
      BY <1>7, <2>2 DEF DueThen
    <3>2. Own(y, DueThen(y), r) = Own(x, DueThen(x), r)
      BY <1>7, <3>1 DEF Own
    <3> QED
      BY <1>1, <1>2, <3>1, <3>2 DEF TxTallies
  <2> QED
    BY <2>1, <2>2
<1>19. TxTallies(y, normalized, warned)
  BY <1>17, <1>18 DEF TxTallies
<1>20. \A c \in Batches \ {b} : DOMAIN y.rows \cap DOMAIN tx[c].rows = {}
  BY <1>1, <1>2, <1>6, <1>7
<1> QED
  BY <1>2, <1>5, <1>7, <1>11, <1>12, <1>13, <1>19, <1>20, OneTransaction

(* What the savepoint wrote is gone, and its failure is on record.         *)
LEMMA SavepointFailsKeeps ==
  ASSUME IngestInv, NEW b \in Batches, SavepointFails(b) PROVE IngestInv'
<1> DEFINE x == tx[b]
           e == x.event
           y == [x EXCEPT !.rows = Restored(b), !.warned = @ \union {<<x.event, x.part>>},
                          !.part = "graph", !.todo = NextPart(b)]
<1>1. /\ TxShape(x) /\ Progress(x, ContentOf[b]) /\ Steps(x) /\ TxTallies(x, normalized, warned)
      /\ \A c \in Batches \ {b} : DOMAIN x.rows \cap DOMAIN tx[c].rows = {}
  BY DEF IngestInv, IngestShape, ProgressInv, TallyInv, RowLocks
<1>2. x.pc = "open" /\ x.todo # <<>>
  BY DEF SavepointFails, Deadlocked, WaitsFor, Upserting
<1>3. e \in x.normalized /\ e \in Payloads
  BY <1>2, CurrentEvent
<1>4. tx' = [tx EXCEPT ![b] = y] /\ UNCHANGED <<raw, normalized, rows, warned>>
  BY DEF SavepointFails
<1>5. /\ DOMAIN y = DOMAIN x /\ y.pc = x.pc /\ y.left = x.left /\ y.raw = x.raw
      /\ y.normalized = x.normalized /\ y.event = e /\ y.saved = x.saved /\ y.rows = x.saved
      /\ y.warned = x.warned \union {<<e, x.part>>} /\ y.part = "graph"
      /\ y.todo = IF x.part = "signal" THEN GraphOf[e] ELSE <<>>
  BY <1>1 DEF TxShape, NextPart, Restored
<1> HIDE DEF y
<1>6. /\ x.part \in Parts /\ <<e, "graph">> \notin x.warned
      /\ x.part = "signal" => <<e, "signal">> \notin x.warned
      /\ DOMAIN x.saved \subseteq DOMAIN x.rows
  BY <1>1, <1>2 DEF TxShape, Steps
<1>7. TxShape(y)
  <2>1. GraphOf[e] \in Seq(Touches(e)) /\ <<>> \in Seq(Touches(e))
    BY <1>3, RowsOfEvents
  <2>2. y.todo \in Seq(Touches(e))
    BY <1>5, <2>1
  <2> QED
    BY <1>1, <1>3, <1>5, <2>2 DEF TxShape, Parts
<1>8. Progress(y, ContentOf[b])
  BY <1>1, <1>2, <1>5 DEF Progress
<1>9. Steps(y)
  <2>1. y.todo # <<>> => x.part = "signal" /\ y.todo = GraphOf[e]
    BY <1>5
  <2>2. IsInjective(GraphOf[e])
    BY <1>3, RowsOfEvents
  <2>3. x.part = "signal" => <<e, "graph">> \notin y.warned
    BY <1>5, <1>6
  <2> QED
    BY <1>3, <1>5, <1>6, <2>1, <2>2, <2>3 DEF Steps
<1>10. ASSUME NEW r \in Rows
       PROVE  Own(y, Due(y), r) = Own(x, DueThen(x), r)
  <2>1. \A q \in x.normalized \ {e} : q \in Own(y, Due(y), r) <=> q \in Own(x, DueThen(x), r)
    BY <1>5 DEF Own, Counted
  <2>2. e \in Own(y, Due(y), r) <=> e \in Own(x, DueThen(x), r)
    <3>1. e \in Own(y, Due(y), r)
            <=> r \in Touches(e) /\ <<e, PartOf(r)>> \notin y.warned /\ r \notin Due(y)
      BY <1>3, <1>5 DEF Own, Counted
    <3>2. e \in Own(x, DueThen(x), r)
            <=> r \in Touches(e) /\ <<e, PartOf(r)>> \notin x.warned /\ r \notin DueThen(x)
      BY <1>3 DEF Own, Counted
    <3>3. r \in Touches(e) => IF r \in Signals THEN r \notin ToSet(GraphOf[e]) /\ PartOf(r) = "signal"
                              ELSE r \in ToSet(GraphOf[e]) /\ PartOf(r) = "graph"
      BY <1>3, RowsOfEvents DEF Touches, PartOf
    <3>4. CASE x.part = "signal"
      <4>1. ToSet(<<>>) = {}
        BY DEF ToSet
      <4>2. Due(y) = ToSet(GraphOf[e])
        BY <1>5, <3>4, <4>1 DEF Due
      <4>3. DueThen(x) = Touches(e)
        BY <3>4 DEF DueThen
      <4>4. <<e, "signal">> \in y.warned
        BY <1>5, <3>4
      <4> QED
        BY <3>1, <3>2, <3>3, <4>2, <4>3, <4>4
    <3>5. CASE x.part = "graph"
      <4>1. Due(y) = {}
        BY <1>5, <3>5 DEF Due
      <4>2. DueThen(x) = ToSet(GraphOf[e])
        BY <3>5 DEF DueThen
      <4>3. <<e, "graph">> \in y.warned /\ (<<e, "signal">> \in y.warned <=> <<e, "signal">> \in x.warned)
        BY <1>5, <3>5
      <4> QED
        BY <3>1, <3>2, <3>3, <4>1, <4>2, <4>3
    <3> QED
      BY <1>6, <3>4, <3>5 DEF Parts
  <2>3. Own(y, Due(y), r) \subseteq x.normalized /\ Own(x, DueThen(x), r) \subseteq x.normalized
    BY <1>5 DEF Own, Counted
  <2> QED
    BY <2>1, <2>2, <2>3
<1>11. y.todo # <<>> => DueThen(y) = Due(y)
  BY <1>5 DEF DueThen, Due
<1>12. TxTallies(y, normalized, warned)
  <2>1. \A r \in Rows :
          Tallied(x.saved, r, Counted(r, normalized, warned), Own(x, DueThen(x), r))
    BY <1>1, <1>2 DEF TxTallies
  <2> QED
    BY <1>5, <1>10, <1>11, <2>1 DEF TxTallies
<1>13. \A c \in Batches \ {b} : DOMAIN y.rows \cap DOMAIN tx[c].rows = {}
  BY <1>1, <1>5, <1>6
<1> QED
  BY <1>2, <1>4, <1>5, <1>7, <1>8, <1>9, <1>12, <1>13, OneTransaction

(* The batch lands: its rows replace the committed ones they grew from, and*)
(* no other transaction held any of them.                                  *)
LEMMA CommitKeeps == ASSUME IngestInv, NEW b \in Batches, Commit(b) PROVE IngestInv'
<1> DEFINE x == tx[b]
           y == [Unsent EXCEPT !.pc = "landed"]
<1>1. /\ TxShape(x) /\ Progress(x, ContentOf[b]) /\ TxTallies(x, normalized, warned)
      /\ \A c \in Batches \ {b} : DOMAIN x.rows \cap DOMAIN tx[c].rows = {}
      /\ x.normalized \cap normalized = {}
  BY NotYetCommitted DEF IngestInv, IngestShape, ProgressInv, TallyInv, RowLocks
<1>2. /\ x.pc = "open" /\ x.todo = <<>> /\ x.left = <<>>
      /\ raw' = raw \union x.raw /\ normalized' = normalized \union x.normalized
      /\ warned' = warned \union x.warned
      /\ tx' = [tx EXCEPT ![b] = y]
      /\ rows' = [row \in DOMAIN x.rows \union DOMAIN rows |-> Seen(b, row)]
  BY DEF Commit
<1>3. /\ raw \subseteq Payloads /\ normalized \subseteq Payloads /\ IsFiniteSet(normalized)
      /\ Table(rows) /\ warned \subseteq normalized \X Parts /\ DOMAIN tx = Batches
      /\ \A c \in Batches : TxShape(tx[c])
  BY DEF IngestInv, IngestShape
<1>4. /\ DOMAIN tx' = Batches /\ tx'[b] = y
      /\ \A c \in Batches \ {b} : tx'[c] = tx[c]
  BY <1>2, <1>3
<1>5. TxShape(y)
  <2>1. IsFiniteSet({}) /\ DOMAIN <<>> = {}
    BY FS_EmptySet
  <2>2. TxShape(Unsent)
    BY <2>1, PayloadAssumption DEF TxShape, Unsent, Table, Parts
  <2>3. /\ DOMAIN y = DOMAIN Unsent /\ y.pc = "landed" /\ y.left = Unsent.left
        /\ y.raw = Unsent.raw /\ y.normalized = Unsent.normalized /\ y.rows = Unsent.rows
        /\ y.warned = Unsent.warned /\ y.event = Unsent.event /\ y.part = Unsent.part
        /\ y.todo = Unsent.todo /\ y.saved = Unsent.saved
    BY DEF Unsent
  <2> HIDE DEF y
  <2> QED
    BY <2>2, <2>3 DEF TxShape
<1>6. y.pc = "landed" /\ y.rows = <<>> /\ y.todo = <<>> /\ y.normalized = {} /\ DOMAIN y.rows = {}
  BY DEF Unsent
<1> HIDE DEF y
<1>7. /\ \A row \in DOMAIN x.rows : rows'[row] = x.rows[row]
      /\ \A row \in DOMAIN rows \ DOMAIN x.rows : rows'[row] = rows[row]
      /\ DOMAIN rows' = DOMAIN x.rows \union DOMAIN rows
  BY <1>2 DEF Seen
<1>8. IngestShape'
  <2>1. IsFiniteSet(normalized') /\ normalized' \subseteq Payloads /\ raw' \subseteq Payloads
    BY <1>1, <1>2, <1>3, FS_Union DEF TxShape
  <2>2. Table(rows')
    BY <1>1, <1>3, <1>7 DEF Table, TxShape
  <2>3. warned' \subseteq normalized' \X Parts
    BY <1>1, <1>2, <1>3 DEF TxShape
  <2> QED
    BY <1>3, <1>4, <1>5, <2>1, <2>2, <2>3 DEF IngestShape
<1>9. RowLocks'
  BY <1>4, <1>6 DEF RowLocks, IngestInv
<1>10. ProgressInv'
  <2>1. Progress(y, ContentOf[b]) /\ Steps(y)
    BY <1>6 DEF Progress, Steps
  <2> QED
    BY <1>4, <2>1 DEF ProgressInv, IngestInv
<1>11. Landed'
  <2>1. Taken(ContentOf[b], x.left) = ToSet(ContentOf[b])
    <3>1. DOMAIN ContentOf[b] = 1..Len(ContentOf[b]) /\ Len(ContentOf[b]) \in Nat
      BY PayloadAssumption
    <3>2. Len(ContentOf[b]) - Len(x.left) = Len(ContentOf[b])
      BY <1>2, <3>1
    <3> QED
      BY <3>1, <3>2 DEF Taken, ToSet
  <2>2. /\ x.raw = {p \in ToSet(ContentOf[b]) : KindOf[p] # "hostile"}
        /\ x.normalized = {p \in ToSet(ContentOf[b]) : KindOf[p] = "event"}
    BY <1>1, <1>2, <2>1 DEF Progress
  <2>3. Landed
    BY DEF IngestInv
  <2>4. \A c \in Batches : tx'[c].pc = "landed" <=> c = b \/ tx[c].pc = "landed"
    BY <1>2, <1>4, <1>6
  <2> QED
    BY <1>2, <2>2, <2>3, <2>4 DEF Landed
<1>12. ASSUME NEW row \in Rows
       PROVE  /\ Counted(row, normalized', warned')
                   = Counted(row, normalized, warned) \union Own(x, Due(x), row)
              /\ Tallied(rows, row, {}, Counted(row, normalized, warned))
              /\ Tallied(x.rows, row, Counted(row, normalized, warned), Own(x, Due(x), row))
  <2>1. Own(x, Due(x), row) = Counted(row, x.normalized, x.warned)
    BY <1>2 DEF Due, Own
  <2>2. Counted(row, normalized', warned')
          = Counted(row, normalized, warned) \union Counted(row, x.normalized, x.warned)
    <3>1. normalized \cap x.normalized = {} /\ x.warned \subseteq x.normalized \X Parts
      BY <1>1 DEF TxShape
    <3>2. warned \subseteq normalized \X Parts
      BY <1>3
    <3> HIDE DEF x
    <3>3. Counted(row, normalized \union x.normalized, warned \union x.warned)
            = Counted(row, normalized, warned) \union Counted(row, x.normalized, x.warned)
      <4>1. \A p \in normalized : \A part : <<p, part>> \notin x.warned
        BY <3>1
      <4>2. \A p \in x.normalized : \A part : <<p, part>> \notin warned
        BY <3>1, <3>2
      <4> QED
        BY <4>1, <4>2 DEF Counted
    <3> QED
      BY <1>2, <3>3
  <2> QED
    BY <1>1, <2>1, <2>2 DEF IngestInv, TallyInv, TxTallies
<1>13. ASSUME NEW row \in Rows
       PROVE  Tallied(rows', row, {}, Counted(row, normalized', warned'))
  <2> DEFINE before == Counted(row, normalized, warned)
             own == Own(x, Due(x), row)
  <2>1. /\ Counted(row, normalized', warned') = before \union own
        /\ Tallied(rows, row, {}, before) /\ Tallied(x.rows, row, before, own)
    BY <1>12
  <2> HIDE DEF before, own
  <2>2. {} \union (before \union own) = before \union own /\ {} \union before = before
    OBVIOUS
  <2>3. CASE row \in DOMAIN x.rows
    BY <1>7, <2>1, <2>2, <2>3 DEF Tallied
  <2>4. CASE row \notin DOMAIN x.rows
    <3>1. before \union own = before
      BY <2>1, <2>4 DEF Tallied
    <3> QED
      BY <1>7, <2>1, <2>2, <2>4, <3>1 DEF Tallied
  <2> QED
    BY <2>3, <2>4
<1>14. ASSUME NEW c \in Batches PROVE TxTallies(tx'[c], normalized', warned')
  <2>1. CASE c = b
    BY <1>4, <1>6, <2>1, NothingTallied
  <2>2. CASE c # b
    <3>1. TxTallies(tx[c], normalized, warned) /\ Steps(tx[c]) /\ tx'[c] = tx[c]
      BY <1>4, <2>2 DEF IngestInv, TallyInv, ProgressInv
    <3>2. ASSUME NEW row \in Rows, row \in DOMAIN tx[c].rows
          PROVE  Counted(row, normalized', warned') = Counted(row, normalized, warned)
      <4>1. row \notin DOMAIN x.rows
        BY <1>1, <2>2, <3>2
      <4> QED
        BY <1>12, <4>1 DEF Tallied
    <3>3. tx[c].todo # <<>> => DOMAIN tx[c].saved \subseteq DOMAIN tx[c].rows
      BY <3>1 DEF Steps
    <3> QED
      BY <3>1, <3>2, <3>3 DEF TxTallies, Tallied
  <2> QED
    BY <2>1, <2>2
<1> QED
  BY <1>8, <1>9, <1>10, <1>11, <1>13, <1>14 DEF IngestInv, TallyInv

LEMMA NextIngest == IngestInv /\ [Next]_vars => IngestInv'
<1> SUFFICES ASSUME IngestInv, [Next]_vars PROVE IngestInv'
  OBVIOUS
<1>1. CASE UNCHANGED vars
  BY <1>1 DEF vars, IngestInv, IngestShape, RowLocks, ProgressInv, Landed, TallyInv
<1>2. CASE Next
  BY <1>2, BeginKeeps, StoreKeeps, UpsertKeeps, SavepointFailsKeeps, CommitKeeps, RollbackKeeps
     DEF Next
<1> QED
  BY <1>1, <1>2

(* What each transaction holds and what is committed fit together, from    *)
(* the first upsert of a batch to its commit or rollback.                  *)
THEOREM IngestInvariant == Spec => []IngestInv
<1> QED
  BY InitIngest, NextIngest, PTL DEF Spec
-----------------------------------------------------------------------------
(* "the rest of the batch lands": whatever a batch holds and whatever       *)
(* deadlocks it meets, once it is accepted everything that could be stored *)
(* or normalized is, and nothing else.                                     *)
THEOREM EveryBatchLands == Spec => []BatchLands
<1>1. IngestInv => BatchLands
  <2> SUFFICES ASSUME IngestInv, NEW b \in Batches, tx[b].pc = "landed", NEW p \in ToSet(ContentOf[b])
               PROVE  (p \in raw <=> KindOf[p] # "hostile") /\ (p \in normalized <=> KindOf[p] = "event")
    BY DEF BatchLands
  <2> QED
    BY DEF IngestInv, Landed
<1> QED
  BY <1>1, IngestInvariant, PTL

(* What a row's own count says, for the part of the batch it belongs to.   *)
LEMMA RowsCount ==
  ASSUME IngestInv
  PROVE  /\ \A s \in Signals :
              Counted(s, normalized, warned)
                = {p \in normalized : SignalOf[p] = s /\ <<p, "signal">> \notin warned}
         /\ \A l \in Links :
              Counted(l, normalized, warned)
                = {p \in normalized : l \in ToSet(GraphOf[p]) /\ <<p, "graph">> \notin warned}
         /\ \A row \in DOMAIN rows :
              /\ row \in Rows
              /\ Describes(row, rows[row], Counted(row, normalized, warned))
<1>1. normalized \subseteq Payloads /\ DOMAIN rows \subseteq Rows
  BY DEF IngestInv, IngestShape, Table
<1>2. \A row \in DOMAIN rows : Describes(row, rows[row], Counted(row, normalized, warned))
  <2>1. \A P : {} \union P = P
    OBVIOUS
  <2> QED
    BY <1>1, <2>1 DEF IngestInv, TallyInv, Tallied
<1>3. \A s \in Signals :
        Counted(s, normalized, warned)
          = {p \in normalized : SignalOf[p] = s /\ <<p, "signal">> \notin warned}
  <2>1. ASSUME NEW s \in Signals, NEW p \in normalized PROVE s \in Touches(p) <=> SignalOf[p] = s
    BY <1>1, RowsOfEvents DEF Touches
  <2> QED
    BY <2>1 DEF Counted, PartOf
<1>4. \A l \in Links :
        Counted(l, normalized, warned)
          = {p \in normalized : l \in ToSet(GraphOf[p]) /\ <<p, "graph">> \notin warned}
  <2>1. \A l \in Links : l \notin Signals
    BY RowsOfEvents
  <2>2. ASSUME NEW l \in Links, NEW p \in normalized PROVE l \in Touches(p) <=> l \in ToSet(GraphOf[p])
    BY <1>1, <2>1, RowsOfEvents DEF Touches
  <2> QED
    BY <2>1, <2>2 DEF Counted, PartOf
<1> QED
  BY <1>1, <1>2, <1>3, <1>4

(* "atomic increment, no read-modify-write race": with any number of        *)
(* batches at once, a signal's count is the number of its events, less     *)
(* those whose failure was logged.                                         *)
THEOREM SignalsCount == Spec => []SignalsCountEvents
<1>1. IngestInv => SignalsCountEvents
  BY RowsCount DEF SignalsCountEvents, Describes
<1> QED
  BY <1>1, IngestInvariant, PTL

(* A piece of graph is written whole or not at all: the observation counts *)
(* are those of the events whose graph did not fail.                       *)
THEOREM GraphsCount == Spec => []GraphsAreWhole
<1>1. IngestInv => GraphsAreWhole
  BY RowsCount DEF GraphsAreWhole, Describes
<1> QED
  BY <1>1, IngestInvariant, PTL

(* LEAST and GREATEST: whatever order events are ingested in, the span of a*)
(* signal holds every event it counts, and an event whose aggregation was  *)
(* not logged as failed has its signal.                                    *)
THEOREM SpansHold == Spec => []SpansHoldEvents
<1>1. IngestInv => SpansHoldEvents
  <2> SUFFICES ASSUME IngestInv, NEW p \in normalized, <<p, "signal">> \notin warned
               PROVE  /\ SignalOf[p] \in DOMAIN rows
                      /\ rows[SignalOf[p]].first <= TimeOf[p] /\ TimeOf[p] <= rows[SignalOf[p]].last
    BY DEF SpansHoldEvents
  <2>1. p \in Payloads /\ SignalOf[p] \in Signals /\ SignalOf[p] \in Rows
    BY RowsOfEvents DEF IngestInv, IngestShape, Touches
  <2>2. p \in Counted(SignalOf[p], normalized, warned)
    BY <2>1, RowsCount
  <2>3. SignalOf[p] \in DOMAIN rows
    BY <2>1, <2>2 DEF IngestInv, TallyInv, Tallied
  <2> QED
    BY <2>1, <2>2, <2>3, RowsCount DEF Describes
<1> QED
  BY <1>1, IngestInvariant, PTL

(* Every variable keeps its type, and no two transactions hold one row:    *)
(* whoever upserts a signal or an entity has it alone until it commits or  *)
(* its savepoint is rolled back.                                           *)
THEOREM RowsAreHeldApart == Spec => []TypeOK
<1>1. IngestInv => TypeOK
  <2> SUFFICES ASSUME IngestInv PROVE TypeOK
    OBVIOUS
  <2>1. /\ raw \subseteq Payloads /\ normalized \subseteq Payloads
        /\ DOMAIN rows \subseteq Rows /\ \A row \in DOMAIN rows : rows[row] \in Columns
    BY DEF IngestInv, IngestShape, Table
  <2>2. warned \subseteq Payloads \X {"signal", "graph"}
    BY DEF IngestInv, IngestShape, Parts
  <2>3. ASSUME NEW b \in Batches
        PROVE  /\ tx[b].pc \in {"unsent", "open", "landed"}
               /\ DOMAIN tx[b].rows \subseteq Rows
               /\ \A c \in Batches \ {b} : DOMAIN tx[b].rows \cap DOMAIN tx[c].rows = {}
    BY DEF IngestInv, IngestShape, TxShape, Table, RowLocks
  <2> QED
    BY <2>1, <2>2, <2>3 DEF TypeOK
<1> QED
  BY <1>1, IngestInvariant, PTL
=============================================================================
