--------------------------- MODULE EvidenceProofs ---------------------------
(***************************************************************************)
(* Correlation and triage never undo each other, for any number of         *)
(* concurrent correlators and analysts, any events and any windows.        *)
(*                                                                         *)
(* The first part is about the walk of correlate_tenant: for every finite  *)
(* set of events and every window, two events end up in one cluster        *)
(* exactly when no silence longer than the window lies between them, and   *)
(* no two clusters overlap.  The walk is a recursive function over the     *)
(* rows; its two inductions, that there is such a function and that its    *)
(* clusters are sound after each row, are arguments by a least             *)
(* counterexample.                                                         *)
(*                                                                         *)
(* The argument of the second part is the row lock: a row in a             *)
(* correlator's uncommitted DELETE is open, stays open, and is in no other *)
(* correlator's DELETE.                                                    *)
(***************************************************************************)
EXTENDS EvidenceDependents, FiniteSetTheorems, SequenceTheorems, WellFoundedInduction, TLAPS

(* A set of naturals has a least element.                                  *)
LEMMA LeastExists ==
  ASSUME NEW T, T \subseteq Nat, T # {}
  PROVE  \E m \in T : \A n \in T : m <= n
<1>1. PICK m \in T : \A n \in T : <<n, m>> \notin OpToRel(<, Nat)
  BY NatLessThanWellFounded, WFMin
<1>2. ASSUME NEW n \in T PROVE m <= n
  <2>1. <<n, m>> \in Nat \X Nat /\ ~(n < m)
    BY <1>1 DEF OpToRel
  <2> QED BY <2>1
<1> QED BY <1>2

(* A nonempty finite set of sets of elements of S has a least one.         *)
LEMMA LeastSubset ==
  ASSUME NEW S, IsFiniteSet(S), NEW Sets, Sets \subseteq SUBSET S, Sets # {}
  PROVE  \E least \in Sets : \A other \in Sets : ~(other \subseteq least /\ other # least)
<1>1. Sets \subseteq FiniteSubsetsOf(S)
  BY FS_Subset DEF FiniteSubsetsOf
<1>2. PICK least \in Sets : \A other \in Sets : <<other, least>> \notin StrictSubsetOrdering(S)
  BY <1>1, FS_StrictSubsetOrderingWellFounded, WFMin
<1> QED BY <1>2 DEF StrictSubsetOrdering
-----------------------------------------------------------------------------
LEMMA BeforeOrder ==
  /\ \A e \in Events : ~RowBefore(e, e)
  /\ \A e, f, g \in Events : RowBefore(e, f) /\ RowBefore(f, g) => RowBefore(e, g)
  /\ \A e, f, g \in Events : RowBefore(e, g) => RowBefore(e, f) \/ RowBefore(f, g)
BY EventsAssumption DEF RowBefore

(* Some row comes last.                                                    *)
LEMMA LatestRow ==
  ASSUME NEW picked, picked \subseteq Events, IsFiniteSet(picked), picked # {}
  PROVE  \E e \in picked : \A f \in picked : ~RowBefore(e, f)
<1> DEFINE Later(e) == {f \in picked : RowBefore(e, f)}
           Laters == {Later(e) : e \in picked}
<1>1. Laters \subseteq SUBSET picked /\ Laters # {}
  OBVIOUS
<1>2. PICK least \in Laters : \A other \in Laters : ~(other \subseteq least /\ other # least)
  <2> HIDE DEF Laters
  <2> QED BY <1>1, LeastSubset
<1>3. PICK e \in picked : least = Later(e)
  OBVIOUS
<1>4. ASSUME NEW f \in picked, RowBefore(e, f) PROVE FALSE
  <2>1. Later(f) \subseteq Later(e)
    BY <1>4, BeforeOrder
  <2>2. f \in Later(e) /\ f \notin Later(f)
    BY <1>4, BeforeOrder
  <2> QED BY <1>2, <1>3, <2>1, <2>2
<1> QED BY <1>4

(* ORDER BY can be obeyed.                                                 *)
Sortable(picked) ==
  \E rows \in [1 .. Cardinality(picked) -> picked] : IsInjective(rows) /\ InOrder(rows)

LEMMA RowsSortable ==
  ASSUME NEW picked, picked \subseteq Events, IsFiniteSet(picked)
  PROVE  Sortable(picked)
<1> DEFINE Bad == {sub \in SUBSET picked : ~Sortable(sub)}
<1> SUFFICES ASSUME Bad # {} PROVE FALSE
  OBVIOUS
<1>1. PICK sub \in Bad : \A other \in Bad : ~(other \subseteq sub /\ other # sub)
  <2>1. Bad \subseteq SUBSET picked
    OBVIOUS
  <2> HIDE DEF Bad
  <2> QED BY <2>1, LeastSubset
<1>2. sub \subseteq Events /\ IsFiniteSet(sub)
  BY FS_Subset
<1>3. CASE sub = {}
  <2>1. Cardinality(sub) = 0
    BY <1>3, FS_EmptySet
  <2> DEFINE none == [n \in 1 .. 0 |-> 0]
  <2>2. none \in [1 .. Cardinality(sub) -> sub] /\ IsInjective(none) /\ InOrder(none)
    BY <2>1 DEF IsInjective, InOrder
  <2> QED BY <2>2 DEF Sortable
<1>4. CASE sub # {}
  <2>1. PICK last \in sub : \A f \in sub : ~RowBefore(last, f)
    BY <1>2, <1>4, LatestRow
  <2> DEFINE rest == sub \ {last}
             n == Cardinality(rest)
  <2>2. n \in Nat /\ Cardinality(sub) = n + 1
    <3>1. Cardinality(rest) = Cardinality(sub) - 1 /\ IsFiniteSet(rest)
      BY <1>2, FS_RemoveElement
    <3>2. Cardinality(rest) \in Nat /\ Cardinality(sub) \in Nat
      BY <1>2, <3>1, FS_CardinalityType
    <3> HIDE DEF rest
    <3> QED BY <3>1, <3>2
  <2>3. PICK rows \in [1 .. n -> rest] : IsInjective(rows) /\ InOrder(rows)
    <3>1. rest \in SUBSET picked /\ rest \subseteq sub /\ rest # sub
      BY <2>1
    <3>2. Sortable(rest)
      <4> HIDE DEF rest
      <4> QED BY <1>1, <3>1
    <3> QED BY <3>2 DEF Sortable
  <2> HIDE DEF n
  <2> DEFINE all == [i \in 1 .. n + 1 |-> IF i = n + 1 THEN last ELSE rows[i]]
  <2>4. all \in [1 .. n + 1 -> sub]
    BY <2>2
  <2>5. IsInjective(all)
    BY <2>2, <2>3 DEF IsInjective
  <2>6. InOrder(all)
    <3> SUFFICES ASSUME NEW i \in 1 .. n + 1, NEW j \in 1 .. n + 1, i < j
                 PROVE  ~RowBefore(all[j], all[i])
      BY DEF InOrder
    <3>1. i \in 1 .. n /\ all[i] = rows[i] /\ rows[i] \in sub
      BY <2>2
    <3>2. CASE j = n + 1
      BY <2>1, <3>1, <3>2
    <3>3. CASE j # n + 1
      BY <2>2, <2>3, <3>1, <3>3 DEF InOrder
    <3> QED BY <3>2, <3>3
  <2> QED BY <2>2, <2>4, <2>5, <2>6 DEF Sortable
<1> QED BY <1>3, <1>4

(* The rows are all the events, each once, in order.                       *)
LEMMA RowsOf ==
  ASSUME NEW picked, picked \subseteq Events, IsFiniteSet(picked)
  PROVE  /\ Cardinality(picked) \in Nat
         /\ Rows(picked) \in [1 .. Cardinality(picked) -> picked]
         /\ InOrder(Rows(picked))
         /\ \A e \in picked : \E n \in 1 .. Cardinality(picked) : Rows(picked)[n] = e
<1> DEFINE N == Cardinality(picked)
           rows == Rows(picked)
<1>1. N \in Nat
  BY FS_CardinalityType
<1>2. rows \in [1 .. N -> picked] /\ IsInjective(rows) /\ InOrder(rows)
  BY RowsSortable DEF Sortable, Rows
<1>3. rows \in Injection(1 .. N, picked)
  BY <1>2 DEF Injection
<1>4. Cardinality(1 .. N) = N
  BY <1>1, FS_Interval
<1>5. rows \in Surjection(1 .. N, picked)
  <2> HIDE DEF rows
  <2> QED BY <1>3, <1>4, FS_Injection
<1> QED BY <1>1, <1>2, <1>5 DEF Surjection
-----------------------------------------------------------------------------
(* The clusters after each of the first m rows.                            *)
Walked(w, rows, window, m) ==
  w = [n \in 0 .. m |-> IF n = 0 THEN <<>> ELSE Step(w[n - 1], rows[n], window)]

(* The walk exists, however many rows there are.                           *)
LEMMA WalkExists ==
  ASSUME NEW rows, NEW window, NEW N \in Nat
  PROVE  \E w : Walked(w, rows, window, N)
<1> DEFINE Bad == {m \in Nat : ~\E w : Walked(w, rows, window, m)}
<1> SUFFICES ASSUME Bad # {} PROVE FALSE
  OBVIOUS
<1>1. PICK m \in Bad : \A n \in Bad : m <= n
  <2>1. Bad \subseteq Nat
    OBVIOUS
  <2> HIDE DEF Bad
  <2> QED BY <2>1, LeastExists
<1>2. CASE m = 0
  <2> DEFINE w == [n \in 0 .. 0 |-> <<>>]
  <2>1. Walked(w, rows, window, 0)
    BY DEF Walked
  <2> QED BY <1>2, <2>1
<1>3. CASE m # 0
  <2>1. m - 1 \in Nat /\ ~(m <= m - 1)
    BY <1>3
  <2>2. PICK w : Walked(w, rows, window, m - 1)
    BY <1>1, <2>1
  <2> DEFINE next == [n \in 0 .. m |-> IF n = m THEN Step(w[m - 1], rows[m], window) ELSE w[n]]
  <2>3. ASSUME NEW n \in 0 .. m
        PROVE  next[n] = IF n = 0 THEN <<>> ELSE Step(next[n - 1], rows[n], window)
    <3>1. CASE n = m
      <4>1. next[n - 1] = w[n - 1] /\ next[n] = Step(w[n - 1], rows[n], window)
        BY <1>3, <3>1
      <4> QED BY <1>3, <3>1, <4>1
    <3>2. CASE n # m
      <4>1. n \in 0 .. m - 1 /\ next[n] = w[n]
        BY <3>2
      <4>2. w[n] = IF n = 0 THEN <<>> ELSE Step(w[n - 1], rows[n], window)
        BY <2>2, <4>1 DEF Walked
      <4>3. n # 0 => next[n - 1] = w[n - 1]
        BY <4>1
      <4> HIDE DEF next
      <4> QED BY <4>1, <4>2, <4>3
    <3> QED BY <3>1, <3>2
  <2>4. Walked(next, rows, window, m)
    BY <2>3 DEF Walked
  <2> QED BY <2>4
<1> QED BY <1>2, <1>3

LEMMA WalkUnfolds ==
  ASSUME NEW rows, NEW window, Len(rows) \in Nat
  PROVE  Walked(Walk(rows, window), rows, window, Len(rows))
BY WalkExists DEF Walked, Walk
-----------------------------------------------------------------------------
ClusterType == [host : Nat, start : Nat, end : Nat, events : SUBSET Events]

(* One host's activity from start to end, without a silence.               *)
Chained(c, window) ==
  /\ c.start <= c.end
  /\ \A e \in c.events : HostOf[e] = c.host /\ c.start <= TimeOf[e] /\ TimeOf[e] <= c.end
  /\ (\E e \in c.events : TimeOf[e] = c.start) /\ \E e \in c.events : TimeOf[e] = c.end
  /\ \A e \in c.events : TimeOf[e] < c.end =>
       \E f \in c.events : TimeOf[e] < TimeOf[f] /\ TimeOf[f] - TimeOf[e] <= window

(* A silence lies between the two, unless they are of two hosts.           *)
Apart(c, d, window) == c.host < d.host \/ (c.host = d.host /\ d.start - c.end > window)

(* The clusters after n rows.                                              *)
Sound(clusters, rows, n, window) ==
  /\ clusters \in Seq(ClusterType)
  /\ \A p \in 1 .. Len(clusters) : Chained(clusters[p], window)
  /\ \A p, q \in 1 .. Len(clusters) : p < q => Apart(clusters[p], clusters[q], window)
  /\ \A p \in 1 .. Len(clusters) : \A e \in clusters[p].events : \E i \in 1 .. n : rows[i] = e
  /\ \A i \in 1 .. n : \E p \in 1 .. Len(clusters) : rows[i] \in clusters[p].events
  /\ n = 0 => clusters = <<>>
  /\ n > 0 => /\ Len(clusters) > 0
              /\ clusters[Len(clusters)].host = HostOf[rows[n]]
              /\ clusters[Len(clusters)].end = TimeOf[rows[n]]

LEMMA EventFacts ==
  ASSUME NEW e \in Events
  PROVE  HostOf[e] \in Nat /\ TimeOf[e] \in Nat
BY EventsAssumption

LEMMA OpeningIsChained ==
  ASSUME NEW e \in Events, NEW window \in Nat
  PROVE  Opening(e) \in ClusterType /\ Chained(Opening(e), window)
BY EventFacts DEF Opening, ClusterType, Chained

(* A row close enough extends the cluster.                                 *)
LEMMA ExtendedIsChained ==
  ASSUME NEW c \in ClusterType, NEW e \in Events, NEW window \in Nat, Chained(c, window),
         HostOf[e] = c.host, c.end <= TimeOf[e], TimeOf[e] - c.end <= window
  PROVE  Extended(c, e) \in ClusterType /\ Chained(Extended(c, e), window)
<1> DEFINE d == Extended(c, e)
<1>1. /\ d \in ClusterType
      /\ d.host = c.host /\ d.start = c.start /\ d.end = TimeOf[e]
      /\ d.events = c.events \union {e}
  BY EventFacts DEF ClusterType, Extended
<1>2. /\ c.start \in Nat /\ c.end \in Nat /\ TimeOf[e] \in Nat
      /\ \A f \in c.events : TimeOf[f] \in Nat
  BY EventFacts DEF ClusterType
<1> HIDE DEF d
<1>3. d.start <= d.end
  BY <1>1, <1>2 DEF Chained
<1>4. \A f \in d.events : HostOf[f] = d.host /\ d.start <= TimeOf[f] /\ TimeOf[f] <= d.end
  BY <1>1, <1>2, <1>3 DEF Chained
<1>5. ASSUME NEW f \in d.events, TimeOf[f] < d.end
      PROVE  \E g \in d.events : TimeOf[f] < TimeOf[g] /\ TimeOf[g] - TimeOf[f] <= window
  <2>1. f \in c.events /\ TimeOf[f] <= c.end /\ TimeOf[f] \in Nat
    BY <1>1, <1>2, <1>5 DEF Chained
  <2>2. CASE TimeOf[f] = c.end
    BY <1>1, <1>2, <1>5, <2>2
  <2>3. CASE TimeOf[f] < c.end
    BY <1>1, <2>1, <2>3 DEF Chained
  <2> QED BY <1>2, <2>1, <2>2, <2>3
<1>6. Chained(d, window)
  BY <1>1, <1>3, <1>4, <1>5 DEF Chained
<1> QED BY <1>1, <1>6 DEF d

(* The next row opens a cluster.                                           *)
LEMMA OpeningKeepsSound ==
  ASSUME NEW rows, NEW n \in Nat, NEW window \in Nat, NEW clusters,
         Sound(clusters, rows, n, window), rows[n + 1] \in Events,
         n > 0 => rows[n] \in Events /\ ~RowBefore(rows[n + 1], rows[n]),
         n = 0 \/ Breaks(clusters[Len(clusters)], rows[n + 1], window)
  PROVE  Sound(Append(clusters, Opening(rows[n + 1])), rows, n + 1, window)
<1> DEFINE e == rows[n + 1]
           c == Opening(e)
           L == Len(clusters)
           new == Append(clusters, c)
<1>1. /\ c \in ClusterType /\ Chained(c, window)
      /\ c.host = HostOf[e] /\ c.start = TimeOf[e] /\ c.end = TimeOf[e] /\ c.events = {e}
  BY OpeningIsChained DEF Opening
<1>2. clusters \in Seq(ClusterType) /\ L \in Nat
  BY DEF Sound
<1>3. /\ new \in Seq(ClusterType) /\ Len(new) = L + 1
      /\ new[L + 1] = c /\ \A p \in 1 .. L : new[p] = clusters[p]
  <2> HIDE DEF c
  <2> QED BY <1>1, <1>2, AppendProperties
<1>4. \A p \in 1 .. L : clusters[p] \in ClusterType
  BY <1>2
<1>5. ASSUME NEW p \in 1 .. L PROVE Apart(clusters[p], c, window)
  <2> DEFINE last == clusters[L]
  <2>1. n > 0 /\ L > 0
    BY <1>2, <1>5 DEF Sound
  <2>2. /\ HostOf[rows[n]] = last.host /\ TimeOf[rows[n]] = last.end
        /\ last.host \in Nat /\ last.start \in Nat /\ last.end \in Nat /\ last.start <= last.end
    <3>1. L \in 1 .. L /\ last \in ClusterType
      BY <1>2, <1>4, <2>1
    <3>2. Chained(last, window) /\ last.host = HostOf[rows[n]] /\ last.end = TimeOf[rows[n]]
      BY <2>1, <3>1 DEF Sound
    <3> HIDE DEF last
    <3> QED BY <3>1, <3>2 DEF Chained, ClusterType
  <2>3. HostOf[e] \in Nat /\ TimeOf[e] \in Nat
    BY EventFacts
  <2>4. HostOf[e] # last.host \/ TimeOf[e] - last.end > window
    BY <2>1 DEF Breaks
  <2>5. last.host < HostOf[e] \/ (last.host = HostOf[e] /\ TimeOf[e] - last.end > window)
    BY <2>1, <2>2, <2>3, <2>4 DEF RowBefore
  <2>6. CASE p = L
    BY <1>1, <2>5, <2>6 DEF Apart
  <2>7. CASE p # L
    <3>1. clusters[p].host \in Nat /\ clusters[p].end \in Nat
      BY <1>4 DEF ClusterType
    <3>2. Apart(clusters[p], last, window)
      BY <1>2, <1>5, <2>1, <2>7 DEF Sound
    <3> HIDE DEF last, c, e
    <3>3. CASE clusters[p].host < last.host
      BY <1>1, <2>2, <2>3, <2>5, <3>1, <3>3 DEF Apart
    <3>4. CASE clusters[p].host = last.host /\ last.start - clusters[p].end > window
      BY <1>1, <2>2, <2>3, <2>5, <3>1, <3>4 DEF Apart
    <3> QED BY <3>2, <3>3, <3>4 DEF Apart
  <2> QED BY <2>6, <2>7
<1> HIDE DEF new, c
<1>6. \A p \in 1 .. Len(new) : Chained(new[p], window)
  BY <1>1, <1>2, <1>3 DEF Sound
<1>7. \A p, q \in 1 .. Len(new) : p < q => Apart(new[p], new[q], window)
  <2> SUFFICES ASSUME NEW p \in 1 .. L + 1, NEW q \in 1 .. L + 1, p < q
               PROVE  Apart(new[p], new[q], window)
    BY <1>3
  <2>1. p \in 1 .. L
    BY <1>2
  <2>2. CASE q = L + 1
    BY <1>3, <1>5, <2>1, <2>2
  <2>3. CASE q # L + 1
    <3>1. q \in 1 .. L /\ new[p] = clusters[p] /\ new[q] = clusters[q]
      BY <1>2, <1>3, <2>1, <2>3
    <3> HIDE DEF L
    <3> QED BY <2>1, <3>1 DEF Sound, L
  <2> QED BY <2>2, <2>3
<1>8. ASSUME NEW p \in 1 .. Len(new), NEW f \in new[p].events PROVE \E i \in 1 .. n + 1 : rows[i] = f
  <2>1. CASE p = L + 1
    BY <1>1, <1>3, <1>8, <2>1
  <2>2. CASE p # L + 1
    <3>1. p \in 1 .. L /\ f \in clusters[p].events
      BY <1>2, <1>3, <1>8, <2>2
    <3>2. PICK i \in 1 .. n : rows[i] = f
      BY <3>1 DEF Sound
    <3> QED BY <3>2
  <2> QED BY <2>1, <2>2
<1>9. ASSUME NEW i \in 1 .. n + 1 PROVE \E p \in 1 .. Len(new) : rows[i] \in new[p].events
  <2>1. CASE i = n + 1
    BY <1>1, <1>2, <1>3, <2>1
  <2>2. CASE i # n + 1
    <3>1. PICK p \in 1 .. L : rows[i] \in clusters[p].events
      BY <1>9, <2>2 DEF Sound
    <3> QED BY <1>2, <1>3, <3>1
  <2> QED BY <2>1, <2>2
<1>10. n + 1 > 0 /\ Len(new) > 0 /\ new[Len(new)].host = HostOf[e] /\ new[Len(new)].end = TimeOf[e]
  BY <1>1, <1>2, <1>3
<1> HIDE DEF L
<1>11. Sound(new, rows, n + 1, window)
  BY <1>3, <1>6, <1>7, <1>8, <1>9, <1>10 DEF Sound
<1> QED BY <1>11 DEF new, c

(* The next row extends the last cluster.                                  *)
LEMMA ExtendingKeepsSound ==
  ASSUME NEW rows, NEW n \in Nat, n > 0, NEW window \in Nat, NEW clusters,
         Sound(clusters, rows, n, window), rows[n + 1] \in Events, rows[n] \in Events,
         ~RowBefore(rows[n + 1], rows[n]),
         ~Breaks(clusters[Len(clusters)], rows[n + 1], window)
  PROVE  Sound([clusters EXCEPT ![Len(clusters)] = Extended(@, rows[n + 1])], rows, n + 1, window)
<1> DEFINE e == rows[n + 1]
           L == Len(clusters)
           last == clusters[L]
           c == Extended(last, e)
           new == [clusters EXCEPT ![L] = c]
<1>1. clusters \in Seq(ClusterType) /\ L \in Nat /\ L \in 1 .. L
  BY DEF Sound
<1>2. \A p \in 1 .. L : clusters[p] \in ClusterType
  BY <1>1
<1>3. /\ Chained(last, window) /\ HostOf[rows[n]] = last.host /\ TimeOf[rows[n]] = last.end
      /\ last \in ClusterType
  BY <1>1, <1>2 DEF Sound
<1>4. HostOf[e] = last.host /\ last.end <= TimeOf[e] /\ TimeOf[e] - last.end <= window
  <2>1. /\ HostOf[e] \in Nat /\ TimeOf[e] \in Nat /\ last.host \in Nat /\ last.end \in Nat
        /\ HostOf[e] = last.host /\ ~(TimeOf[e] - last.end > window)
        /\ ~(TimeOf[e] < last.end)
    BY <1>3, EventFacts DEF Breaks, RowBefore, ClusterType
  <2> HIDE DEF last, e
  <2> QED BY <2>1
<1>5. c \in ClusterType /\ Chained(c, window)
  <2> HIDE DEF last, e
  <2> QED BY <1>3, <1>4, ExtendedIsChained DEF e
<1>6. /\ c.host = last.host /\ c.start = last.start /\ c.end = TimeOf[e]
      /\ c.events = last.events \union {e}
  BY <1>3 DEF Extended, ClusterType
<1>7. /\ new \in Seq(ClusterType) /\ Len(new) = L /\ new[L] = c
      /\ \A p \in 1 .. L : p # L => new[p] = clusters[p]
  <2> HIDE DEF c, L
  <2> QED BY <1>1, <1>5, ExceptSeq DEF L
<1> HIDE DEF new, c
<1>8. \A p \in 1 .. Len(new) : Chained(new[p], window)
  BY <1>5, <1>7 DEF Sound
<1>9. \A p \in 1 .. L : new[p].host = clusters[p].host /\ new[p].start = clusters[p].start
  BY <1>6, <1>7
<1>10. \A p, q \in 1 .. Len(new) : p < q => Apart(new[p], new[q], window)
  <2> SUFFICES ASSUME NEW p \in 1 .. L, NEW q \in 1 .. L, p < q
               PROVE  Apart(new[p], new[q], window)
    BY <1>7
  <2>1. p # L /\ new[p] = clusters[p] /\ Apart(clusters[p], clusters[q], window)
    BY <1>1, <1>7 DEF Sound
  <2>2. new[q].host = clusters[q].host /\ new[q].start = clusters[q].start
    BY <1>9
  <2> QED BY <2>1, <2>2 DEF Apart
<1>11. ASSUME NEW p \in 1 .. Len(new), NEW f \in new[p].events PROVE \E i \in 1 .. n + 1 : rows[i] = f
  <2>1. CASE f = e
    BY <2>1
  <2>2. CASE f # e
    <3>1. p \in 1 .. L /\ f \in clusters[p].events
      BY <1>6, <1>7, <1>11, <2>2
    <3>2. PICK i \in 1 .. n : rows[i] = f
      BY <3>1 DEF Sound
    <3> QED BY <3>2
  <2> QED BY <2>1, <2>2
<1>12. ASSUME NEW i \in 1 .. n + 1 PROVE \E p \in 1 .. Len(new) : rows[i] \in new[p].events
  <2>1. CASE i = n + 1
    BY <1>1, <1>6, <1>7, <2>1
  <2>2. CASE i # n + 1
    <3>1. PICK p \in 1 .. L : rows[i] \in clusters[p].events
      BY <1>12, <2>2 DEF Sound
    <3>2. rows[i] \in new[p].events
      BY <1>6, <1>7, <3>1
    <3> QED BY <1>7, <3>1, <3>2
  <2> QED BY <2>1, <2>2
<1>13. n + 1 > 0 /\ Len(new) > 0 /\ new[Len(new)].host = HostOf[e] /\ new[Len(new)].end = TimeOf[e]
  BY <1>1, <1>4, <1>6, <1>7
<1> HIDE DEF L
<1>14. Sound(new, rows, n + 1, window)
  BY <1>7, <1>8, <1>10, <1>11, <1>12, <1>13 DEF Sound
<1> QED BY <1>14 DEF new, c, L

(* The clusters are sound after each of the rows.                          *)
LEMMA WalkIsSound ==
  ASSUME NEW picked, picked \subseteq Events, IsFiniteSet(picked), NEW window \in Nat
  PROVE  LET rows == Rows(picked)
         IN  Sound(Walk(rows, window)[Len(rows)], rows, Len(rows), window)
<1> DEFINE rows == Rows(picked)
           w == Walk(rows, window)
           N == Cardinality(picked)
<1>1. N \in Nat /\ rows \in [1 .. N -> picked] /\ InOrder(rows)
  BY RowsOf
<1> HIDE DEF rows
<1>2. rows \in Seq(picked) /\ Len(rows) = N
  BY <1>1
<1>3. Walked(w, rows, window, N)
  BY <1>1, <1>2, WalkUnfolds
<1> HIDE DEF w, N
<1> DEFINE Bad == {n \in 0 .. N : ~Sound(w[n], rows, n, window)}
<1>4. ASSUME Bad # {} PROVE FALSE
  <2>1. PICK n \in Bad : \A m \in Bad : n <= m
    <3>1. Bad \subseteq Nat
      OBVIOUS
    <3> HIDE DEF Bad
    <3> QED BY <1>4, <3>1, LeastExists
  <2>2. n \in 0 .. N
    OBVIOUS
  <2>3. w[n] = IF n = 0 THEN <<>> ELSE Step(w[n - 1], rows[n], window)
    BY <1>3, <2>2 DEF Walked
  <2>4. CASE n = 0
    <3>1. Sound(<<>>, rows, 0, window)
      BY DEF Sound
    <3> QED BY <2>3, <2>4, <3>1
  <2>5. CASE n # 0
    <3> DEFINE m == n - 1
               clusters == w[m]
    <3>1. m \in 0 .. N /\ m \in Nat /\ n = m + 1 /\ ~(n <= m)
      BY <1>1, <2>2, <2>5
    <3>2. Sound(clusters, rows, m, window)
      BY <2>1, <3>1
    <3>3. rows[m + 1] \in Events /\ (m > 0 => rows[m] \in Events /\ ~RowBefore(rows[m + 1], rows[m]))
      BY <1>1, <2>2, <3>1 DEF InOrder
    <3>4. w[m + 1] = Step(clusters, rows[m + 1], window)
      BY <2>3, <2>5, <3>1
    <3> HIDE DEF m, clusters
    <3>5. (clusters = <<>> <=> m = 0) /\ Last(clusters) = clusters[Len(clusters)]
      BY <3>1, <3>2 DEF Sound, Last
    <3>6. Sound(w[m + 1], rows, m + 1, window)
      <4>1. CASE m = 0 \/ Breaks(clusters[Len(clusters)], rows[m + 1], window)
        <5>1. Step(clusters, rows[m + 1], window) = Append(clusters, Opening(rows[m + 1]))
          BY <3>5, <4>1 DEF Step
        <5> QED BY <3>1, <3>2, <3>3, <3>4, <4>1, <5>1, OpeningKeepsSound
      <4>2. CASE m # 0 /\ ~Breaks(clusters[Len(clusters)], rows[m + 1], window)
        <5>1. Step(clusters, rows[m + 1], window)
                = [clusters EXCEPT ![Len(clusters)] = Extended(@, rows[m + 1])]
          BY <3>5, <4>2 DEF Step
        <5>2. m > 0
          BY <3>1, <4>2
        <5>3. /\ rows[m + 1] \in Events /\ rows[m] \in Events
              /\ ~RowBefore(rows[m + 1], rows[m])
              /\ ~Breaks(clusters[Len(clusters)], rows[m + 1], window)
          BY <3>3, <4>2, <5>2
        <5>4. Sound([clusters EXCEPT ![Len(clusters)] = Extended(@, rows[m + 1])],
                    rows, m + 1, window)
          BY <3>1, <3>2, <5>2, <5>3, ExtendingKeepsSound
        <5> QED BY <3>4, <5>1, <5>4
      <4> QED BY <4>1, <4>2
    <3> QED BY <2>1, <3>1, <3>6
  <2> QED BY <2>4, <2>5
<1>5. Sound(w[N], rows, N, window)
  BY <1>1, <1>4
<1> QED BY <1>2, <1>5 DEF rows, w, N
-----------------------------------------------------------------------------
(* What Clusters returns.                                                  *)
LEMMA ClustersSound ==
  ASSUME NEW picked, picked \subseteq Events, IsFiniteSet(picked), NEW window \in Nat
  PROVE  /\ \A c \in Clusters(picked, window) :
              c \in ClusterType /\ Chained(c, window) /\ c.events \subseteq picked
         /\ \A e \in picked : \E c \in Clusters(picked, window) : e \in c.events
         /\ \A c, d \in Clusters(picked, window) :
              c # d => Apart(c, d, window) \/ Apart(d, c, window)
<1> DEFINE rows == Rows(picked)
           N == Cardinality(picked)
           clusters == Walk(rows, window)[Len(rows)]
           C == Clusters(picked, window)
<1>1. N \in Nat /\ rows \in [1 .. N -> picked] /\ \A e \in picked : \E n \in 1 .. N : rows[n] = e
  BY RowsOf
<1>2. Len(rows) = N
  <2> HIDE DEF rows
  <2> QED BY <1>1
<1>3. Sound(clusters, rows, N, window)
  BY <1>2, WalkIsSound
<1>4. C = ToSet(clusters)
  BY DEF Clusters
<1> HIDE DEF rows, clusters, N, C
<1>5. clusters \in Seq(ClusterType)
  BY <1>3 DEF Sound
<1>6. \A c \in C : \E p \in 1 .. Len(clusters) : c = clusters[p]
  BY <1>4, <1>5 DEF ToSet
<1>7. \A p \in 1 .. Len(clusters) : clusters[p] \in C /\ clusters[p] \in ClusterType
  BY <1>4, <1>5 DEF ToSet
<1>8. ASSUME NEW c \in C PROVE c \in ClusterType /\ Chained(c, window) /\ c.events \subseteq picked
  <2>1. PICK p \in 1 .. Len(clusters) : c = clusters[p]
    BY <1>6
  <2>2. \A e \in c.events : \E i \in 1 .. N : rows[i] = e
    BY <1>3, <2>1 DEF Sound
  <2> QED BY <1>1, <1>3, <1>7, <2>1, <2>2 DEF Sound
<1>9. ASSUME NEW e \in picked PROVE \E c \in C : e \in c.events
  <2>1. PICK n \in 1 .. N : rows[n] = e
    BY <1>1
  <2>2. PICK p \in 1 .. Len(clusters) : rows[n] \in clusters[p].events
    BY <1>3 DEF Sound
  <2> QED BY <1>7, <2>1, <2>2
<1>10. ASSUME NEW c \in C, NEW d \in C, c # d PROVE Apart(c, d, window) \/ Apart(d, c, window)
  <2>1. PICK p \in 1 .. Len(clusters) : c = clusters[p]
    BY <1>6
  <2>2. PICK q \in 1 .. Len(clusters) : d = clusters[q]
    BY <1>6
  <2>3. p < q \/ q < p
    BY <1>5, <1>10, <2>1, <2>2
  <2> QED BY <1>3, <2>1, <2>2, <2>3 DEF Sound
<1> QED BY <1>8, <1>9, <1>10 DEF C

(* No two clusters of one walk share a minute of a host.                   *)
LEMMA ClustersDisjoint ==
  ASSUME NEW picked, picked \subseteq Events, IsFiniteSet(picked), NEW window \in Nat,
         NEW c \in Clusters(picked, window), NEW d \in Clusters(picked, window), c # d
  PROVE  ~Overlaps(c, d)
<1>1. /\ c \in ClusterType /\ d \in ClusterType
      /\ Apart(c, d, window) \/ Apart(d, c, window)
  BY ClustersSound
<1> QED BY <1>1 DEF Apart, Overlaps, ClusterType

(* Events of one cluster: a silence between them would have cut it.        *)
LEMMA ClusterIsTogether ==
  ASSUME NEW picked, picked \subseteq Events, IsFiniteSet(picked), NEW window \in Nat,
         NEW c \in Clusters(picked, window), NEW e \in c.events, NEW f \in c.events
  PROVE  Together(picked, window, e, f)
<1> DEFINE C == Clusters(picked, window)
<1>1. /\ \A d \in C : d \in ClusterType /\ Chained(d, window) /\ d.events \subseteq picked
      /\ \A g \in picked : \E d \in C : g \in d.events
      /\ \A b, d \in C : b # d => Apart(b, d, window) \/ Apart(d, b, window)
  BY ClustersSound
<1>2. c \in C
  OBVIOUS
<1> HIDE DEF C
<1>3. HostOf[e] = c.host /\ HostOf[f] = c.host
  BY <1>1, <1>2 DEF Chained
<1>4. ASSUME NEW g \in picked, HostOf[g] = c.host, c.start <= TimeOf[g], TimeOf[g] < c.end
      PROVE  \E k \in picked : /\ HostOf[k] = HostOf[g]
                               /\ TimeOf[g] < TimeOf[k] /\ TimeOf[k] - TimeOf[g] <= window
  <2>1. PICK d \in C : g \in d.events
    BY <1>1
  <2>2. /\ d \in ClusterType /\ c \in ClusterType
        /\ d.host = c.host /\ d.start <= TimeOf[g] /\ TimeOf[g] <= d.end
    BY <1>1, <1>2, <1>4, <2>1 DEF Chained
  <2>3. /\ c.start \in Nat /\ c.end \in Nat /\ d.start \in Nat /\ d.end \in Nat /\ c.host \in Nat
        /\ TimeOf[g] \in Nat
    BY <2>2, EventFacts DEF ClusterType
  <2>4. d = c
    <3> SUFFICES ASSUME d # c PROVE FALSE
      OBVIOUS
    <3>1. Apart(c, d, window) \/ Apart(d, c, window)
      BY <1>1, <1>2, <2>1
    <3> QED BY <1>4, <2>2, <2>3, <3>1 DEF Apart
  <2>5. PICK k \in c.events : TimeOf[g] < TimeOf[k] /\ TimeOf[k] - TimeOf[g] <= window
    BY <1>1, <1>2, <1>4, <2>1, <2>4 DEF Chained
  <2>6. k \in picked /\ HostOf[k] = c.host
    BY <1>1, <1>2, <2>5 DEF Chained
  <2> QED BY <1>4, <2>5, <2>6
<1>5. ASSUME NEW g \in picked, HostOf[g] = c.host,
             NEW a \in c.events, NEW b \in c.events, TimeOf[a] <= TimeOf[g], TimeOf[g] < TimeOf[b]
      PROVE  c.start <= TimeOf[g] /\ TimeOf[g] < c.end
  <2>1. /\ a \in Events /\ b \in Events /\ g \in Events
        /\ c.start <= TimeOf[a] /\ TimeOf[b] <= c.end /\ c.start \in Nat /\ c.end \in Nat
    BY <1>1, <1>2 DEF Chained, ClusterType
  <2> QED BY <1>5, <2>1, EventFacts
<1> QED BY <1>3, <1>4, <1>5 DEF Together

(* Events of two clusters: there is a silence after the first of them.     *)
LEMMA ApartIsSilence ==
  ASSUME NEW picked, picked \subseteq Events, IsFiniteSet(picked), NEW window \in Nat,
         NEW c \in Clusters(picked, window), NEW d \in Clusters(picked, window),
         Apart(c, d, window), NEW e \in c.events, NEW f \in d.events
  PROVE  ~Together(picked, window, e, f) /\ ~Together(picked, window, f, e)
<1> DEFINE C == Clusters(picked, window)
<1>1. /\ \A b \in C : b \in ClusterType /\ Chained(b, window) /\ b.events \subseteq picked
      /\ \A g \in picked : \E b \in C : g \in b.events
      /\ \A a, b \in C : a # b => Apart(a, b, window) \/ Apart(b, a, window)
  BY ClustersSound
<1>2. c \in C /\ d \in C
  OBVIOUS
<1> HIDE DEF C
<1>3. /\ c.host \in Nat /\ c.start \in Nat /\ c.end \in Nat /\ c.start <= c.end
      /\ d.host \in Nat /\ d.start \in Nat
      /\ e \in picked /\ f \in picked /\ TimeOf[e] \in Nat /\ TimeOf[f] \in Nat
      /\ HostOf[e] = c.host /\ HostOf[f] = d.host /\ TimeOf[e] <= c.end /\ d.start <= TimeOf[f]
  BY <1>1, <1>2, EventFacts DEF Chained, ClusterType
<1>4. CASE c.host # d.host
  BY <1>3, <1>4 DEF Together
<1>5. CASE c.host = d.host
  <2>1. d.start - c.end > window
    BY <1>3, <1>5 DEF Apart
  <2>2. PICK g \in c.events : TimeOf[g] = c.end
    BY <1>1, <1>2 DEF Chained
  <2>3. g \in picked /\ HostOf[g] = c.host /\ TimeOf[e] <= TimeOf[g] /\ TimeOf[g] < TimeOf[f]
    BY <1>1, <1>2, <1>3, <2>1, <2>2 DEF Chained
  <2>4. ASSUME NEW k \in picked, HostOf[k] = HostOf[g], TimeOf[g] < TimeOf[k],
               TimeOf[k] - TimeOf[g] <= window
        PROVE  FALSE
    <3>1. PICK b \in C : k \in b.events
      BY <1>1
    <3>2. /\ b.host = c.host /\ b.start <= TimeOf[k] /\ TimeOf[k] <= b.end
          /\ b.start \in Nat /\ b.end \in Nat /\ TimeOf[k] \in Nat
      BY <1>1, <2>3, <2>4, <3>1, EventFacts DEF Chained, ClusterType
    <3>3. b # c
      BY <1>3, <2>2, <2>4, <3>2
    <3>4. Apart(b, c, window) \/ Apart(c, b, window)
      BY <1>1, <1>2, <3>1, <3>3
    <3> QED BY <1>3, <2>2, <2>4, <3>2, <3>4 DEF Apart
  <2> QED BY <1>3, <1>5, <2>3, <2>4 DEF Together
<1> QED BY <1>4, <1>5

(* The clusters of any events are the runs of activity without a silence.  *)
THEOREM ClustersAreRuns ==
  ASSUME NEW picked, picked \subseteq Events, IsFiniteSet(picked), NEW window \in Nat,
         NEW e \in picked, NEW f \in picked
  PROVE  (\E c \in Clusters(picked, window) : {e, f} \subseteq c.events)
           <=> Together(picked, window, e, f)
<1>1. ASSUME NEW c \in Clusters(picked, window), {e, f} \subseteq c.events
      PROVE  Together(picked, window, e, f)
  BY <1>1, ClusterIsTogether
<1>2. ASSUME Together(picked, window, e, f)
      PROVE  \E c \in Clusters(picked, window) : {e, f} \subseteq c.events
  <2>1. PICK c \in Clusters(picked, window) : e \in c.events
    BY ClustersSound
  <2>2. PICK d \in Clusters(picked, window) : f \in d.events
    BY ClustersSound
  <2>3. c = d
    <3> SUFFICES ASSUME c # d PROVE FALSE
      OBVIOUS
    <3>1. Apart(c, d, window) \/ Apart(d, c, window)
      BY ClustersSound
    <3> QED BY <1>2, <2>1, <2>2, <3>1, ApartIsSilence
  <2> QED BY <2>1, <2>2, <2>3
<1> QED BY <1>1, <1>2
-----------------------------------------------------------------------------
(* The shape of the variables; what Clusters returns needs no type here.   *)
Run(r) == DOMAIN r = {"pc", "clusters", "targets", "deleted", "triaged"}

Row(o) == DOMAIN o = {"host", "start", "end", "status"}

Shaped ==
  /\ DOMAIN corr = Correlators
  /\ \A k \in Correlators : /\ Run(corr[k])
                            /\ corr[k].targets \subseteq Ids /\ corr[k].deleted \subseteq Ids
  /\ DOMAIN objs = Ids
  /\ \A id \in Ids : Row(objs[id])
  /\ patch \in [Analysts -> [pc : {"idle", "read"}, id : Ids, status : {"open", "triaged"}]]

(* What holding a row lock means.                                          *)
LocksHold ==
  \A k \in Correlators : \A id \in corr[k].deleted :
    /\ Open(id)
    /\ \A j \in Correlators : j # k => id \notin corr[j].deleted

Locking == Shaped /\ LocksHold

LEMMA LockingInit == Init => Locking
  BY EvidenceAssumption DEF Init, Locking, Shaped, LocksHold, Run, Row, Resting, NoObject, NoPatch

(* One correlator moves; the rows it now holds are open and nobody else's. *)
LEMMA OneRun ==
  ASSUME Locking, NEW k \in Correlators, NEW r, Run(r),
         r.targets \subseteq Ids, r.deleted \subseteq Ids,
         \A id \in r.deleted :
           Open(id) /\ \A j \in Correlators : j # k => id \notin corr[j].deleted,
         corr' = [corr EXCEPT ![k] = r], objs' = objs, patch' = patch
  PROVE  Locking'
<1> USE DEF Locking, Shaped, LocksHold
<1>1. /\ DOMAIN corr' = Correlators
      /\ corr'[k] = r
      /\ \A j \in Correlators : j # k => corr'[j] = corr[j]
  OBVIOUS
<1>2. Shaped'
  BY <1>1
<1>3. LocksHold'
  BY <1>1 DEF Open
<1> QED
  BY <1>2, <1>3

(* What a commit writes: each of its clusters in a row of its own, where    *)
(* nothing was; the rows it deleted are gone, the others are as they were. *)
LEMMA CommitWrites ==
  ASSUME NEW k \in Correlators, NEW inUse, Commit(k, inUse)
  PROVE  \E row \in [Written(k) -> Unused(inUse)] :
           /\ IsInjective(row)
           /\ DOMAIN objs' = Ids
           /\ \A id \in Ids :
                \/ LockedBy(k, id) /\ objs'[id] = NoObject
                \/ \E c \in Written(k) : row[c] = id /\ objs'[id] = Fresh(c)
                \/ ~LockedBy(k, id) /\ objs'[id] = objs[id]
<1> DEFINE row == CHOOSE f \in [Written(k) -> Unused(inUse)] : IsInjective(f)
           new == [id \in Range(row) |-> Fresh(CHOOSE c \in Written(k) : row[c] = id)]
<1>1. row \in [Written(k) -> Unused(inUse)] /\ IsInjective(row)
  BY DEF Commit
<1>2. objs' = [id \in Ids |->
        CASE LockedBy(k, id)   -> NoObject
          [] id \in DOMAIN new -> new[id]
          [] OTHER             -> objs[id]]
  BY DEF Commit
<1> HIDE DEF row
<1>3. ASSUME NEW id \in Range(row) PROVE \E c \in Written(k) : row[c] = id /\ new[id] = Fresh(c)
  <2>1. \E c \in Written(k) : row[c] = id
    BY <1>1 DEF Range
  <2> QED
    BY <2>1
<1> HIDE DEF new
<1>4. DOMAIN new = Range(row)
  BY DEF new
<1>5. ASSUME NEW id \in Ids
      PROVE  \/ LockedBy(k, id) /\ objs'[id] = NoObject
             \/ \E c \in Written(k) : row[c] = id /\ objs'[id] = Fresh(c)
             \/ ~LockedBy(k, id) /\ objs'[id] = objs[id]
  BY <1>2, <1>3, <1>4
<1> QED
  BY <1>1, <1>2, <1>5

(* Only rows that were alive can be held, or be triaged: a commit of k     *)
(* leaves them as they are unless it deleted them itself.                  *)
LEMMA CommitKeeps ==
  ASSUME NEW k \in Correlators, NEW inUse, Commit(k, inUse), NEW id \in Ids,
         Alive(id), ~LockedBy(k, id)
  PROVE  objs'[id] = objs[id]
<1>1. PICK row \in [Written(k) -> Unused(inUse)] :
        \/ LockedBy(k, id) /\ objs'[id] = NoObject
        \/ \E c \in Written(k) : row[c] = id /\ objs'[id] = Fresh(c)
        \/ ~LockedBy(k, id) /\ objs'[id] = objs[id]
  BY CommitWrites
<1>2. id \notin Unused(inUse)
  BY DEF Unused
<1> QED
  BY <1>1, <1>2

LEMMA LockingStep ==
  ASSUME Locking, NEW inUse, [EvidenceStep(inUse)]_vars
  PROVE  Locking'
<1> USE DEF Locking, Shaped, LocksHold, Open, Run, Row
<1>1. CASE UNCHANGED vars
  BY <1>1 DEF vars
<1>2. ASSUME NEW e \in Events, Ingest(e) PROVE Locking'
  BY <1>2 DEF Ingest
<1>3. ASSUME NEW k \in Correlators, Read(k) PROVE Locking'
  <2>1. PICK window \in Windows : corr' = [corr EXCEPT ![k] = [Resting EXCEPT !.pc = "read",
                                      !.clusters = Clusters(events, window)]]
    BY <1>3 DEF Read
  <2> DEFINE r == [Resting EXCEPT !.pc = "read", !.clusters = Clusters(events, window)]
  <2>2. Run(r) /\ r.targets = {} /\ r.deleted = {}
    BY DEF Resting
  <2>3. corr' = [corr EXCEPT ![k] = r] /\ objs' = objs /\ patch' = patch
    BY <1>3, <2>1 DEF Read
  <2> HIDE DEF r
  <2> QED
    BY <2>2, <2>3, OneRun
<1>4. ASSUME NEW k \in Correlators, DeleteStarts(k) PROVE Locking'
  <2> DEFINE r == [corr[k] EXCEPT !.pc = "deleting", !.targets = {id \in Ids : Open(id)}]
  <2>1. Run(r) /\ r.targets \subseteq Ids /\ r.deleted = corr[k].deleted
    OBVIOUS
  <2>2. corr' = [corr EXCEPT ![k] = r] /\ objs' = objs /\ patch' = patch
    BY <1>4 DEF DeleteStarts
  <2> HIDE DEF r
  <2> QED
    BY <2>1, <2>2, OneRun
<1>5. ASSUME NEW k \in Correlators, DeleteEnds(k) PROVE Locking'
  <2> DEFINE mine == {id \in corr[k].targets : Open(id)}
             r    == [corr[k] EXCEPT !.pc = "deleted", !.targets = {}, !.deleted = mine]
  <2>1. Run(r) /\ r.targets = {} /\ r.deleted = mine
    OBVIOUS
  <2>2. mine \subseteq Ids
    OBVIOUS
  <2>3. \A id \in mine : Open(id) /\ \A j \in Correlators : j # k => id \notin corr[j].deleted
    BY <1>5 DEF DeleteEnds, LockedBy
  <2>4. corr' = [corr EXCEPT ![k] = r] /\ objs' = objs /\ patch' = patch
    BY <1>5 DEF DeleteEnds
  <2> HIDE DEF r, mine
  <2> QED
    BY <2>1, <2>2, <2>3, <2>4, OneRun
<1>6. ASSUME NEW k \in Correlators, ReadTriaged(k) PROVE Locking'
  <2> DEFINE seen == {objs[id] : id \in {i \in Ids : Triaged(i)}}
             r    == [corr[k] EXCEPT !.pc = "writing", !.triaged = seen]
  <2>1. corr' = [corr EXCEPT ![k] = r] /\ objs' = objs /\ patch' = patch
    BY <1>6 DEF ReadTriaged
  <2> HIDE DEF seen
  <2>2. Run(r) /\ r.targets = corr[k].targets /\ r.deleted = corr[k].deleted
    OBVIOUS
  <2> HIDE DEF r
  <2> QED
    BY <2>1, <2>2, OneRun
<1>7. ASSUME NEW k \in Correlators, Commit(k, inUse) PROVE Locking'
  <2>1. /\ DOMAIN corr' = Correlators
        /\ corr'[k] = Resting
        /\ \A j \in Correlators : j # k => corr'[j] = corr[j]
    BY <1>7 DEF Commit
  <2>2. Run(Resting) /\ Resting.targets = {} /\ Resting.deleted = {}
    BY DEF Resting
  <2>3. DOMAIN objs' = Ids /\ patch' = patch
    BY <1>7 DEF Commit
  <2>4. \A id \in Ids : Row(objs'[id])
    BY <1>7, CommitWrites DEF NoObject, Fresh
  <2>5. \A j \in Correlators, id \in Ids :
          j # k /\ id \in corr[j].deleted => objs'[id] = objs[id]
    <3> SUFFICES ASSUME NEW j \in Correlators, NEW id \in Ids, j # k, id \in corr[j].deleted
                 PROVE  objs'[id] = objs[id]
      OBVIOUS
    <3>1. ~LockedBy(k, id)
      BY DEF LockedBy
    <3>2. Alive(id)
      BY DEF Alive
    <3> QED
      BY <1>7, <3>1, <3>2, CommitKeeps
  <2> HIDE DEF Run, Row
  <2>6. Shaped'
    BY <2>1, <2>2, <2>3, <2>4
  <2>7. LocksHold'
    BY <2>1, <2>2, <2>5
  <2> QED
    BY <2>6, <2>7
<1>8. ASSUME NEW k \in Correlators, Rollback(k) PROVE Locking'
  BY <1>8 DEF Rollback, Resting
<1>9. ASSUME NEW a \in Analysts, NEW id \in Ids, NEW verdict \in Statuses,
             PatchReads(a, id, verdict) PROVE Locking'
  <2>1. patch' \in [Analysts -> [pc : {"idle", "read"}, id : Ids, status : {"open", "triaged"}]]
    BY <1>9, EvidenceAssumption DEF PatchReads
  <2> QED
    BY <1>9, <2>1 DEF PatchReads
<1>10. ASSUME NEW a \in Analysts, PatchWrites(a) PROVE Locking'
  <2>1. corr' = corr
    BY <1>10 DEF PatchWrites
  <2>2. \A id \in Ids : id # patch[a].id => objs'[id] = objs[id]
    BY <1>10 DEF PatchWrites
  <2>3. \A k \in Correlators : patch[a].id \notin corr[k].deleted
    BY <1>10 DEF PatchWrites, LockedBy
  <2>4. patch' \in [Analysts -> [pc : {"idle", "read"}, id : Ids, status : {"open", "triaged"}]]
    BY <1>10, EvidenceAssumption DEF PatchWrites, NoPatch
  <2>5. DOMAIN objs' = Ids /\ \A id \in Ids : Row(objs'[id])
    BY <1>10 DEF PatchWrites
  <2>6. Shaped'
    BY <2>1, <2>4, <2>5
  <2>7. LocksHold'
    BY <2>1, <2>2, <2>3
  <2> QED
    BY <2>6, <2>7
<1> QED
  BY <1>1, <1>2, <1>3, <1>4, <1>5, <1>6, <1>7, <1>8, <1>9, <1>10
     DEF EvidenceStep, CorrelateStep, PatchStep

(* A step of anyone leaves every triaged object in place.                  *)
LEMMA TriagedStep ==
  ASSUME Locking, NEW inUse, [EvidenceStep(inUse)]_vars
  PROVE  \A id \in Ids : Triaged(id) => Alive(id)'
<1> SUFFICES ASSUME NEW id \in Ids, Triaged(id) PROVE Alive(id)'
  OBVIOUS
<1> USE DEF Locking, Shaped, Row, Triaged, Alive, Open
<1>1. CASE objs' = objs
  BY <1>1
<1>2. ASSUME NEW k \in Correlators, Commit(k, inUse) PROVE Alive(id)'
  <2>1. ~LockedBy(k, id)
    BY DEF Locking, LocksHold, LockedBy
  <2>2. objs[id].status # "none"
    OBVIOUS
  <2> QED
    BY <1>2, <2>1, <2>2, CommitKeeps
<1>3. ASSUME NEW a \in Analysts, PatchWrites(a) PROVE Alive(id)'
  <2>1. CASE patch[a].id # id
    BY <1>3, <2>1 DEF PatchWrites
  <2>2. CASE patch[a].id = id
    BY <1>3, <2>2 DEF PatchWrites
  <2> QED
    BY <2>1, <2>2
<1> QED
  BY <1>1, <1>2, <1>3 DEF EvidenceStep, vars, CorrelateStep, PatchStep, Ingest, Read, DeleteStarts,
     DeleteEnds, ReadTriaged, Rollback, PatchReads

(* The lock discipline of DELETE and UPDATE is an invariant.               *)
THEOREM LocksAreKept == Spec => []Locking
<1>1. Init => Locking
  BY LockingInit
<1>2. Locking /\ [Next]_vars => Locking'
  BY LockingStep DEF Next
<1> QED
  BY <1>1, <1>2, PTL DEF Spec

(* "triaged ones are left alone": whatever runs at the same time, only an  *)
(* analyst changes an object an analyst has triaged, and nobody deletes it.*)
THEOREM TriageIsRespected == Spec => TriagedSurvive
<1>1. Locking /\ [Next]_vars => [\A id \in Ids : Triaged(id) => Alive(id)']_vars
  BY TriagedStep DEF Next
<1> QED
  BY <1>1, LocksAreKept, PTL DEF Spec, TriagedSurvive
-----------------------------------------------------------------------------
(* What hangs on evidence.  No row of an investigation or a case ever       *)
(* points at evidence that is gone, for any number of runs, cases,          *)
(* requests, correlators and analysts.                                      *)
(*                                                                         *)
(* What the property leaves out: a run that has not begun has no row, so   *)
(* that choosing its object cannot make one dangle, and a request that is  *)
(* attaching is at a case that exists and that nobody can take away.       *)

Places ==
  {"new", "scoping", "scoped", "collected", "thinking", "concluded", "grounding", "grounded",
   "failing"} \union Over

Locals == [pc : {"idle", "creating", "attaching", "conflict"}, case : Cases, ids : SUBSET Ids,
           existing : BOOLEAN]

RowsInv ==
  /\ InvTypeOK
  /\ TrailHasEvidence
  /\ \A i \in Runs : run[i].pc = "new" => ~HasRow(i)

LinksInv ==
  /\ CaseTypeOK
  /\ LinksHaveEvidence
  /\ \A r \in Requests : req[r].pc = "attaching" => status[req[r].case] # "none"

DanglingInv == RowsInv /\ LinksInv

LEMMA InitDangling == Cases # {} /\ DepInit => DanglingInv
<1> SUFFICES ASSUME Cases # {}, DepInit PROVE DanglingInv
  OBVIOUS
<1>1. RowsInv
  BY EvidenceAssumption DEF DepInit, InvInit, RowsInv, InvTypeOK, TrailHasEvidence, HasRow,
     NotStarted, NoRow
<1>2. LinksInv
  BY DEF DepInit, CaseInit, LinksInv, CaseTypeOK, LinksHaveEvidence, Ready
<1> QED
  BY <1>1, <1>2 DEF DanglingInv

(* Evidence changes: the cascades take along what hung on it.              *)
LEMMA EvidenceDangling ==
  ASSUME DanglingInv, Cascade, Unlink, UNCHANGED <<run, status, req>>
  PROVE  DanglingInv'
<1>1. RowsInv'
  BY DEF DanglingInv, RowsInv, InvTypeOK, TrailHasEvidence, HasRow, Cascade, NoRow, Alive
<1>2. LinksInv'
  BY DEF DanglingInv, LinksInv, CaseTypeOK, LinksHaveEvidence, Unlink, Alive
<1> QED
  BY <1>1, <1>2 DEF DanglingInv

(* A run that keeps its object, on a row that was there or that it may     *)
(* insert.                                                                 *)
LEMMA RunMoves ==
  ASSUME RowsInv, objs' = objs, NEW i \in Runs, NEW pc \in Places, NEW n \in 0..4,
         MovesTo(i, pc, n), pc # "new",
         \/ trail' = trail
         \/ \E s \in {"running", "failed", "complete"}, m \in 0..4 :
              trail' = [trail EXCEPT ![i] = [status |-> s, stages |-> m]],
         HasRow(i)' => Alive(run[i].id)
  PROVE  RowsInv'
<1>1. InvTypeOK' /\ run'[i].id = run[i].id /\ run'[i].pc = pc
      /\ \A j \in Runs \ {i} : run'[j] = run[j] /\ trail'[j] = trail[j]
  <2>1. /\ run' \in [Runs -> [pc : Places, id : Ids, shown : 0..4]]
        /\ run'[i].id = run[i].id /\ run'[i].pc = pc
        /\ \A j \in Runs \ {i} : run'[j] = run[j]
    BY DEF RowsInv, InvTypeOK, MovesTo, Places
  <2>2. /\ trail' \in [Runs -> [status : {"none", "running", "failed", "complete"}, stages : 0..4]]
        /\ \A j \in Runs \ {i} : trail'[j] = trail[j]
    BY DEF RowsInv, InvTypeOK
  <2> QED
    BY <2>1, <2>2 DEF InvTypeOK, Places
<1>2. ASSUME NEW j \in Runs, HasRow(j)' PROVE Alive(run[j].id)' /\ run'[j].id = run[j].id
  <2>1. CASE j = i
    BY <1>1, <1>2, <2>1 DEF Alive
  <2>2. CASE j # i
    BY <1>1, <1>2, <2>2 DEF RowsInv, TrailHasEvidence, HasRow, Alive
  <2> QED
    BY <2>1, <2>2
<1>3. TrailHasEvidence'
  BY <1>2 DEF TrailHasEvidence, Alive
<1>4. \A j \in Runs : run'[j].pc = "new" => ~HasRow(j)'
  BY <1>1 DEF RowsInv, HasRow
<1> QED
  BY <1>1, <1>3, <1>4 DEF RowsInv

LEMMA RunDangling ==
  ASSUME RowsInv, NEW i \in Runs, RunStep(i)
  PROVE  RowsInv'
<1>1. objs' = objs
  BY DEF RunStep, ScopeReads, ScopeInserts, Collect, PersistCollect, Persist, Conclude,
     StageFails, PersistConclude, Ground, Finalize, Fail, HandlerFails, Abandon, vars
<1> USE DEF Places, Over
<1>2. /\ run[i] \in [pc : Places, id : Ids, shown : 0..4]
      /\ trail[i] \in [status : {"none", "running", "failed", "complete"}, stages : 0..4]
      /\ HasRow(i) => Alive(run[i].id)
  BY DEF RowsInv, InvTypeOK, TrailHasEvidence
<1>3. ASSUME NEW id \in Ids, ScopeReads(i, id) PROVE RowsInv'
  <2>1. /\ InvTypeOK' /\ run'[i].id = id /\ run'[i].pc = "scoping" /\ trail' = trail
        /\ run[i].pc = "new"
        /\ \A j \in Runs \ {i} : run'[j] = run[j]
    BY <1>3 DEF ScopeReads, RowsInv, InvTypeOK
  <2> QED
    BY <1>1, <2>1 DEF RowsInv, TrailHasEvidence, HasRow, Alive
<1>4. CASE ScopeInserts(i)
  <2>1. CASE Alive(run[i].id)
    BY <1>1, <1>4, <2>1, RunMoves DEF ScopeInserts
  <2>2. CASE ~Alive(run[i].id)
    BY <1>1, <1>2, <1>4, <2>2, RunMoves DEF ScopeInserts, HasRow
  <2> QED
    BY <2>1, <2>2
<1>5. CASE Collect(i)
  BY <1>1, <1>2, <1>5, RunMoves DEF Collect, HasRow
<1>6. ASSUME NEW from, NEW to \in Places, to # "new", Persist(i, from, to)
      PROVE  RowsInv'
  <2>1. CASE HasRow(i)
    <3>1. trail' = [trail EXCEPT ![i] = [status |-> trail[i].status, stages |-> run[i].shown]]
      BY <1>2, <1>6, <2>1 DEF Persist, RowsInv, InvTypeOK
    <3>2. /\ trail[i].status \in {"running", "failed", "complete"}
          /\ run[i].shown \in 0..4 /\ MovesTo(i, to, run[i].shown)
      BY <1>2, <1>6, <2>1 DEF Persist, HasRow
    <3> QED
      BY <1>1, <1>2, <1>6, <2>1, <3>1, <3>2, RunMoves
  <2>2. CASE ~HasRow(i)
    BY <1>1, <1>2, <1>6, <2>2, RunMoves DEF Persist, HasRow
  <2> QED
    BY <2>1, <2>2
<1>7. CASE Conclude(i) \/ StageFails(i) \/ Ground(i)
  BY <1>1, <1>2, <1>7, RunMoves DEF Conclude, StageFails, Ground, HasRow
<1>8. CASE Finalize(i)
  <2>1. CASE HasRow(i)
    BY <1>1, <1>2, <1>8, <2>1, RunMoves DEF Finalize
  <2>2. CASE ~HasRow(i)
    BY <1>1, <1>2, <1>8, <2>2, RunMoves DEF Finalize, HasRow
  <2> QED
    BY <2>1, <2>2
<1>9. CASE Fail(i)
  <2>1. CASE HasRow(i)
    BY <1>1, <1>2, <1>9, <2>1, RunMoves DEF Fail
  <2>2. CASE ~HasRow(i)
    BY <1>1, <1>2, <1>9, <2>2, RunMoves DEF Fail, HasRow
  <2> QED
    BY <2>1, <2>2
<1>10. CASE HandlerFails(i) \/ Abandon(i)
  BY <1>1, <1>2, <1>10, RunMoves DEF HandlerFails, Abandon, HasRow
<1> QED
  BY <1>3, <1>4, <1>5, <1>6, <1>7, <1>8, <1>9, <1>10 DEF RunStep, PersistCollect, PersistConclude

LEMMA CaseDangling ==
  ASSUME LinksInv, CaseStep
  PROVE  LinksInv'
<1> USE DEF LinksInv, CaseTypeOK, LinksHaveEvidence, Locals
<1>1. objs' = objs
  BY DEF CaseStep, CreateReads, CreateWrites, Update, AttachReads, AttachWrites, vars
<1>2. \A id : Alive(id)' <=> Alive(id)
  BY <1>1 DEF Alive
<1>3. ASSUME NEW r \in Requests, CreateWrites(r) PROVE LinksInv'
  <2>1. /\ req[r].case \in Cases /\ req[r].ids \subseteq Ids
        /\ Ready \in Locals
        /\ Ready.pc = "idle"
    BY DEF Ready
  <2>2. /\ req' \in [Requests -> Locals]
        /\ req'[r].pc = "idle" /\ \A q \in Requests \ {r} : req'[q] = req[q]
    BY <1>3, <2>1 DEF CreateWrites
  <2>3. /\ status' \in [Cases -> {"none"} \union Flow]
        /\ \A c \in Cases : status[c] # "none" => status'[c] # "none"
    BY <1>3, <2>1, FlowAssumption DEF CreateWrites
  <2>4. \A l \in links' : l \in Cases \X Ids /\ status'[l[1]] # "none" /\ Alive(l[2])
    BY <1>3, <2>1, <2>3 DEF CreateWrites
  <2> QED
    BY <1>2, <2>2, <2>3, <2>4
<1>4. ASSUME NEW r \in Requests, AttachWrites(r) PROVE LinksInv'
  <2>1. /\ req[r].case \in Cases /\ req[r].ids \subseteq Ids /\ status[req[r].case] # "none"
        /\ Ready \in Locals
        /\ Ready.pc = "idle"
    BY <1>4 DEF Ready, AttachWrites
  <2>2. /\ req' \in [Requests -> Locals]
        /\ req'[r].pc \in {"idle", "conflict"} /\ \A q \in Requests \ {r} : req'[q] = req[q]
    BY <1>4, <2>1 DEF AttachWrites
  <2>3. \A l \in links' : l \in Cases \X Ids /\ status[l[1]] # "none" /\ Alive(l[2])
    BY <1>4, <2>1 DEF AttachWrites
  <2>4. status' = status
    BY <1>4 DEF AttachWrites
  <2> QED
    BY <1>2, <2>2, <2>3, <2>4
<1>5. ASSUME NEW r \in Requests, NEW c \in Cases, NEW ids \in SUBSET Ids, CreateReads(r, c, ids)
      PROVE  LinksInv'
  <2>1. /\ req' \in [Requests -> Locals]
        /\ req'[r].pc = "creating" /\ \A q \in Requests \ {r} : req'[q] = req[q]
    BY <1>5 DEF CreateReads, Ready
  <2> QED
    BY <1>2, <1>5, <2>1 DEF CreateReads
<1>6. ASSUME NEW r \in Requests, NEW c \in Cases, NEW id \in Ids, AttachReads(r, c, id)
      PROVE  LinksInv'
  <2>1. /\ req' \in [Requests -> Locals]
        /\ req'[r].case = c /\ status[c] # "none" /\ \A q \in Requests \ {r} : req'[q] = req[q]
    BY <1>6 DEF AttachReads
  <2> QED
    BY <1>2, <1>6, <2>1 DEF AttachReads
<1>7. ASSUME NEW c \in Cases, NEW s \in Flow, Update(c, s) PROVE LinksInv'
  <2>1. s # "none"
    BY FlowAssumption
  <2>2. /\ status' \in [Cases -> {"none"} \union Flow]
        /\ \A d \in Cases : status[d] # "none" => status'[d] # "none"
    BY <1>7, <2>1 DEF Update
  <2> QED
    BY <1>2, <1>7, <2>2 DEF Update
<1> QED
  BY <1>3, <1>4, <1>5, <1>6, <1>7 DEF CaseStep

LEMMA NextDangling == DanglingInv /\ [DepNext]_depVars => DanglingInv'
<1> SUFFICES ASSUME DanglingInv, [DepNext]_depVars PROVE DanglingInv'
  OBVIOUS
<1>1. CASE UNCHANGED depVars
  BY <1>1 DEF depVars, vars, invVars, caseVars, DanglingInv, RowsInv, LinksInv, InvTypeOK, CaseTypeOK,
     TrailHasEvidence, LinksHaveEvidence, HasRow, Alive
<1>2. CASE EvidenceChanges(EvidenceStep(InUse))
  BY <1>2, EvidenceDangling DEF EvidenceChanges
<1>3. ASSUME NEW i \in Runs, RunStep(i), UNCHANGED caseVars PROVE DanglingInv'
  <2>1. objs' = objs
    BY <1>3 DEF RunStep, ScopeReads, ScopeInserts, Collect, PersistCollect, Persist, Conclude,
       StageFails, PersistConclude, Ground, Finalize, Fail, HandlerFails, Abandon, vars
  <2>2. LinksInv'
    BY <1>3, <2>1 DEF DanglingInv, LinksInv, CaseTypeOK, LinksHaveEvidence, Alive, caseVars
  <2> QED
    BY <1>3, <2>2, RunDangling DEF DanglingInv
<1>4. CASE CaseStep /\ UNCHANGED invVars
  <2>1. objs' = objs
    BY <1>4 DEF CaseStep, CreateReads, CreateWrites, Update, AttachReads, AttachWrites, vars
  <2>2. RowsInv'
    BY <1>4, <2>1 DEF DanglingInv, RowsInv, InvTypeOK, TrailHasEvidence, HasRow, Alive, invVars
  <2> QED
    BY <1>4, <2>2, CaseDangling DEF DanglingInv
<1> QED
  BY <1>1, <1>2, <1>3, <1>4 DEF DepNext

(* No row of an investigation or a case points at evidence that is gone:   *)
(* whichever of run, attach, triage and rebuild comes first, the foreign   *)
(* key refuses the row or the cascade takes it along.                      *)
THEOREM NothingDangles == Cases # {} => (DepSpec => []NoDanglingRows)
<1>1. DanglingInv => NoDanglingRows
  BY DEF DanglingInv, RowsInv, LinksInv, NoDanglingRows
<1> QED
  BY <1>1, InitDangling, NextDangling, PTL DEF DepSpec

(* To the evidence, whatever investigations and cases do is a stutter.     *)
LEMMA DependentsOnlyRead ==
  [DepNext]_depVars => UNCHANGED vars \/ EvidenceStep(InUse)
BY DEF DepNext, depVars, EvidenceChanges, RunStep, ScopeReads, ScopeInserts, Collect,
   PersistCollect, Persist, Conclude, StageFails, PersistConclude, Ground, Finalize, Fail,
   HandlerFails, Abandon, CaseStep, CreateReads, CreateWrites, Update, AttachReads, AttachWrites

(* The same of correlation and triage beside them: what investigations and *)
(* cases do leaves every triaged object in place as well.                  *)
THEOREM TriageIsRespectedThroughout == DepSpec => TriagedSurvive
<1>1. DepInit => Locking
  BY LockingInit DEF DepInit
<1>2. Locking /\ [DepNext]_depVars => Locking'
  BY DependentsOnlyRead, LockingStep
<1>3. Locking /\ [DepNext]_depVars => [\A id \in Ids : Triaged(id) => Alive(id)']_vars
  BY DependentsOnlyRead, TriagedStep
<1> QED
  BY <1>1, <1>2, <1>3, PTL DEF DepSpec, TriagedSurvive
-----------------------------------------------------------------------------
(* The rows the walk reads are finitely many, whatever is ingested.        *)
EventsFinite == events \subseteq Events /\ IsFiniteSet(events)

LEMMA EventsStayFinite ==
  ASSUME EventsFinite, NEW inUse, [EvidenceStep(inUse)]_vars
  PROVE  EventsFinite'
<1>1. ASSUME NEW e \in Events, Ingest(e) PROVE EventsFinite'
  BY <1>1, FS_AddElement DEF Ingest, EventsFinite
<1>2. ASSUME UNCHANGED events PROVE EventsFinite'
  BY <1>2 DEF EventsFinite
<1> QED
  BY <1>1, <1>2 DEF EvidenceStep, vars, CorrelateStep, PatchStep, Read, DeleteStarts, DeleteEnds,
     ReadTriaged, Commit, Rollback, PatchReads, PatchWrites

(* Whatever is ingested, correlation works on finitely many events.        *)
THEOREM EventsInvariant == Spec => []EventsFinite
<1>1. Init => EventsFinite
  BY FS_EmptySet DEF Init, EventsFinite
<1>2. EventsFinite /\ [Next]_vars => EventsFinite'
  BY EventsStayFinite DEF Next
<1> QED
  BY <1>1, <1>2, PTL DEF Spec

LEMMA FiniteIsCut == EventsFinite => ClustersAreChains
<1> SUFFICES ASSUME EventsFinite, NEW window \in Windows, NEW e \in events, NEW f \in events
             PROVE  (\E c \in Clusters(events, window) : {e, f} \subseteq c.events)
                      <=> Together(events, window, e, f)
  BY DEF ClustersAreChains
<1>1. window \in Nat
  BY EvidenceAssumption
<1> QED
  BY <1>1, ClustersAreRuns DEF EventsFinite

(* correlate_tenant cuts each host's events exactly where a silence is     *)
(* longer than the window, for any events in any order and any window.     *)
THEOREM CutAtSilences == Spec => []ClustersAreChains
  BY FiniteIsCut, EventsInvariant, PTL
-----------------------------------------------------------------------------
(* One correlator at a time, and analysts that do not reopen: what is      *)
(* alive when a transaction writes is a row it has deleted, or one that it *)
(* has seen triaged.                                                       *)
OneCorrelator == \A j, k \in Correlators : j = k

NothingReopened == "open" \notin Statuses

SameWindow(o, t) == o.host = t.host /\ o.start = t.start /\ o.end = t.end

ClustersApart ==
  \A k \in Correlators : \A c, d \in corr[k].clusters : c # d => ~Overlaps(c, d)

(* Each phase knows every open row, and the last one every triaged row.    *)
Covered ==
  \A k \in Correlators : \A id \in Ids :
    /\ corr[k].pc = "deleting" /\ Open(id) => id \in corr[k].targets
    /\ corr[k].pc \in {"deleted", "writing"} /\ Open(id) => id \in corr[k].deleted
    /\ corr[k].pc = "writing" /\ Triaged(id) =>
         \E t \in corr[k].triaged : SameWindow(objs[id], t)

Triaging == \A a \in Analysts : patch[a].pc = "read" => patch[a].status = "triaged"

AloneInv == Locking /\ EventsFinite /\ ClustersApart /\ Covered /\ Triaging /\ NoDuplicates

LEMMA OverlapsFacts ==
  /\ \A o, p, t : SameWindow(p, t) => (Overlaps(o, p) <=> Overlaps(o, t))
  /\ \A c : SameWindow(Fresh(c), c)
  /\ \A o, p, t : SameWindow(p, t) => (Overlaps(p, o) <=> Overlaps(t, o))
BY DEF Overlaps, SameWindow, Fresh

LEMMA OverlapsSymmetric == \A o, p : Overlaps(o, p) <=> Overlaps(p, o)
BY DEF Overlaps

(* A cluster that is written overlaps nothing that is triaged.             *)
LEMMA WrittenAvoidsTriaged ==
  ASSUME AloneInv, NEW k \in Correlators, corr[k].pc = "writing", NEW c \in Written(k),
         NEW id \in Ids, Triaged(id)
  PROVE  ~Overlaps(Fresh(c), objs[id])
<1>1. PICK t \in corr[k].triaged : SameWindow(objs[id], t)
  BY DEF AloneInv, Covered
<1>2. ~Overlaps(c, t)
  BY DEF Written, AlreadyTriaged
<1>3. SameWindow(Fresh(c), c)
  BY OverlapsFacts
<1> QED
  BY <1>1, <1>2, <1>3, OverlapsFacts

(* What is alive and not deleted when a transaction writes is triaged.     *)
LEMMA SurvivorsAreTriaged ==
  ASSUME AloneInv, NEW k \in Correlators, corr[k].pc = "writing", NEW id \in Ids,
         Alive(id), ~LockedBy(k, id)
  PROVE  Triaged(id)
BY DEF AloneInv, Covered, LockedBy, Triaged

(* A commit adds nothing that overlaps what stays, nor what it adds.       *)
LEMMA CommitAddsApart ==
  ASSUME AloneInv, NEW k \in Correlators, NEW inUse, Commit(k, inUse)
  PROVE  /\ \A id, t \in Ids : ~Alive(id) /\ Alive(id)' /\ Triaged(t) => ~Overlaps(objs'[id], objs[t])
         /\ NoDuplicates'
<1>1. PICK row \in [Written(k) -> Unused(inUse)] :
        /\ IsInjective(row)
        /\ \A id \in Ids :
             \/ LockedBy(k, id) /\ objs'[id] = NoObject
             \/ \E c \in Written(k) : row[c] = id /\ objs'[id] = Fresh(c)
             \/ ~LockedBy(k, id) /\ objs'[id] = objs[id]
  BY CommitWrites
<1>2. corr[k].pc = "writing" /\ NoObject.status = "none"
  BY DEF Commit, NoObject
<1> DEFINE New(id, c) == c \in Written(k) /\ row[c] = id /\ objs'[id] = Fresh(c)
           Old(id) == Triaged(id) /\ objs'[id] = objs[id]
<1>3. ASSUME NEW id \in Ids, Alive(id)'
      PROVE  (\E c : New(id, c)) \/ Old(id)
  <2>1. objs'[id].status # "none"
    BY <1>3 DEF Alive
  <2>2. CASE ~LockedBy(k, id) /\ objs'[id] = objs[id]
    <3>1. Alive(id)
      BY <2>1, <2>2 DEF Alive
    <3> QED
      BY <1>2, <2>2, <3>1, SurvivorsAreTriaged
  <2> QED
    BY <1>1, <1>2, <2>1, <2>2
<1>4. ASSUME NEW id \in Ids, NEW t \in Ids, NEW c, New(id, c), Triaged(t)
      PROVE  ~Overlaps(objs'[id], objs[t])
  BY <1>2, <1>4, WrittenAvoidsTriaged
<1>5. ASSUME NEW i \in Ids, NEW j \in Ids, i # j, NEW c, NEW d, New(i, c), New(j, d)
      PROVE  ~Overlaps(objs'[i], objs'[j])
  <2>1. c # d
    BY <1>5
  <2>2. ~Overlaps(c, d)
    BY <1>5, <2>1 DEF AloneInv, ClustersApart, Written
  <2>3. SameWindow(Fresh(c), c) /\ SameWindow(Fresh(d), d)
    BY OverlapsFacts
  <2> QED
    BY <1>5, <2>2, <2>3, OverlapsFacts
<1>6. ASSUME NEW i \in Ids, NEW j \in Ids, i # j, Alive(i)', Alive(j)'
      PROVE  ~Overlaps(objs'[i], objs'[j])
  <2>1. CASE Old(i) /\ Old(j)
    BY <1>6, <2>1 DEF AloneInv, NoDuplicates, Triaged
  <2>2. ASSUME NEW c, New(i, c), Old(j) PROVE ~Overlaps(objs'[i], objs'[j])
    BY <1>4, <2>2
  <2>3. ASSUME NEW c, New(j, c), Old(i) PROVE ~Overlaps(objs'[i], objs'[j])
    BY <1>4, <2>3, OverlapsSymmetric
  <2> QED
    BY <1>3, <1>5, <1>6, <2>1, <2>2, <2>3
<1>7. ASSUME NEW id \in Ids, ~Alive(id), Alive(id)' PROVE \E c : New(id, c)
  BY <1>3, <1>7 DEF Triaged
<1> QED
  BY <1>4, <1>6, <1>7 DEF NoDuplicates, Alive

(* A triage changes the status of one row, that nobody holds.              *)
LEMMA PatchKeepsAlone ==
  ASSUME AloneInv, NEW a \in Analysts, PatchWrites(a)
  PROVE  ClustersApart' /\ Covered' /\ Triaging' /\ NoDuplicates'
<1>0. PICK target \in Ids : target = patch[a].id
  BY DEF AloneInv, Locking, Shaped
<1>1. /\ corr' = corr /\ patch' = [patch EXCEPT ![a] = NoPatch]
      /\ \A k \in Correlators : target \notin corr[k].deleted
      /\ \A id \in Ids : id # target => objs'[id] = objs[id]
  BY <1>0 DEF PatchWrites, LockedBy
<1>2. /\ SameWindow(objs'[target], objs[target]) /\ ~Open(target)'
      /\ Alive(target)' => Alive(target)
  <2>1. target \in Ids /\ DOMAIN objs = Ids /\ Row(objs[target]) /\ patch[a].status = "triaged"
    BY <1>0 DEF AloneInv, Locking, Shaped, Triaging, PatchWrites
  <2>2. CASE Alive(target)
    <3>1. objs' = [objs EXCEPT ![target].status = patch[a].status]
      BY <1>0, <2>2 DEF PatchWrites
    <3> QED
      BY <2>1, <2>2, <3>1 DEF Row, SameWindow, Open, Alive
  <2>3. CASE ~Alive(target)
    BY <1>0, <2>1, <2>3 DEF PatchWrites, SameWindow, Open, Alive
  <2> QED
    BY <2>2, <2>3
<1>3. \A id \in Ids : /\ SameWindow(objs'[id], objs[id])
                      /\ Open(id)' => Open(id)
                      /\ Alive(id)' => Alive(id)
  BY <1>1, <1>2 DEF SameWindow, Open, Alive
<1>4. ClustersApart'
  BY <1>1 DEF AloneInv, ClustersApart
<1>5. Covered'
  <2>1. ASSUME NEW k \in Correlators, NEW id \in Ids, corr[k].pc = "writing", Triaged(id)'
        PROVE  \E t \in corr[k].triaged : SameWindow(objs'[id], t)
    <3>1. Alive(id) /\ SameWindow(objs'[id], objs[id])
      BY <1>3, <2>1 DEF Triaged, Alive
    <3>2. Triaged(id)
      <4>1. CASE id = target
        BY <1>1, <2>1, <3>1, <4>1 DEF AloneInv, Covered, Triaged
      <4>2. CASE id # target
        BY <1>1, <2>1, <4>2 DEF Triaged, Alive, Open
      <4> QED
        BY <4>1, <4>2
    <3>3. PICK t \in corr[k].triaged : SameWindow(objs[id], t)
      BY <2>1, <3>2 DEF AloneInv, Covered
    <3> QED
      BY <3>1, <3>3 DEF SameWindow
  <2> QED
    BY <1>1, <1>3, <2>1 DEF AloneInv, Covered, Open, Triaged, Alive
<1>6. Triaging'
  BY <1>1 DEF AloneInv, Triaging, Locking, Shaped, NoPatch
<1>7. NoDuplicates'
  BY <1>3, OverlapsFacts DEF AloneInv, NoDuplicates, Alive
<1> QED
  BY <1>4, <1>5, <1>6, <1>7

(* A correlator takes one of the statements before the last.               *)
LEMMA RunKeepsAlone ==
  ASSUME OneCorrelator, AloneInv, NEW k \in Correlators,
         Read(k) \/ DeleteStarts(k) \/ DeleteEnds(k) \/ ReadTriaged(k) \/ Rollback(k)
  PROVE  ClustersApart' /\ Covered' /\ Triaging' /\ NoDuplicates'
<1>1. objs' = objs /\ patch' = patch /\ DOMAIN corr' = Correlators
  BY DEF Read, DeleteStarts, DeleteEnds, ReadTriaged, Rollback, AloneInv, Locking, Shaped
<1>2. Triaging' /\ NoDuplicates'
  BY <1>1 DEF AloneInv, Triaging, NoDuplicates, Alive
<1> DEFINE old == corr[k]
           new == corr'[k]
<1>3. DOMAIN corr = Correlators /\ Run(old)
  BY DEF AloneInv, Locking, Shaped
<1>4. ASSUME \A c, d \in new.clusters : c # d => ~Overlaps(c, d) PROVE ClustersApart'
  BY <1>1, <1>4 DEF OneCorrelator, ClustersApart, Overlaps
<1>5. ASSUME NEW id \in Ids
      PROVE  Open(id)' = Open(id) /\ Triaged(id)' = Triaged(id)
  BY <1>1 DEF Open, Triaged, Alive
<1>6. ASSUME \A id \in Ids :
               /\ new.pc = "deleting" /\ Open(id) => id \in new.targets
               /\ new.pc \in {"deleted", "writing"} /\ Open(id) => id \in new.deleted
               /\ new.pc = "writing" /\ Triaged(id) =>
                    \E t \in new.triaged : SameWindow(objs[id], t)
      PROVE  Covered'
  <2> SUFFICES ASSUME NEW j \in Correlators, NEW id \in Ids
               PROVE  /\ corr'[j].pc = "deleting" /\ Open(id)' => id \in corr'[j].targets
                      /\ corr'[j].pc \in {"deleted", "writing"} /\ Open(id)' => id \in corr'[j].deleted
                      /\ corr'[j].pc = "writing" /\ Triaged(id)' =>
                           \E t \in corr'[j].triaged : SameWindow(objs'[id], t)
    BY DEF Covered, SameWindow
  <2>1. j = k
    BY DEF OneCorrelator
  <2> QED
    BY <1>1, <1>5, <1>6, <2>1
<1>7. CASE Read(k)
  <2>1. PICK window \in Windows : corr' = [corr EXCEPT ![k] =
          [Resting EXCEPT !.pc = "read", !.clusters = Clusters(events, window)]]
    BY <1>7 DEF Read
  <2>2. new.pc = "read" /\ new.clusters = Clusters(events, window)
    BY <1>3, <2>1 DEF Resting
  <2>3. \A c, d \in new.clusters : c # d => ~Overlaps(c, d)
    BY <2>2, EvidenceAssumption, ClustersDisjoint DEF AloneInv, EventsFinite
  <2> HIDE DEF new
  <2> QED
    BY <1>2, <1>4, <1>6, <2>2, <2>3
<1>8. CASE DeleteStarts(k)
  <2>1. /\ new.pc = "deleting" /\ new.clusters = old.clusters
        /\ \A id \in Ids : Open(id) => id \in new.targets
    BY <1>3, <1>8 DEF DeleteStarts, Run
  <2>2. \A c, d \in new.clusters : c # d => ~Overlaps(c, d)
    BY <2>1 DEF AloneInv, ClustersApart
  <2> HIDE DEF new
  <2> QED
    BY <1>2, <1>4, <1>6, <2>1, <2>2
<1>9. CASE DeleteEnds(k)
  <2>1. /\ old.pc = "deleting" /\ new.pc = "deleted" /\ new.clusters = old.clusters
        /\ new.deleted = {id \in old.targets : Open(id)}
    BY <1>3, <1>9 DEF DeleteEnds, Run
  <2>2. \A c, d \in new.clusters : c # d => ~Overlaps(c, d)
    BY <2>1 DEF AloneInv, ClustersApart
  <2>3. \A id \in Ids : Open(id) => id \in new.deleted
    BY <2>1 DEF AloneInv, Covered
  <2> HIDE DEF new
  <2> QED
    BY <1>2, <1>4, <1>6, <2>1, <2>2, <2>3
<1>10. CASE ReadTriaged(k)
  <2>1. /\ old.pc = "deleted" /\ new.pc = "writing" /\ new.clusters = old.clusters
        /\ new.deleted = old.deleted
        /\ new.triaged = {objs[id] : id \in {i \in Ids : Triaged(i)}}
    BY <1>3, <1>10 DEF ReadTriaged, Run
  <2>2. \A c, d \in new.clusters : c # d => ~Overlaps(c, d)
    BY <2>1 DEF AloneInv, ClustersApart
  <2>3. \A id \in Ids : Open(id) => id \in new.deleted
    BY <2>1 DEF AloneInv, Covered
  <2>4. ASSUME NEW id \in Ids, Triaged(id) PROVE \E t \in new.triaged : SameWindow(objs[id], t)
    BY <2>1, <2>4 DEF SameWindow
  <2> HIDE DEF new
  <2> QED
    BY <1>2, <1>4, <1>6, <2>1, <2>2, <2>3, <2>4
<1>11. CASE Rollback(k)
  <2>1. new.pc = "idle" /\ new.clusters = {}
    BY <1>3, <1>11 DEF Rollback, Resting
  <2> HIDE DEF new
  <2> QED
    BY <1>2, <1>4, <1>6, <2>1
<1> QED
  BY <1>7, <1>8, <1>9, <1>10, <1>11

LEMMA CommitKeepsAlone ==
  ASSUME OneCorrelator, AloneInv, NEW k \in Correlators, NEW inUse, Commit(k, inUse)
  PROVE  ClustersApart' /\ Covered' /\ Triaging' /\ NoDuplicates'
<1>1. patch' = patch /\ corr'[k].pc = "idle" /\ corr'[k].clusters = {}
  BY DEF Commit, Resting, AloneInv, Locking, Shaped
<1>2. ClustersApart' /\ Covered'
  <2>1. \A j \in Correlators : corr'[j].pc = "idle" /\ corr'[j].clusters = {}
    BY <1>1 DEF OneCorrelator
  <2> QED
    BY <2>1 DEF ClustersApart, Covered
<1>3. Triaging'
  BY <1>1 DEF AloneInv, Triaging
<1> QED
  BY <1>2, <1>3, CommitAddsApart

LEMMA AloneStep ==
  ASSUME OneCorrelator, NothingReopened, AloneInv, NEW inUse, [EvidenceStep(inUse)]_vars
  PROVE  AloneInv'
<1>1. Locking' /\ EventsFinite'
  BY LockingStep, EventsStayFinite DEF AloneInv
<1>2. ASSUME objs' = objs, corr' = corr, Triaging'
      PROVE  ClustersApart' /\ Covered' /\ NoDuplicates'
  BY <1>2 DEF AloneInv, ClustersApart, Covered, NoDuplicates, Open, Triaged, Alive
<1>3. CASE UNCHANGED vars
  BY <1>1, <1>2, <1>3 DEF vars, AloneInv, Triaging
<1>4. ASSUME NEW e \in Events, Ingest(e) PROVE AloneInv'
  BY <1>1, <1>2, <1>4 DEF Ingest, AloneInv, Triaging
<1>5. ASSUME NEW k \in Correlators, CorrelateStep(k, inUse) PROVE AloneInv'
  BY <1>1, <1>5, RunKeepsAlone, CommitKeepsAlone DEF CorrelateStep, AloneInv
<1>6. ASSUME NEW a \in Analysts, NEW id \in Ids, NEW st \in Statuses, PatchReads(a, id, st)
      PROVE  AloneInv'
  <2>1. patch' = [patch EXCEPT ![a] = [pc |-> "read", id |-> id, status |-> st]]
    BY <1>6 DEF PatchReads
  <2>2. st = "triaged"
    BY EvidenceAssumption DEF NothingReopened
  <2>3. DOMAIN patch = Analysts
    BY DEF AloneInv, Locking, Shaped
  <2>4. Triaging'
    BY <2>1, <2>2, <2>3 DEF AloneInv, Triaging
  <2> QED
    BY <1>1, <1>2, <1>6, <2>4 DEF PatchReads, AloneInv
<1>7. ASSUME NEW a \in Analysts, PatchWrites(a) PROVE AloneInv'
  BY <1>1, <1>7, PatchKeepsAlone DEF AloneInv
<1> QED
  BY <1>3, <1>4, <1>5, <1>6, <1>7 DEF EvidenceStep, PatchStep

LEMMA AloneInit == Init => AloneInv
<1> SUFFICES ASSUME Init PROVE AloneInv
  OBVIOUS
<1>1. Locking /\ EventsFinite
  BY LockingInit, FS_EmptySet DEF Init, EventsFinite
<1>2. ClustersApart /\ Covered
  BY DEF Init, Resting, ClustersApart, Covered
<1>3. Triaging /\ NoDuplicates
  BY DEF Init, NoPatch, NoObject, Triaging, NoDuplicates, Alive
<1> QED
  BY <1>1, <1>2, <1>3 DEF AloneInv

(* "rerun replaces, does not duplicate": whatever the events, windows and  *)
(* analysts, while correlation runs one at a time and triage is not undone *)
(* no two evidence objects describe one minute of a host.                  *)
THEOREM RerunReplaces ==
  ASSUME OneCorrelator, NothingReopened
  PROVE  Spec => []NoDuplicates
<1>1. AloneInv /\ [Next]_vars => AloneInv'
  BY AloneStep DEF Next
<1>2. AloneInv => NoDuplicates
  BY DEF AloneInv
<1> QED
  BY <1>1, <1>2, AloneInit, PTL DEF Spec

(* No step brings back what was dismissed.                                 *)
LEMMA NewStaysApart ==
  ASSUME AloneInv, NEW inUse, [EvidenceStep(inUse)]_vars,
         NEW id \in Ids, NEW t \in Ids, ~Alive(id), Alive(id)', Triaged(t)
  PROVE  ~Overlaps(objs'[id], objs[t])
<1>1. objs'[id] # objs[id]
  BY DEF Alive
<1>2. ASSUME NEW k \in Correlators, Commit(k, inUse) PROVE ~Overlaps(objs'[id], objs[t])
  BY <1>2, CommitAddsApart
<1>3. ASSUME NEW a \in Analysts, PatchWrites(a) PROVE FALSE
  <2>1. CASE patch[a].id = id
    BY <1>1, <1>3, <2>1 DEF PatchWrites
  <2>2. CASE patch[a].id # id
    BY <1>1, <1>3, <2>2 DEF PatchWrites
  <2> QED
    BY <2>1, <2>2
<1> QED
  BY <1>1, <1>2, <1>3 DEF vars, EvidenceStep, CorrelateStep, PatchStep, Ingest, Read,
     DeleteStarts, DeleteEnds, ReadTriaged, Rollback, PatchReads

(* "not resurrected as a fresh open alert": under the same conditions no   *)
(* new object overlaps one that is triaged when it appears.                *)
THEOREM DismissedStaysDismissed ==
  ASSUME OneCorrelator, NothingReopened
  PROVE  Spec => NotResurrected
<1>1. AloneInv /\ [Next]_vars => AloneInv'
  BY AloneStep DEF Next
<1>2. AloneInv /\ [Next]_vars =>
        [\A id, t \in Ids : ~Alive(id) /\ Alive(id)' /\ Triaged(t)
           => ~Overlaps(objs'[id], objs[t])]_vars
  BY NewStaysApart DEF Next
<1> QED
  BY <1>1, <1>2, AloneInit, PTL DEF Spec, NotResurrected

(* Investigations and cases do not disturb correlation: beside any number  *)
(* of them the clusters stay cut at the silences, no two evidence objects  *)
(* describe one minute of a host, and what was dismissed stays dismissed.  *)
THEOREM DependentsLeaveEvidenceAlone ==
  ASSUME OneCorrelator, NothingReopened
  PROVE  DepSpec => []ClustersAreChains /\ []NoDuplicates /\ NotResurrected
<1>1. DepInit => AloneInv
  BY AloneInit DEF DepInit
<1>2. AloneInv /\ [DepNext]_depVars => AloneInv'
  <2> SUFFICES ASSUME AloneInv, [DepNext]_depVars PROVE AloneInv'
    OBVIOUS
  <2>1. [EvidenceStep(InUse)]_vars
    BY DependentsOnlyRead
  <2> QED
    BY <2>1, AloneStep
<1>3. AloneInv => NoDuplicates /\ ClustersAreChains
  BY FiniteIsCut DEF AloneInv
<1>4. AloneInv /\ [DepNext]_depVars =>
        [\A id, t \in Ids : ~Alive(id) /\ Alive(id)' /\ Triaged(t)
           => ~Overlaps(objs'[id], objs[t])]_vars
  BY DependentsOnlyRead, NewStaysApart
<1> QED
  BY <1>1, <1>2, <1>3, <1>4, PTL DEF DepSpec, NotResurrected
-----------------------------------------------------------------------------
(* Triage that is not undone: what an analyst has triaged stays so, with   *)
(* its window, whatever any number of passes do.                           *)
LEMMA TriagedKeeps ==
  ASSUME Locking, Triaging, NEW inUse, [EvidenceStep(inUse)]_vars, NEW id \in Ids, Triaged(id)
  PROVE  Triaged(id)' /\ SameWindow(objs'[id], objs[id])
<1> USE DEF Locking, Shaped, Row, Triaged, Alive, Open, SameWindow
<1>1. CASE objs' = objs
  BY <1>1
<1>2. ASSUME NEW k \in Correlators, Commit(k, inUse)
      PROVE  Triaged(id)' /\ SameWindow(objs'[id], objs[id])
  <2>1. ~LockedBy(k, id)
    BY DEF LocksHold, LockedBy
  <2>2. objs'[id] = objs[id]
    BY <1>2, <2>1, CommitKeeps
  <2> QED
    BY <2>2
<1>3. ASSUME NEW a \in Analysts, PatchWrites(a)
      PROVE  Triaged(id)' /\ SameWindow(objs'[id], objs[id])
  <2>1. patch[a].status = "triaged"
    BY <1>3 DEF PatchWrites, Triaging
  <2> QED
    BY <1>3, <2>1 DEF PatchWrites
<1> QED
  BY <1>1, <1>2, <1>3 DEF EvidenceStep, vars, CorrelateStep, PatchStep, Ingest, Read, DeleteStarts,
     DeleteEnds, ReadTriaged, Rollback, PatchReads

LEMMA TriagingStep ==
  ASSUME NothingReopened, Locking, Triaging, NEW inUse, [EvidenceStep(inUse)]_vars
  PROVE  Triaging'
<1>1. ASSUME NEW a \in Analysts, NEW id \in Ids, NEW st \in Statuses, PatchReads(a, id, st)
      PROVE  Triaging'
  <2>1. st = "triaged" /\ DOMAIN patch = Analysts
    BY EvidenceAssumption DEF NothingReopened, Locking, Shaped
  <2> QED
    BY <1>1, <2>1 DEF PatchReads, Triaging
<1>2. ASSUME NEW a \in Analysts, PatchWrites(a) PROVE Triaging'
  BY <1>2 DEF PatchWrites, Triaging, Locking, Shaped, NoPatch
<1>3. CASE patch' = patch
  BY <1>3 DEF Triaging
<1> QED
  BY <1>1, <1>2, <1>3 DEF EvidenceStep, vars, CorrelateStep, PatchStep, Ingest, Read, DeleteStarts,
     DeleteEnds, ReadTriaged, Commit, Rollback

(* What a pass holds: clusters in whose windows their events lie, and      *)
(* triaged windows that are still there.                                   *)
Spanned ==
  \A k \in Correlators : \A c \in corr[k].clusters : \A e \in c.events : Holds(c, e)

StillSeen ==
  \A k \in Correlators : corr[k].pc = "writing" =>
    \A t \in corr[k].triaged : \E id \in Ids : Triaged(id) /\ SameWindow(objs[id], t)

AnswerInv == Locking /\ EventsFinite /\ Triaging /\ Spanned /\ StillSeen

LEMMA AnswerInit == Init => AnswerInv
<1> SUFFICES ASSUME Init PROVE AnswerInv
  OBVIOUS
<1>1. Locking /\ EventsFinite
  BY LockingInit, FS_EmptySet DEF Init, EventsFinite
<1>2. Triaging /\ Spanned /\ StillSeen
  BY DEF Init, NoPatch, Resting, Triaging, Spanned, StillSeen
<1> QED
  BY <1>1, <1>2 DEF AnswerInv

(* One correlator moves: what it holds now is in order, and what the       *)
(* others hold is as it was.                                               *)
LEMMA PassMoves ==
  ASSUME AnswerInv, NEW k \in Correlators, NEW r, corr' = [corr EXCEPT ![k] = r],
         \A c \in r.clusters : \A e \in c.events : Holds(c, e),
         \A id \in Ids : Triaged(id) => Triaged(id)' /\ SameWindow(objs'[id], objs[id]),
         r.pc = "writing" =>
           \A t \in r.triaged : \E id \in Ids : Triaged(id)' /\ SameWindow(objs'[id], t)
  PROVE  Spanned' /\ StillSeen'
<1>1. /\ DOMAIN corr = Correlators /\ corr'[k] = r
      /\ \A j \in Correlators : j # k => corr'[j] = corr[j]
  BY DEF AnswerInv, Locking, Shaped
<1>2. \A j \in Correlators : \A c \in corr'[j].clusters : \A e \in c.events : Holds(c, e)
  BY <1>1 DEF AnswerInv, Spanned
<1>3. ASSUME NEW j \in Correlators, corr'[j].pc = "writing", NEW t \in corr'[j].triaged
      PROVE  \E id \in Ids : Triaged(id)' /\ SameWindow(objs'[id], t)
  <2>1. CASE j = k
    BY <1>1, <1>3, <2>1
  <2>2. CASE j # k
    <3>1. PICK id \in Ids : Triaged(id) /\ SameWindow(objs[id], t)
      BY <1>1, <1>3, <2>2 DEF AnswerInv, StillSeen
    <3> QED
      BY <3>1 DEF SameWindow
  <2> QED
    BY <2>1, <2>2
<1> QED
  BY <1>2, <1>3 DEF Spanned, StillSeen, Holds, SameWindow

LEMMA AnswerStep ==
  ASSUME NothingReopened, AnswerInv, NEW inUse, [EvidenceStep(inUse)]_vars
  PROVE  AnswerInv'
<1>1. Locking' /\ EventsFinite' /\ Triaging'
  BY LockingStep, EventsStayFinite, TriagingStep DEF AnswerInv
<1>2. \A id \in Ids : Triaged(id) => Triaged(id)' /\ SameWindow(objs'[id], objs[id])
  BY TriagedKeeps DEF AnswerInv
<1>3. CASE corr' = corr
  <2>1. Spanned'
    BY <1>3 DEF AnswerInv, Spanned, Holds
  <2>2. ASSUME NEW k \in Correlators, corr'[k].pc = "writing", NEW t \in corr'[k].triaged
        PROVE  \E id \in Ids : Triaged(id)' /\ SameWindow(objs'[id], t)
    <3>1. PICK id \in Ids : Triaged(id) /\ SameWindow(objs[id], t)
      BY <1>3, <2>2 DEF AnswerInv, StillSeen
    <3> QED
      BY <1>2, <3>1 DEF SameWindow
  <2>3. StillSeen'
    BY <2>2 DEF StillSeen, SameWindow
  <2> QED
    BY <1>1, <2>1, <2>3 DEF AnswerInv
<1>4. ASSUME NEW k \in Correlators, Read(k) PROVE Spanned' /\ StillSeen'
  <2>1. PICK window \in Windows : corr' = [corr EXCEPT ![k] = [Resting EXCEPT !.pc = "read",
                                      !.clusters = Clusters(events, window)]]
    BY <1>4 DEF Read
  <2> DEFINE r == [Resting EXCEPT !.pc = "read", !.clusters = Clusters(events, window)]
  <2>2. r.pc = "read" /\ r.clusters = Clusters(events, window)
    BY DEF Resting
  <2>3. ASSUME NEW c \in Clusters(events, window), NEW e \in c.events PROVE Holds(c, e)
    BY EvidenceAssumption, ClustersSound DEF AnswerInv, EventsFinite, Chained, Holds
  <2>4. corr' = [corr EXCEPT ![k] = r]
    BY <2>1
  <2> HIDE DEF r
  <2> QED
    BY <1>2, <2>2, <2>3, <2>4, PassMoves
<1>5. ASSUME NEW k \in Correlators, DeleteStarts(k) \/ DeleteEnds(k)
      PROVE  Spanned' /\ StillSeen'
  <2> DEFINE r == corr'[k]
  <2>1. corr' = [corr EXCEPT ![k] = r]
    BY <1>5 DEF DeleteStarts, DeleteEnds, AnswerInv, Locking, Shaped
  <2>2. r.clusters = corr[k].clusters /\ r.pc # "writing"
    BY <1>5 DEF DeleteStarts, DeleteEnds, AnswerInv, Locking, Shaped, Run
  <2> HIDE DEF r
  <2> QED
    BY <1>2, <2>1, <2>2, PassMoves DEF AnswerInv, Spanned
<1>6. ASSUME NEW k \in Correlators, ReadTriaged(k) PROVE Spanned' /\ StillSeen'
  <2> DEFINE seen == {objs[id] : id \in {i \in Ids : Triaged(i)}}
             r    == [corr[k] EXCEPT !.pc = "writing", !.triaged = seen]
  <2>1. corr' = [corr EXCEPT ![k] = r] /\ objs' = objs
    BY <1>6 DEF ReadTriaged
  <2>2. r.clusters = corr[k].clusters /\ r.triaged = seen
    BY DEF AnswerInv, Locking, Shaped, Run
  <2> HIDE DEF r
  <2>3. \A t \in r.triaged : \E id \in Ids : Triaged(id)' /\ SameWindow(objs'[id], t)
    BY <1>2, <2>2 DEF SameWindow
  <2> QED
    BY <1>2, <2>1, <2>2, <2>3, PassMoves DEF AnswerInv, Spanned
<1>7. ASSUME NEW k \in Correlators, Commit(k, inUse) \/ Rollback(k) PROVE Spanned' /\ StillSeen'
  <2>1. corr' = [corr EXCEPT ![k] = Resting] /\ Resting.clusters = {} /\ Resting.pc # "writing"
    BY <1>7 DEF Commit, Rollback, Resting
  <2> QED
    BY <1>2, <2>1, PassMoves
<1> QED
  BY <1>1, <1>3, <1>4, <1>5, <1>6, <1>7
     DEF AnswerInv, EvidenceStep, vars, CorrelateStep, PatchStep, Ingest, PatchReads, PatchWrites

(* Every cluster a pass writes has an object when it has committed.        *)
LEMMA CommitWritesAll ==
  ASSUME Locking, NEW k \in Correlators, NEW inUse, Commit(k, inUse), NEW c \in Written(k)
  PROVE  \E id \in Ids : objs'[id] = Fresh(c)
<1> DEFINE row == CHOOSE f \in [Written(k) -> Unused(inUse)] : IsInjective(f)
           new == [id \in Range(row) |-> Fresh(CHOOSE d \in Written(k) : row[d] = id)]
<1>1. row \in [Written(k) -> Unused(inUse)] /\ IsInjective(row)
  BY DEF Commit
<1>2. objs' = [id \in Ids |->
        CASE LockedBy(k, id)   -> NoObject
          [] id \in DOMAIN new -> new[id]
          [] OTHER             -> objs[id]]
  BY DEF Commit
<1> HIDE DEF row
<1>3. row[c] \in Ids /\ ~Alive(row[c])
  BY <1>1 DEF Unused
<1>4. ~LockedBy(k, row[c])
  BY <1>3 DEF Locking, LocksHold, LockedBy, Open, Alive
<1>5. row[c] \in DOMAIN new /\ new[row[c]] = Fresh(c)
  <2>1. row[c] \in Range(row)
    BY <1>1 DEF Range
  <2>2. \A d \in Written(k) : row[d] = row[c] => d = c
    BY <1>1 DEF IsInjective
  <2>3. (CHOOSE d \in Written(k) : row[d] = row[c]) = c
    BY <2>2
  <2> QED
    BY <2>1, <2>3
<1> HIDE DEF new
<1>6. objs'[row[c]] = Fresh(c)
  BY <1>2, <1>3, <1>4, <1>5
<1> QED
  BY <1>3, <1>6

LEMMA CommitAnswers ==
  ASSUME NothingReopened, AnswerInv, NEW k \in Correlators
  PROVE  AnswersAll(k)
<1> SUFFICES ASSUME NEW inUse \in SUBSET Ids, Commit(k, inUse),
                    NEW c \in corr[k].clusters, NEW e \in c.events
             PROVE  Answered(e, c)'
  BY DEF AnswersAll
<1>1. CASE c \in Written(k)
  <2>1. PICK id \in Ids : objs'[id] = Fresh(c)
    BY <1>1, CommitWritesAll DEF AnswerInv
  <2>2. Holds(c, e)
    BY DEF AnswerInv, Spanned
  <2> QED
    BY <2>1, <2>2 DEF Fresh, Alive, Holds, Answered
<1>2. CASE c \notin Written(k)
  <2>1. PICK t \in corr[k].triaged : Overlaps(c, t)
    BY <1>2 DEF Written, AlreadyTriaged
  <2>2. PICK id \in Ids : Triaged(id) /\ SameWindow(objs[id], t)
    BY <2>1 DEF AnswerInv, StillSeen, Commit
  <2>3. EvidenceStep(inUse)
    BY DEF EvidenceStep, CorrelateStep
  <2>4. Triaged(id)' /\ SameWindow(objs'[id], objs[id])
    BY <2>2, <2>3, TriagedKeeps DEF AnswerInv
  <2>5. Overlaps(objs'[id], c)
    BY <2>1, <2>2, <2>4 DEF SameWindow, Overlaps
  <2> QED
    BY <2>4, <2>5 DEF Answered, Overlaps
<1> QED
  BY <1>1, <1>2

(* While triage is not undone, no pass that commits leaves an event it has *)
(* read without an answer, however many passes and analysts there are: its *)
(* cluster was written, or touches an object that is triaged to this day.  *)
THEOREM PassesLeaveNoGap ==
  ASSUME NothingReopened
  PROVE  Spec => PassesAnswer
<1>1. AnswerInv /\ [Next]_vars => AnswerInv'
  BY AnswerStep DEF Next
<1>2. AnswerInv => [\A k \in Correlators : AnswersAll(k)]_vars
  BY CommitAnswers
<1> QED
  BY <1>1, <1>2, AnswerInit, PTL DEF Spec, PassesAnswer
-----------------------------------------------------------------------------
(* Types.  What a pass has read are clusters of events that were ingested, *)
(* so every object begins and ends at the time of an event of its host.    *)
TypeInv == EventsFinite /\ TypeOK

LEMMA ClustersTyped ==
  ASSUME EventsFinite, NEW window \in Windows
  PROVE  Clusters(events, window) \subseteq Windowed
<1>1. window \in Nat
  BY EvidenceAssumption
<1>2. ASSUME NEW c \in Clusters(events, window) PROVE c \in Windowed
  <2>1. c \in ClusterType /\ Chained(c, window) /\ c.events \subseteq Events
    BY <1>1, ClustersSound DEF EventsFinite
  <2>2. PICK e \in c.events : TimeOf[e] = c.start
    BY <2>1 DEF Chained
  <2>3. PICK f \in c.events : TimeOf[f] = c.end
    BY <2>1 DEF Chained
  <2>4. c.host = HostOf[e] /\ e \in Events /\ f \in Events
    BY <2>1, <2>2, <2>3 DEF Chained
  <2>5. c.host \in {HostOf[g] : g \in Events} /\ c.start \in Times /\ c.end \in Times
    BY <2>2, <2>3, <2>4 DEF Times
  <2> QED
    BY <2>1, <2>5 DEF ClusterType, Windowed
<1> QED
  BY <1>2

Passes ==
  [pc : {"idle", "read", "deleting", "deleted", "writing"}, clusters : SUBSET Windowed,
   targets : SUBSET Ids, deleted : SUBSET Ids, triaged : SUBSET Objects]

Requested == [pc : {"idle", "read"}, id : Ids, status : {"open", "triaged"}]

LEMMA InitTyped == Init => TypeInv
<1> SUFFICES ASSUME Init PROVE TypeInv
  OBVIOUS
<1>1. EventsFinite
  BY FS_EmptySet DEF Init, EventsFinite
<1>2. Resting \in Passes /\ NoPatch \in Requested
  BY EvidenceAssumption DEF Resting, NoPatch, Passes, Requested
<1> QED
  BY <1>1, <1>2 DEF Init, TypeInv, TypeOK, Passes, Requested

LEMMA PassTyped ==
  ASSUME TypeInv, NEW k \in Correlators, NEW r \in Passes, corr' = [corr EXCEPT ![k] = r],
         UNCHANGED <<events, objs, patch>>
  PROVE  TypeInv'
BY DEF TypeInv, EventsFinite, TypeOK, Passes

(* What a commit puts into the table.                                      *)
LEMMA CommitTyped ==
  ASSUME TypeInv, NEW k \in Correlators, NEW inUse, Commit(k, inUse)
  PROVE  TypeInv'
<1>1. PICK row \in [Written(k) -> Unused(inUse)] :
        /\ DOMAIN objs' = Ids
        /\ \A id \in Ids :
             \/ LockedBy(k, id) /\ objs'[id] = NoObject
             \/ \E c \in Written(k) : row[c] = id /\ objs'[id] = Fresh(c)
             \/ ~LockedBy(k, id) /\ objs'[id] = objs[id]
  BY CommitWrites
<1>2. \A c \in Written(k) : Fresh(c) \in Objects
  <2> SUFFICES ASSUME NEW c \in Written(k) PROVE Fresh(c) \in Objects
    OBVIOUS
  <2>1. corr[k] \in Passes
    BY DEF TypeInv, TypeOK, Passes
  <2>2. c \in Windowed
    BY <2>1 DEF Written, Passes
  <2> QED
    BY <2>2 DEF Windowed, Fresh, Objects
<1>3. \A id \in Ids : objs[id] \in Objects \union {NoObject}
  BY DEF TypeInv, TypeOK
<1>4. \A id \in Ids : objs'[id] \in Objects \union {NoObject}
  BY <1>1, <1>2, <1>3
<1>5. objs' = [id \in Ids |-> objs'[id]]
  BY DEF Commit
<1>6. objs' \in [Ids -> Objects \union {NoObject}]
  BY <1>4, <1>5
<1>7. Resting \in Passes
  BY DEF Resting, Passes
<1>8. corr' \in [Correlators -> Passes]
  BY <1>7 DEF Commit, TypeInv, TypeOK, Passes
<1>9. UNCHANGED <<events, patch>>
  BY DEF Commit
<1> QED
  BY <1>6, <1>8, <1>9 DEF TypeInv, EventsFinite, TypeOK, Passes

LEMMA CorrelateTyped ==
  ASSUME TypeInv, NEW k \in Correlators, NEW inUse, CorrelateStep(k, inUse)
  PROVE  TypeInv'
<1>1. corr[k] \in Passes /\ DOMAIN corr = Correlators /\ Resting \in Passes
  BY DEF TypeInv, TypeOK, Passes, Resting
<1>2. CASE Read(k)
  <2>1. PICK window \in Windows :
          corr' = [corr EXCEPT ![k] = [Resting EXCEPT !.pc = "read",
                                         !.clusters = Clusters(events, window)]]
    BY <1>2 DEF Read
  <2>2. Clusters(events, window) \subseteq Windowed
    BY ClustersTyped DEF TypeInv
  <2> DEFINE r == [Resting EXCEPT !.pc = "read", !.clusters = Clusters(events, window)]
  <2>3. r \in Passes
    BY <1>1, <2>2 DEF Passes
  <2>4. corr' = [corr EXCEPT ![k] = r] /\ UNCHANGED <<events, objs, patch>>
    BY <1>2, <2>1 DEF Read
  <2> HIDE DEF r
  <2> QED
    BY <2>3, <2>4, PassTyped
<1>3. CASE DeleteStarts(k)
  <2> DEFINE r == [corr[k] EXCEPT !.pc = "deleting", !.targets = {id \in Ids : Open(id)}]
  <2>1. r \in Passes
    BY <1>1 DEF Passes
  <2>2. corr' = [corr EXCEPT ![k] = r] /\ UNCHANGED <<events, objs, patch>>
    BY <1>1, <1>3 DEF DeleteStarts
  <2> HIDE DEF r
  <2> QED
    BY <2>1, <2>2, PassTyped
<1>4. CASE DeleteEnds(k)
  <2> DEFINE r == [corr[k] EXCEPT !.pc = "deleted", !.targets = {},
                                  !.deleted = {id \in corr[k].targets : Open(id)}]
  <2>1. r \in Passes
    BY <1>1 DEF Passes
  <2>2. corr' = [corr EXCEPT ![k] = r] /\ UNCHANGED <<events, objs, patch>>
    BY <1>1, <1>4 DEF DeleteEnds
  <2> HIDE DEF r
  <2> QED
    BY <2>1, <2>2, PassTyped
<1>5. CASE ReadTriaged(k)
  <2> DEFINE seen == {objs[id] : id \in {i \in Ids : Triaged(i)}}
             r == [corr[k] EXCEPT !.pc = "writing", !.triaged = seen]
  <2>1. \A id \in Ids : Triaged(id) => objs[id] \in Objects
    BY DEF TypeInv, TypeOK, Triaged, Alive, NoObject
  <2>2. seen \subseteq Objects
    BY <2>1
  <2>3. corr' = [corr EXCEPT ![k] = r] /\ UNCHANGED <<events, objs, patch>>
    BY <1>1, <1>5 DEF ReadTriaged
  <2> HIDE DEF seen
  <2>4. r \in Passes
    BY <1>1, <2>2 DEF Passes
  <2> HIDE DEF r
  <2> QED
    BY <2>3, <2>4, PassTyped
<1>6. CASE Commit(k, inUse)
  BY <1>6, CommitTyped
<1>7. CASE Rollback(k)
  BY <1>1, <1>7, PassTyped DEF Rollback
<1> QED
  BY <1>2, <1>3, <1>4, <1>5, <1>6, <1>7 DEF CorrelateStep

LEMMA StepTyped ==
  ASSUME TypeInv, NEW inUse, [EvidenceStep(inUse)]_vars
  PROVE  TypeInv'
<1>1. EventsFinite'
  BY EventsStayFinite DEF TypeInv
<1>2. CASE UNCHANGED vars
  BY <1>1, <1>2 DEF vars, TypeInv, TypeOK
<1>3. ASSUME NEW e \in Events, Ingest(e) PROVE TypeInv'
  BY <1>1, <1>3 DEF Ingest, TypeInv, TypeOK
<1>4. ASSUME NEW k \in Correlators, CorrelateStep(k, inUse) PROVE TypeInv'
  BY <1>4, CorrelateTyped
<1>5. ASSUME NEW a \in Analysts, NEW id \in Ids, NEW st \in Statuses, PatchReads(a, id, st)
      PROVE  TypeInv'
  <2>1. [pc |-> "read", id |-> id, status |-> st] \in Requested
    BY EvidenceAssumption DEF Requested
  <2>2. patch' \in [Analysts -> Requested]
    BY <1>5, <2>1 DEF PatchReads, TypeInv, TypeOK, Requested
  <2>3. UNCHANGED <<events, objs, corr>>
    BY <1>5 DEF PatchReads
  <2> QED
    BY <1>1, <2>2, <2>3 DEF TypeInv, TypeOK, Requested
<1>6. ASSUME NEW a \in Analysts, PatchWrites(a) PROVE TypeInv'
  <2>1. patch[a] \in Requested /\ NoPatch \in Requested
    BY EvidenceAssumption DEF TypeInv, TypeOK, Requested, NoPatch
  <2>2. patch' \in [Analysts -> Requested]
    BY <1>6, <2>1 DEF PatchWrites, TypeInv, TypeOK, Requested
  <2> DEFINE o == [objs[patch[a].id] EXCEPT !.status = patch[a].status]
  <2>3. ASSUME Alive(patch[a].id) PROVE o \in Objects
    <3>1. objs[patch[a].id] \in Objects
      BY <2>1, <2>3 DEF TypeInv, TypeOK, Requested, Alive, NoObject
    <3> QED
      BY <2>1, <3>1 DEF Objects, Requested
  <2>4. \/ objs' = objs
        \/ Alive(patch[a].id) /\ objs' = [objs EXCEPT ![patch[a].id] = o]
    BY <1>6 DEF PatchWrites
  <2> HIDE DEF o
  <2>5. objs' \in [Ids -> Objects \union {NoObject}]
    BY <2>1, <2>3, <2>4 DEF TypeInv, TypeOK
  <2>6. UNCHANGED <<events, corr>>
    BY <1>6 DEF PatchWrites
  <2> QED
    BY <1>1, <2>2, <2>5, <2>6 DEF TypeInv, TypeOK, Requested
<1> QED
  BY <1>2, <1>3, <1>4, <1>5, <1>6 DEF EvidenceStep, PatchStep

(* Every table and every transaction of evidence, investigations and cases *)
(* keeps its type: an object spans a time of events, of a host of theirs,  *)
(* a run is at one of its stages, a link is of a case and an evidence id.  *)
THEOREM EvidenceIsTyped == Cases # {} => (DepSpec => []DepTypeOK)
<1>1. Cases # {} /\ DepInit => TypeInv /\ DanglingInv
  BY InitTyped, InitDangling DEF DepInit
<1>2. TypeInv /\ [DepNext]_depVars => TypeInv'
  <2> SUFFICES ASSUME TypeInv, [DepNext]_depVars PROVE TypeInv'
    OBVIOUS
  <2>1. [EvidenceStep(InUse)]_vars
    BY DependentsOnlyRead
  <2> QED
    BY <2>1, StepTyped
<1>3. TypeInv /\ DanglingInv => DepTypeOK
  BY DEF TypeInv, DanglingInv, RowsInv, LinksInv, DepTypeOK
<1> QED
  BY <1>1, <1>2, <1>3, NextDangling, PTL DEF DepSpec
=============================================================================
