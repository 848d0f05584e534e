--------------------------- MODULE AnalysisProofs ---------------------------
(***************************************************************************)
(* The pure parts of the pipeline, for samples of any size: any events of  *)
(* a graph and any depth of a chain, any words of an alert, any payload,   *)
(* any narrative.                                                          *)
(***************************************************************************)
EXTENDS Analysis, FiniteSetTheorems, SequenceTheorems, WellFoundedInduction, TLAPS

(* A nonempty set of naturals has a least element.                         *)
LEMMA LeastExists ==
  ASSUME NEW T, T \subseteq Nat, T # {}
  PROVE  \E m \in T : \A n \in T : m <= n
<1>1. PICK m \in T : \A n \in T : <<n, m>> \notin OpToRel(<, Nat)
  BY NatLessThanWellFounded, WFMin
<1>2. ASSUME NEW n \in T PROVE m <= n
  <2>1. <<n, m>> \in Nat \X Nat /\ ~(n < m)
    BY <1>1 DEF OpToRel
  <2> QED BY <2>1
<1> QED BY <1>2

(* A nonempty finite set of naturals has a greatest element: the one with  *)
(* the least set of elements from it upwards.                              *)
LEMMA GreatestExists ==
  ASSUME NEW T, T \subseteq Nat, T # {}, IsFiniteSet(T)
  PROVE  Max(T) \in T /\ \A n \in T : n <= Max(T)
<1> DEFINE From(n) == {x \in T : n <= x}
           Ups == {From(n) : n \in T}
<1>1. Ups \subseteq FiniteSubsetsOf(T) /\ Ups # {}
  <2>1. \A n \in T : IsFiniteSet(From(n))
    BY FS_Subset
  <2> QED BY <2>1 DEF FiniteSubsetsOf
<1>2. PICK least \in Ups : \A up \in Ups : <<up, least>> \notin StrictSubsetOrdering(T)
  BY <1>1, FS_StrictSubsetOrderingWellFounded, WFMin
<1>3. PICK m \in T : least = From(m)
  OBVIOUS
<1>4. ASSUME NEW n \in T PROVE n <= m
  <2> SUFFICES ASSUME m < n PROVE FALSE
    OBVIOUS
  <2>1. From(n) \subseteq From(m) /\ m \in From(m) /\ m \notin From(n)
    <3>1. m \in Nat /\ n \in Nat /\ \A x \in T : x \in Nat
      OBVIOUS
    <3>2. ASSUME NEW x \in From(n) PROVE x \in From(m)
      <4>1. x \in T /\ n <= x /\ x \in Nat
        BY <3>1
      <4>2. m <= x
        BY <3>1, <4>1
      <4> QED BY <4>1, <4>2
    <3>3. m \in From(m) /\ m \notin From(n)
      BY <3>1
    <3> HIDE DEF From
    <3> QED BY <3>2, <3>3
  <2>2. From(n) \in Ups /\ From(m) \in Ups
    OBVIOUS
  <2> HIDE DEF From, Ups
  <2>3. <<From(n), From(m)>> \notin StrictSubsetOrdering(T)
    BY <1>2, <1>3, <2>2
  <2>4. From(n) \in SUBSET T /\ From(m) \in SUBSET T
    BY <1>1, <2>2 DEF FiniteSubsetsOf
  <2> QED BY <1>1, <2>1, <2>2, <2>3, <2>4 DEF StrictSubsetOrdering, FiniteSubsetsOf
<1>5. \E x \in T : \A y \in T : x >= y
  BY <1>4
<1> QED BY <1>5 DEF Max
-----------------------------------------------------------------------------
(* The chains of an evidence graph, for any events and any depth: the rows *)
(* of a level are paths that never come back to an entity, and a path has  *)
(* all its beginnings among the rows of the levels before.  So an entity   *)
(* that the edges reach is reached by a path that visits none twice.       *)
IsLevels(level, edges, root, n) ==
  level = [d \in 0..n |->
             IF d = 0 THEN Graph!Start(root) ELSE Graph!Deeper(edges, level[d - 1])]

IsHops(hops, edges, root, n) ==
  hops = [d \in 0..n |-> IF d = 0 THEN {root} ELSE Graph!Wider(edges, hops[d - 1])]

LEMMA LevelsExist ==
  ASSUME NEW edges, NEW root, NEW n \in Nat
  PROVE  \E level : IsLevels(level, edges, root, n)
<1> DEFINE Bad == {m \in Nat : ~\E level : IsLevels(level, edges, root, m)}
<1> SUFFICES ASSUME Bad # {} PROVE FALSE
  OBVIOUS
<1>1. PICK m \in Bad : \A k \in Bad : m <= k
  <2>1. Bad \subseteq Nat
    OBVIOUS
  <2> HIDE DEF Bad
  <2> QED BY <2>1, LeastExists
<1>2. CASE m = 0
  <2> DEFINE f == [d \in 0..0 |-> Graph!Start(root)]
  <2>1. IsLevels(f, edges, root, 0)
    BY DEF IsLevels
  <2> QED BY <1>2, <2>1
<1>3. CASE m # 0
  <2>1. m - 1 \in Nat /\ ~(m <= m - 1)
    BY <1>3
  <2>2. PICK f : IsLevels(f, edges, root, m - 1)
    BY <1>1, <2>1
  <2> DEFINE g == [d \in 0..m |-> IF d = m THEN Graph!Deeper(edges, f[m - 1]) ELSE f[d]]
  <2>3. f = [d \in 0..(m - 1) |-> IF d = 0 THEN Graph!Start(root) ELSE Graph!Deeper(edges, f[d - 1])]
    BY <2>2 DEF IsLevels
  <2>4. ASSUME NEW d \in 0..m
        PROVE  g[d] = IF d = 0 THEN Graph!Start(root) ELSE Graph!Deeper(edges, g[d - 1])
    <3>1. CASE d = m
      <4>1. g[d - 1] = f[d - 1] /\ g[d] = Graph!Deeper(edges, f[d - 1])
        BY <1>3, <3>1
      <4> QED BY <1>3, <3>1, <4>1
    <3>2. CASE d # m
      <4>1. d \in 0..(m - 1) /\ g[d] = f[d]
        BY <3>2
      <4>2. f[d] = IF d = 0 THEN Graph!Start(root) ELSE Graph!Deeper(edges, f[d - 1])
        BY <2>3, <4>1
      <4>3. d # 0 => g[d - 1] = f[d - 1]
        BY <4>1
      <4> HIDE DEF g
      <4> QED BY <4>1, <4>2, <4>3
    <3> QED BY <3>1, <3>2
  <2>5. g = [d \in 0..m |-> IF d = 0 THEN Graph!Start(root) ELSE Graph!Deeper(edges, g[d - 1])]
    BY <2>4
  <2> HIDE DEF g
  <2>6. IsLevels(g, edges, root, m)
    BY <2>5 DEF IsLevels
  <2> QED BY <2>6
<1> QED BY <1>2, <1>3

LEMMA HopsExist ==
  ASSUME NEW edges, NEW root, NEW n \in Nat
  PROVE  \E hops : IsHops(hops, edges, root, n)
<1> DEFINE Bad == {m \in Nat : ~\E hops : IsHops(hops, edges, root, m)}
<1> SUFFICES ASSUME Bad # {} PROVE FALSE
  OBVIOUS
<1>1. PICK m \in Bad : \A k \in Bad : m <= k
  <2>1. Bad \subseteq Nat
    OBVIOUS
  <2> HIDE DEF Bad
  <2> QED BY <2>1, LeastExists
<1>2. CASE m = 0
  <2> DEFINE f == [d \in 0..0 |-> {root}]
  <2>1. IsHops(f, edges, root, 0)
    BY DEF IsHops
  <2> QED BY <1>2, <2>1
<1>3. CASE m # 0
  <2>1. m - 1 \in Nat /\ ~(m <= m - 1)
    BY <1>3
  <2>2. PICK f : IsHops(f, edges, root, m - 1)
    BY <1>1, <2>1
  <2> DEFINE g == [d \in 0..m |-> IF d = m THEN Graph!Wider(edges, f[m - 1]) ELSE f[d]]
  <2>3. f = [d \in 0..(m - 1) |-> IF d = 0 THEN {root} ELSE Graph!Wider(edges, f[d - 1])]
    BY <2>2 DEF IsHops
  <2>4. ASSUME NEW d \in 0..m
        PROVE  g[d] = IF d = 0 THEN {root} ELSE Graph!Wider(edges, g[d - 1])
    <3>1. CASE d = m
      <4>1. g[d - 1] = f[d - 1] /\ g[d] = Graph!Wider(edges, f[d - 1])
        BY <1>3, <3>1
      <4> QED BY <1>3, <3>1, <4>1
    <3>2. CASE d # m
      <4>1. d \in 0..(m - 1) /\ g[d] = f[d]
        BY <3>2
      <4>2. f[d] = IF d = 0 THEN {root} ELSE Graph!Wider(edges, f[d - 1])
        BY <2>3, <4>1
      <4>3. d # 0 => g[d - 1] = f[d - 1]
        BY <4>1
      <4> HIDE DEF g
      <4> QED BY <4>1, <4>2, <4>3
    <3> QED BY <3>1, <3>2
  <2>5. g = [d \in 0..m |-> IF d = 0 THEN {root} ELSE Graph!Wider(edges, g[d - 1])]
    BY <2>4
  <2> HIDE DEF g
  <2>6. IsHops(g, edges, root, m)
    BY <2>5 DEF IsHops
  <2> QED BY <2>6
<1> QED BY <1>2, <1>3

LEMMA OneLevel ==
  ASSUME NEW level, NEW edges, NEW root, NEW n \in Nat, IsLevels(level, edges, root, n),
         NEW d \in 1..n
  PROVE  level[d] = Graph!Deeper(edges, level[d - 1])
<1> DEFINE F(k) == IF k = 0 THEN Graph!Start(root) ELSE Graph!Deeper(edges, level[k - 1])
<1>1. level = [k \in 0..n |-> F(k)]
  BY DEF IsLevels
<1> HIDE DEF F
<1>2. level[d] = F(d)
  BY <1>1
<1> QED BY <1>2 DEF F

LEMMA OneHop ==
  ASSUME NEW hops, NEW edges, NEW root, NEW n \in Nat, IsHops(hops, edges, root, n),
         NEW d \in 1..n
  PROVE  hops[d] = Graph!Wider(edges, hops[d - 1])
<1> DEFINE F(k) == IF k = 0 THEN {root} ELSE Graph!Wider(edges, hops[k - 1])
<1>1. hops = [k \in 0..n |-> F(k)]
  BY DEF IsHops
<1> HIDE DEF F
<1>2. hops[d] = F(d)
  BY <1>1
<1> QED BY <1>2 DEF F

LEMMA LevelsUnfold ==
  ASSUME NEW edges, NEW root, NEW n \in Nat
  PROVE  IsLevels(Graph!Levels(edges, root, n), edges, root, n)
BY LevelsExist DEF IsLevels, Graph!Levels

LEMMA HopsUnfold ==
  ASSUME NEW edges, NEW root, NEW n \in Nat
  PROVE  IsHops(Graph!Hops(edges, root, n), edges, root, n)
<1>1. PICK f : IsHops(f, edges, root, n)
  BY HopsExist
<1>2. Graph!Hops(edges, root, n) = CHOOSE hops : IsHops(hops, edges, root, n)
  BY Zenon DEF IsHops, Graph!Hops
<1> QED BY <1>1, <1>2

(* The entities and relations a row may name.                              *)
Reachable(edges, root) == {root} \union {x.dst : x \in edges}
Relations(edges) == {x.relation : x \in edges}

(* A row of level d: a path of d edges without a circle.                   *)
IsRow(w, d, edges, root) ==
  /\ w.path \in Seq(Reachable(edges, root)) /\ Len(w.path) = d + 1
  /\ w.relations \in Seq(Relations(edges)) /\ Len(w.relations) = d
  /\ \A i, j \in 1..(d + 1) : w.path[i] = w.path[j] => i = j

(* Every beginning of the path is a row of an earlier level.               *)
HasBeginnings(w, d, level) ==
  \A i \in 1..(d + 1) : \E u \in level[i - 1] : u.path[i] = w.path[i]

(* A path that is the other one, as far as that goes.                      *)
Continues(v, w, d) == \A i \in 1..(d + 1) : v.path[i] = w.path[i]

LEMMA ExtensionIsRow ==
  ASSUME NEW edges, NEW root, NEW d \in Nat, NEW w, IsRow(w, d, edges, root),
         NEW v \in Graph!Extensions(edges, w)
  PROVE  /\ IsRow(v, d + 1, edges, root)
         /\ Continues(v, w, d)
         /\ \E x \in edges : x.src = w.path[d + 1] /\ x.dst = v.path[d + 2]
<1>1. PICK x \in edges :
        /\ x.src = Graph!Last(w.path) /\ x.dst \notin Graph!ToSet(w.path)
        /\ v = [path |-> Append(w.path, x.dst), relations |-> Append(w.relations, x.relation)]
  BY DEF Graph!Extensions
<1>2. /\ v.path = Append(w.path, x.dst) /\ v.relations = Append(w.relations, x.relation)
      /\ x.dst \in Reachable(edges, root) /\ x.relation \in Relations(edges)
  BY <1>1 DEF Reachable, Relations
<1>3. /\ w.path \in Seq(Reachable(edges, root)) /\ Len(w.path) = d + 1
      /\ w.relations \in Seq(Relations(edges)) /\ Len(w.relations) = d
      /\ DOMAIN w.path = 1..(d + 1)
  BY LenProperties DEF IsRow
<1>4. /\ v.path \in Seq(Reachable(edges, root)) /\ Len(v.path) = d + 2
      /\ v.path[d + 2] = x.dst
      /\ \A i \in 1..(d + 1) : v.path[i] = w.path[i]
  BY <1>2, <1>3, AppendProperties
<1>5. v.relations \in Seq(Relations(edges)) /\ Len(v.relations) = d + 1
  BY <1>2, <1>3, AppendProperties
<1>6. \A i \in 1..(d + 1) : w.path[i] # x.dst
  BY <1>1, <1>3 DEF Graph!ToSet
<1>7. \A i, j \in 1..(d + 1) : w.path[i] = w.path[j] => i = j
  BY DEF IsRow
<1>8. ASSUME NEW i \in 1..(d + 2), NEW j \in 1..(d + 2), v.path[i] = v.path[j]
      PROVE  i = j
  BY <1>4, <1>6, <1>7, <1>8
<1>9. x.src = w.path[d + 1]
  BY <1>1, <1>3 DEF Graph!Last
<1>10. IsRow(v, d + 1, edges, root)
  <2>1. (d + 1) + 1 = d + 2
    OBVIOUS
  <2> QED BY <1>4, <1>5, <1>8, <2>1 DEF IsRow
<1> QED BY <1>4, <1>9, <1>10 DEF Continues

(* Each row is a path, with its beginnings, to an entity within reach.     *)
LEMMA RowsArePaths ==
  ASSUME NEW edges, NEW root, NEW n \in Nat, NEW level, NEW hops,
         IsLevels(level, edges, root, n), IsHops(hops, edges, root, n)
  PROVE  \A d \in 0..n : \A w \in level[d] :
           IsRow(w, d, edges, root) /\ HasBeginnings(w, d, level) /\ w.path[d + 1] \in hops[d]
<1> DEFINE Good(w, d) == /\ IsRow(w, d, edges, root) /\ HasBeginnings(w, d, level)
                         /\ w.path[d + 1] \in hops[d]
           Bad == {d \in 0..n : ~\A w \in level[d] : Good(w, d)}
<1> SUFFICES ASSUME Bad # {} PROVE FALSE
  OBVIOUS
<1>1. PICK m \in Bad : \A k \in Bad : m <= k
  <2>1. Bad \subseteq Nat
    OBVIOUS
  <2> HIDE DEF Bad
  <2> QED BY <2>1, LeastExists
<1>2. PICK w \in level[m] : ~Good(w, m)
  BY <1>1
<1>3. CASE m = 0
  <2>1. w = [path |-> <<root>>, relations |-> <<>>] /\ hops[0] = {root}
    BY <1>2, <1>3 DEF IsLevels, IsHops, Graph!Start
  <2>2. root \in Reachable(edges, root)
    BY DEF Reachable
  <2>3. w.path = <<root>> /\ w.relations = <<>>
    BY <2>1
  <2>4. /\ w.path \in Seq(Reachable(edges, root)) /\ Len(w.path) = 1
        /\ w.relations \in Seq(Relations(edges)) /\ Len(w.relations) = 0
        /\ w.path[1] = root
    BY <2>2, <2>3, EmptySeq
  <2>5. IsRow(w, 0, edges, root)
    BY <2>4 DEF IsRow
  <2>6. HasBeginnings(w, 0, level)
    BY <1>2, <1>3 DEF HasBeginnings
  <2> QED BY <1>2, <1>3, <2>1, <2>4, <2>5, <2>6
<1>4. CASE m # 0
  <2>1. m \in 1..n /\ m - 1 \in Nat /\ m - 1 \in 0..n /\ ~(m <= m - 1)
    BY <1>1, <1>4
  <2>2. PICK u \in level[m - 1] : w \in Graph!Extensions(edges, u)
    <3>1. level[m] = Graph!Deeper(edges, level[m - 1])
      BY <2>1, OneLevel
    <3> QED BY <1>2, <3>1 DEF Graph!Deeper
  <2>3. Good(u, m - 1)
    BY <1>1, <2>1, <2>2
  <2>4. (m - 1) + 1 = m /\ (m - 1) + 2 = m + 1
    BY <2>1
  <2>5. /\ IsRow(w, m, edges, root)
        /\ \A i \in 1..m : w.path[i] = u.path[i]
        /\ \E x \in edges : x.src = u.path[m] /\ x.dst = w.path[m + 1]
    <3>1. PICK k \in Nat : k = m - 1
      BY <2>1
    <3>2. IsRow(u, k, edges, root)
      BY <2>3, <3>1
    <3>3. /\ IsRow(w, k + 1, edges, root)
          /\ Continues(w, u, k)
          /\ \E x \in edges : x.src = u.path[k + 1] /\ x.dst = w.path[k + 2]
      <4>1. k \in Nat /\ w \in Graph!Extensions(edges, u)
        BY <2>2, <3>1
      <4>2. IsRow(w, k + 1, edges, root)
        BY <3>2, <4>1, ExtensionIsRow
      <4>3. Continues(w, u, k)
        BY <3>2, <4>1, ExtensionIsRow
      <4>4. \E x \in edges : x.src = u.path[k + 1] /\ x.dst = w.path[k + 2]
        BY <3>2, <4>1, ExtensionIsRow
      <4> QED BY <4>2, <4>3, <4>4
    <3>4. k + 1 = m /\ k + 2 = m + 1
      BY <2>1, <3>1
    <3> QED BY <3>3, <3>4 DEF Continues
  <2>6. u.path[m] \in hops[m - 1]
    BY <2>3, <2>4
  <2>7. hops[m] = Graph!Wider(edges, hops[m - 1])
    BY <2>1, OneHop
  <2>8. w.path[m + 1] \in hops[m]
    BY <2>5, <2>6, <2>7 DEF Graph!Wider
  <2>9. HasBeginnings(w, m, level)
    <3>1. ASSUME NEW i \in 1..(m + 1) PROVE \E v \in level[i - 1] : v.path[i] = w.path[i]
      <4>1. CASE i = m + 1
        BY <1>2, <2>1, <4>1
      <4>2. CASE i # m + 1
        <5>1. i \in 1..m
          BY <2>1, <4>2
        <5> QED BY <2>3, <2>4, <2>5, <5>1 DEF HasBeginnings
      <4> QED BY <4>1, <4>2
    <3> QED BY <3>1 DEF HasBeginnings
  <2> QED BY <1>2, <2>5, <2>8, <2>9
<1> QED BY <1>3, <1>4

(* And whatever is within reach is where a row ends.                       *)
LEMMA HopsAreReached ==
  ASSUME NEW edges, NEW root, NEW n \in Nat, NEW level, NEW hops,
         IsLevels(level, edges, root, n), IsHops(hops, edges, root, n)
  PROVE  \A d \in 0..n : \A e \in hops[d] :
           \E k \in 0..d : \E w \in level[k] : w.path[k + 1] = e
<1> DEFINE Met(e, d) == \E k \in 0..d : \E w \in level[k] : w.path[k + 1] = e
           Bad == {d \in 0..n : ~\A e \in hops[d] : Met(e, d)}
<1> SUFFICES ASSUME Bad # {} PROVE FALSE
  OBVIOUS
<1>1. PICK m \in Bad : \A k \in Bad : m <= k
  <2>1. Bad \subseteq Nat
    OBVIOUS
  <2> HIDE DEF Bad
  <2> QED BY <2>1, LeastExists
<1>2. PICK e \in hops[m] : ~Met(e, m)
  BY <1>1
<1>3. CASE m = 0
  <2> DEFINE w == [path |-> <<root>>, relations |-> <<>>]
  <2>1. 0 \in 0..n /\ hops[0] = {root} /\ level[0] = {w}
    BY DEF IsLevels, IsHops, Graph!Start
  <2>2. w.path[1] = root /\ w \in level[0] /\ e = root
    BY <1>2, <1>3, <2>1
  <2> HIDE DEF w
  <2>3. 0 \in 0..m /\ w.path[0 + 1] = e
    BY <1>3, <2>2
  <2> QED BY <1>2, <2>2, <2>3
<1>4. CASE m # 0
  <2>1. m \in 1..n /\ m - 1 \in 0..n /\ ~(m <= m - 1)
    BY <1>1, <1>4
  <2>2. hops[m] = Graph!Wider(edges, hops[m - 1])
    BY <2>1, OneHop
  <2>3. \A f \in hops[m - 1] : Met(f, m - 1)
    BY <1>1, <2>1
  <2>4. \A f : Met(f, m - 1) => Met(f, m)
    BY <2>1
  <2>5. PICK x \in edges : x.src \in hops[m - 1] /\ e = x.dst
    BY <1>2, <2>2, <2>3, <2>4 DEF Graph!Wider
  <2>6. PICK k \in 0..(m - 1) : \E w \in level[k] : w.path[k + 1] = x.src
    BY <2>3, <2>5
  <2>7. PICK w \in level[k] : w.path[k + 1] = x.src
    BY <2>6
  <2>8. k \in 0..n /\ k + 1 \in 0..m /\ k + 1 \in 1..n
    BY <2>1
  <2>9. IsRow(w, k, edges, root) /\ HasBeginnings(w, k, level)
    BY <2>8, RowsArePaths
  <2>10. DOMAIN w.path = 1..(k + 1) /\ Len(w.path) = k + 1 /\ w.path \in Seq(Reachable(edges, root))
    BY <2>8, <2>9, LenProperties DEF IsRow
  <2>11. CASE e \in Graph!ToSet(w.path)
    <3>1. PICK i \in 1..(k + 1) : w.path[i] = e
      BY <2>10, <2>11 DEF Graph!ToSet
    <3>2. \E u \in level[i - 1] : u.path[i] = e
      BY <2>9, <3>1 DEF HasBeginnings
    <3>3. i - 1 \in 0..m /\ (i - 1) + 1 = i
      BY <2>8
    <3> QED BY <1>2, <3>2, <3>3
  <2>12. CASE e \notin Graph!ToSet(w.path)
    <3> DEFINE v == [path |-> Append(w.path, e), relations |-> Append(w.relations, x.relation)]
    <3>1. v \in Graph!Extensions(edges, w)
      BY <2>5, <2>7, <2>10, <2>12 DEF Graph!Extensions, Graph!Last
    <3>2. v.path[k + 2] = e
      <4>1. e \in Reachable(edges, root)
        BY <2>5 DEF Reachable
      <4>2. v.path = Append(w.path, e)
        OBVIOUS
      <4> QED BY <2>8, <2>10, <4>1, <4>2, AppendProperties
    <3> HIDE DEF v
    <3>3. level[k + 1] = Graph!Deeper(edges, level[k])
      <4>1. level[k + 1] = Graph!Deeper(edges, level[(k + 1) - 1])
        BY <2>8, OneLevel
      <4>2. (k + 1) - 1 = k
        BY <2>8
      <4> QED BY <4>1, <4>2
    <3>4. v \in level[k + 1]
      BY <2>7, <3>1, <3>3 DEF Graph!Deeper
    <3>5. (k + 1) + 1 = k + 2
      BY <2>8
    <3> QED BY <1>2, <2>8, <3>2, <3>4, <3>5
  <2> QED BY <2>11, <2>12
<1> QED BY <1>3, <1>4

LEMMA HopsGrow ==
  ASSUME NEW edges, NEW root, NEW n \in Nat, NEW hops, IsHops(hops, edges, root, n),
         NEW k \in 0..n
  PROVE  \A d \in k..n : hops[k] \subseteq hops[d]
<1> DEFINE Bad == {d \in k..n : ~(hops[k] \subseteq hops[d])}
<1> SUFFICES ASSUME Bad # {} PROVE FALSE
  OBVIOUS
<1>1. PICK m \in Bad : \A d \in Bad : m <= d
  <2>1. Bad \subseteq Nat
    OBVIOUS
  <2> HIDE DEF Bad
  <2> QED BY <2>1, LeastExists
<1>2. m # k
  BY <1>1
<1>3. m - 1 \in k..n /\ ~(m <= m - 1) /\ m \in 1..n
  BY <1>1, <1>2
<1>4. hops[k] \subseteq hops[m - 1]
  BY <1>1, <1>3
<1>5. hops[m - 1] \subseteq hops[m]
  BY <1>3, OneHop DEF Graph!Wider
<1> QED BY <1>1, <1>4, <1>5

(* One hop of a chain is the outbound half of the neighborhood.            *)
LEMMA FirstHopIsNear ==
  ASSUME NEW evts, NEW root, NEW n \in Nat, NEW hops, n > 0,
         IsHops(hops, Graph!Edges(evts), root, n)
  PROVE  hops[1] \ {root} \subseteq Graph!Neighborhood(evts, root).entities
<1>1. hops[0] = {root} /\ 1 \in 0..n
  BY DEF IsHops
<1>2. hops[1] = Graph!Wider(Graph!Edges(evts), {root})
  <2>1. 1 \in 1..n /\ 1 - 1 = 0
    OBVIOUS
  <2>2. hops[1] = Graph!Wider(Graph!Edges(evts), hops[1 - 1])
    BY <2>1, OneHop
  <2> QED BY <1>1, <2>1, <2>2
<1>3. \A x \in Graph!Edges(evts) :
        x.src = root /\ x.dst # root => x.dst \in Graph!Neighborhood(evts, root).entities
  BY DEF Graph!Neighborhood
<1>4. ASSUME NEW e \in hops[1] \ {root}
      PROVE  \E x \in Graph!Edges(evts) : x.src = root /\ x.dst = e
  BY <1>2 DEF Graph!Wider
<1> QED BY <1>3, <1>4

LEMMA ChainsReachAll ==
  ASSUME NEW evts, NEW depth \in Nat
  PROVE  Graph!ChainsReach(evts, depth)
<1> SUFFICES ASSUME NEW root \in Graph!Nodes(evts)
             PROVE  LET rows == Graph!Chain(evts, root, depth)
                        within == Graph!Hops(Graph!Edges(evts), root, depth)
                        at(d) == {Graph!Last(w.path) : w \in {v \in rows : Graph!Depth(v) <= d}}
                    IN  /\ \A d \in 0..depth : at(d) = within[d]
                        /\ \A w \in rows : Graph!IsInjective(w.path)
                        /\ at(1) \ {root} \subseteq Graph!Neighborhood(evts, root).entities
                        /\ \A w \in rows : Graph!Depth(w) <= depth
  BY DEF Graph!ChainsReach
<1> DEFINE edges == Graph!Edges(evts)
           level == Graph!Levels(edges, root, depth)
           hops == Graph!Hops(edges, root, depth)
           rows == Graph!Chain(evts, root, depth)
           at(d) == {Graph!Last(w.path) : w \in {v \in rows : Graph!Depth(v) <= d}}
<1>1. IsLevels(level, edges, root, depth) /\ IsHops(hops, edges, root, depth)
  BY LevelsUnfold, HopsUnfold
<1>2. rows = UNION {level[d] : d \in 0..depth}
  BY DEF Graph!Chain
<1> HIDE DEF edges, level, hops, rows
<1>3. ASSUME NEW w \in rows
      PROVE  \E d \in 0..depth : /\ w \in level[d] /\ IsRow(w, d, edges, root)
                                 /\ w.path[d + 1] \in hops[d]
                                 /\ Graph!Depth(w) = d /\ Graph!Last(w.path) = w.path[d + 1]
                                 /\ Graph!IsInjective(w.path)
  <2>1. PICK d \in 0..depth : w \in level[d]
    BY <1>2
  <2>2. IsRow(w, d, edges, root) /\ w.path[d + 1] \in hops[d]
    BY <1>1, <2>1, RowsArePaths
  <2>3. DOMAIN w.path = 1..(d + 1) /\ Len(w.path) = d + 1 /\ Len(w.relations) = d
    BY <2>2, LenProperties DEF IsRow
  <2>4. Graph!IsInjective(w.path)
    BY <2>2, <2>3 DEF IsRow, Graph!IsInjective
  <2> QED BY <2>1, <2>2, <2>3, <2>4 DEF Graph!Depth, Graph!Last
<1>4. ASSUME NEW d \in 0..depth PROVE at(d) = hops[d]
  <2>1. ASSUME NEW w \in rows, Graph!Depth(w) <= d PROVE Graph!Last(w.path) \in hops[d]
    <3>1. PICK k \in 0..depth : /\ w.path[k + 1] \in hops[k]
                                /\ Graph!Depth(w) = k /\ Graph!Last(w.path) = w.path[k + 1]
      BY <1>3
    <3>2. d \in k..depth
      BY <2>1, <3>1
    <3> QED BY <1>1, <3>1, <3>2, HopsGrow
  <2>2. ASSUME NEW e \in hops[d]
        PROVE  \E w \in rows : Graph!Depth(w) <= d /\ Graph!Last(w.path) = e
    <3>1. PICK k \in 0..d : \E w \in level[k] : w.path[k + 1] = e
      BY <1>1, HopsAreReached
    <3>2. PICK w \in level[k] : w.path[k + 1] = e
      BY <3>1
    <3>3. k \in 0..depth
      OBVIOUS
    <3>4. w \in rows
      BY <1>2, <3>2, <3>3
    <3>5. IsRow(w, k, edges, root)
      BY <1>1, <3>2, <3>3, RowsArePaths
    <3>6. Len(w.path) = k + 1 /\ Len(w.relations) = k
      BY <3>5 DEF IsRow
    <3> QED BY <3>2, <3>4, <3>6 DEF Graph!Depth, Graph!Last
  <2> QED BY <2>1, <2>2
<1>5. at(1) \ {root} \subseteq Graph!Neighborhood(evts, root).entities
  <2>1. CASE depth = 0
    <3>1. at(1) \subseteq {root}
      <4>1. ASSUME NEW w \in rows PROVE Graph!Last(w.path) = root
        <5>1. PICK k \in 0..depth : w.path[k + 1] \in hops[k] /\ Graph!Last(w.path) = w.path[k + 1]
          BY <1>3
        <5>2. k = 0 /\ hops[0] = {root}
          BY <1>1, <2>1 DEF IsHops
        <5> QED BY <5>1, <5>2
      <4> QED BY <4>1
    <3> QED BY <3>1
  <2>2. CASE depth # 0
    <3>1. 1 \in 0..depth /\ depth > 0
      BY <2>2
    <3>2. at(1) = hops[1]
      BY <1>4, <3>1
    <3> QED BY <1>1, <3>1, <3>2, FirstHopIsNear DEF edges
  <2> QED BY <2>1, <2>2
<1>6. \A w \in rows : Graph!IsInjective(w.path) /\ Graph!Depth(w) <= depth
  BY <1>3
<1> QED BY <1>4, <1>5, <1>6 DEF edges, hops, rows

(* The chain of an entity names exactly the entities its outbound edges    *)
(* reach, each first at its distance, however the edges loop.              *)
THEOREM ChainsAreComplete == SampleSpec => []ChainsReach
<1>1. ChainsReach
  BY ChainsReachAll, DepthAssumption DEF ChainsReach
<1> QED BY <1>1, PTL
-----------------------------------------------------------------------------
(* The rules and the score, for any words of an event, any catalogue and   *)
(* any number of events: more evidence fires the same rules and possibly   *)
(* others, and each term of the score grows with what it counts.           *)
LEMMA RulesAreListed ==
  /\ DOMAIN Rules = 1..31
  /\ \A i \in 1..31 : Rules[i].confidence \in 1..100
<1>1. \A t, c, n : Rule(t, c, n).confidence = c
  BY DEF Rule
<1>2. DOMAIN Rules = 1..31
  BY DEF Rules
<1>3. \A i \in 1..31 : Rules[i].confidence \in 1..100
  BY <1>1, SMTT(60) DEF Rules
<1> QED BY <1>2, <1>3

(* Finitely many rules fire, on whatever facts.                            *)
LEMMA FewFire ==
  ASSUME NEW facts
  PROVE  /\ IsFiniteSet(Fired(facts))
         /\ \A m \in Fired(facts) : m = <<m[1], m[2]>> /\ m[2] \in 1..100
<1> DEFINE f == [i \in Firing(facts) |-> <<Rules[i].technique, Rules[i].confidence>>]
<1>1. Firing(facts) \subseteq 1..31
  BY RulesAreListed DEF Firing
<1>2. IsFiniteSet(Firing(facts))
  <2>1. 1 \in Int /\ 31 \in Int
    OBVIOUS
  <2> QED BY <1>1, <2>1, FS_Interval, FS_Subset
<1>3. f \in Surjection(Firing(facts), Fired(facts))
  BY DEF Fired, Surjection
<1>4. IsFiniteSet(Fired(facts))
  <2> HIDE DEF f
  <2> QED BY <1>2, <1>3, FS_Surjection
<1>5. ASSUME NEW m \in Fired(facts) PROVE m = <<m[1], m[2]>> /\ m[2] \in 1..100
  <2>1. PICK i \in Firing(facts) : m = <<Rules[i].technique, Rules[i].confidence>>
    BY DEF Fired
  <2>2. Rules[i].confidence \in 1..100
    BY <1>1, RulesAreListed
  <2> QED BY <2>1, <2>2
<1> QED BY <1>4, <1>5

LEMMA FewMatches ==
  ASSUME NEW e
  PROVE  IsFiniteSet(Classify(e)) /\ Classify(e) \subseteq Fired(Facts(e))
<1>1. Classify(e) \subseteq Fired(Facts(e))
  BY DEF Classify, Highest
<1> QED BY <1>1, FewFire, FS_Subset

(* What fires is represented among the best, by its technique and with no  *)
(* less confidence.                                                        *)
LEMMA BestStandsIn ==
  ASSUME NEW e, NEW m \in Fired(Facts(e))
  PROVE  \E n \in Classify(e) : n[1] = m[1] /\ m[2] <= n[2]
<1> DEFINE S == Fired(Facts(e))
           same == {n \in S : n[1] = m[1]}
           levels == {n[2] : n \in same}
           f == [n \in same |-> n[2]]
<1>1. IsFiniteSet(same)
  BY FewFire, FS_Subset
<1>2. levels \subseteq Nat /\ m[2] \in levels
  BY FewFire
<1>3. IsFiniteSet(levels)
  <2>1. f \in Surjection(same, levels)
    BY DEF Surjection
  <2> HIDE DEF f, same, levels
  <2> QED BY <1>1, <2>1, FS_Surjection
<1>4. Max(levels) \in levels /\ \A k \in levels : k <= Max(levels)
  <2> HIDE DEF levels
  <2> QED BY <1>2, <1>3, GreatestExists
<1>5. PICK n \in same : n[2] = Max(levels)
  BY <1>4
<1>6. \A k \in same : k[2] <= n[2]
  BY <1>4, <1>5
<1>7. n \in Classify(e)
  BY <1>5, <1>6 DEF Classify, Highest
<1> QED BY <1>5, <1>6, <1>7

(* What an alert is scored by: the techniques that fire and the highest    *)
(* confidence.                                                             *)
Techniques(e) == {m[1] : m \in Classify(e)}
Confidences(e) == {m[2] : m \in Classify(e)} \union {0}

LEMMA TechniquesFire ==
  ASSUME NEW e
  PROVE  /\ IsFiniteSet(Techniques(e))
         /\ Techniques(e) = {m[1] : m \in Fired(Facts(e))}
<1> DEFINE f == [m \in Classify(e) |-> m[1]]
<1>1. f \in Surjection(Classify(e), Techniques(e))
  BY DEF Surjection, Techniques
<1>2. IsFiniteSet(Techniques(e))
  <2> HIDE DEF f
  <2> QED BY <1>1, FewMatches, FS_Surjection
<1>3. Techniques(e) = {m[1] : m \in Fired(Facts(e))}
  BY FewMatches, BestStandsIn DEF Techniques
<1> QED BY <1>2, <1>3

LEMMA GreatestConfidence ==
  ASSUME NEW e
  PROVE  /\ Confidences(e) \subseteq Nat
         /\ Max(Confidences(e)) \in Confidences(e)
         /\ \A c \in Confidences(e) : c <= Max(Confidences(e))
<1> DEFINE levels == {m[2] : m \in Classify(e)}
           f == [m \in Classify(e) |-> m[2]]
<1>1. f \in Surjection(Classify(e), levels)
  BY DEF Surjection
<1>2. IsFiniteSet(levels)
  <2> HIDE DEF f, levels
  <2> QED BY <1>1, FewMatches, FS_Surjection
<1>3. levels \subseteq Nat
  BY FewMatches, FewFire
<1>4. Confidences(e) = levels \union {0}
  BY DEF Confidences
<1> HIDE DEF levels
<1>5. IsFiniteSet(Confidences(e)) /\ Confidences(e) \subseteq Nat /\ Confidences(e) # {}
  BY <1>2, <1>3, <1>4, FS_AddElement
<1> QED BY <1>5, GreatestExists

(* The fields an event is classified by, each a set of words.              *)
SaysMore(e, d) ==
  \A field \in {"event_id", "category", "process_image", "parent_image", "target_image",
                "command_line", "action", "provider", "registry_target", "message_excerpt",
                "details"} : e[field] \subseteq d[field]

LEMMA MoreFires ==
  ASSUME NEW e, NEW d, SaysMore(e, d)
  PROVE  Fired(Facts(e)) \subseteq Fired(Facts(d))
<1>1. Facts(e) \subseteq Facts(d)
  <2>1. /\ e.event_id \subseteq d.event_id /\ e.category \subseteq d.category
        /\ e.process_image \subseteq d.process_image /\ e.parent_image \subseteq d.parent_image
        /\ e.target_image \subseteq d.target_image /\ e.command_line \subseteq d.command_line
        /\ e.action \subseteq d.action /\ e.provider \subseteq d.provider
        /\ e.registry_target \subseteq d.registry_target
        /\ e.message_excerpt \subseteq d.message_excerpt /\ e.details \subseteq d.details
    BY DEF SaysMore
  <2> QED BY <2>1 DEF Facts
<1>2. Firing(Facts(e)) \subseteq Firing(Facts(d))
  BY <1>1 DEF Firing
<1> QED BY <1>2 DEF Fired

LEMMA MoreIsConfirmed ==
  ASSUME NEW e, NEW d, SaysMore(e, d)
  PROVE  /\ Techniques(e) \subseteq Techniques(d)
         /\ Max(Confidences(e)) <= Max(Confidences(d))
<1>1. Techniques(e) \subseteq Techniques(d)
  BY MoreFires, TechniquesFire
<1>2. CASE Max(Confidences(e)) = 0
  <2>1. 0 \in Confidences(d)
    BY DEF Confidences
  <2> QED BY <1>1, <1>2, <2>1, GreatestConfidence
<1>3. CASE Max(Confidences(e)) # 0
  <2>1. PICK m \in Classify(e) : m[2] = Max(Confidences(e))
    BY <1>3, GreatestConfidence DEF Confidences
  <2>2. m \in Fired(Facts(d))
    BY <2>1, FewMatches, MoreFires
  <2>3. PICK n \in Classify(d) : m[2] <= n[2]
    BY <2>2, BestStandsIn
  <2>4. n[2] \in Confidences(d)
    BY DEF Confidences
  <2>5. /\ n[2] \in Nat /\ m[2] \in Nat /\ Max(Confidences(d)) \in Nat
        /\ n[2] <= Max(Confidences(d))
    BY <2>1, <2>4, GreatestConfidence
  <2> QED BY <1>1, <2>1, <2>3, <2>5
<1> QED BY <1>2, <1>3

(* A half is rounded to the even neighbour, and still never down past what *)
(* less confidence gave.                                                   *)
LEMMA BaseGrows ==
  ASSUME NEW c \in Nat, NEW k \in Nat, c <= k
  PROVE  /\ Scoring!Base(c) \in Nat /\ Scoring!Base(k) \in Nat
         /\ Scoring!Base(c) <= Scoring!Base(k)
<1>1. /\ c \div 4 \in Nat /\ c % 4 \in 0..3 /\ c = 4 * (c \div 4) + (c % 4)
      /\ k \div 4 \in Nat /\ k % 4 \in 0..3 /\ k = 4 * (k \div 4) + (k % 4)
  OBVIOUS
<1>2. /\ Scoring!Base(c) \in {c \div 4, (c \div 4) + 1}
      /\ Scoring!Base(k) \in {k \div 4, (k \div 4) + 1}
  BY DEF Scoring!Base
<1>3. CASE c \div 4 < k \div 4
  BY <1>1, <1>2, <1>3
<1>4. CASE c \div 4 = k \div 4
  <2>1. c % 4 <= k % 4
    BY <1>1, <1>4
  <2>2. Scoring!Base(c) = (c \div 4) + 1 => Scoring!Base(k) = (k \div 4) + 1
    BY <1>1, <1>4, <2>1 DEF Scoring!Base
  <2> QED BY <1>1, <1>2, <1>4, <2>2
<1> QED BY <1>1, <1>3, <1>4

LEMMA TacticsGrow ==
  ASSUME NEW S, NEW T, S \subseteq T, IsFiniteSet(T)
  PROVE  /\ IsFiniteSet(Scoring!Tactics(T))
         /\ Scoring!Tactics(S) \subseteq Scoring!Tactics(T)
<1> DEFINE known == T \intersect DOMAIN TacticCatalog
           sets == {TacticCatalog[t] : t \in known}
           f == [t \in known |-> TacticCatalog[t]]
<1>1. IsFiniteSet(known)
  BY FS_Subset
<1>2. f \in Surjection(known, sets)
  BY DEF Surjection
<1>3. \A s \in sets : IsFiniteSet(s)
  BY CatalogAssumption
<1>4. IsFiniteSet(UNION sets)
  <2> HIDE DEF known, sets, f
  <2> QED BY <1>1, <1>2, <1>3, FS_Surjection, FS_UNION
<1>5. Scoring!Tactics(T) = UNION sets
  BY DEF Scoring!Tactics
<1>6. Scoring!Tactics(S) \subseteq Scoring!Tactics(T)
  BY DEF Scoring!Tactics
<1> QED BY <1>4, <1>5, <1>6

LEMMA AtMostGrows ==
  ASSUME NEW n \in Nat, NEW k \in Nat, n <= k, NEW cap \in Nat
  PROVE  /\ Scoring!AtMost(n, cap) \in Nat /\ Scoring!AtMost(k, cap) \in Nat
         /\ Scoring!AtMost(n, cap) <= Scoring!AtMost(k, cap)
BY DEF Scoring!AtMost

LEMMA SameCardinality ==
  ASSUME NEW S PROVE Scoring!Cardinality(S) = Cardinality(S)
BY Zenon DEF Scoring!Cardinality, Cardinality, Scoring!IsFiniteSet, IsFiniteSet

LEMMA TermsGrow ==
  ASSUME NEW S, NEW T, S \subseteq T, IsFiniteSet(T),
         NEW n \in Nat, NEW k \in Nat, n <= k, NEW c \in Nat, NEW d \in Nat, c <= d
  PROVE  Scoring!Score(S, n, c) <= Scoring!Score(T, k, d)
<1>1. /\ Scoring!Base(c) \in Nat /\ Scoring!Base(d) \in Nat
      /\ Scoring!Base(c) <= Scoring!Base(d)
  BY BaseGrows
<1>2. /\ Cardinality(Scoring!Tactics(S)) \in Nat /\ Cardinality(Scoring!Tactics(T)) \in Nat
      /\ Cardinality(Scoring!Tactics(S)) <= Cardinality(Scoring!Tactics(T))
  BY TacticsGrow, FS_Subset, FS_CardinalityType
<1>3. /\ Scoring!TacticBreadth(S) \in Nat /\ Scoring!TacticBreadth(T) \in Nat
      /\ Scoring!TacticBreadth(S) <= Scoring!TacticBreadth(T)
  <2>1. /\ 6 * Cardinality(Scoring!Tactics(S)) \in Nat
        /\ 6 * Cardinality(Scoring!Tactics(T)) \in Nat
        /\ 6 * Cardinality(Scoring!Tactics(S)) <= 6 * Cardinality(Scoring!Tactics(T))
    BY <1>2
  <2>2. PICK a, b : a = 6 * Cardinality(Scoring!Tactics(S)) /\ b = 6 * Cardinality(Scoring!Tactics(T))
    OBVIOUS
  <2>3. /\ Scoring!TacticBreadth(S) = Scoring!AtMost(a, 30)
        /\ Scoring!TacticBreadth(T) = Scoring!AtMost(b, 30)
    BY <2>2, SameCardinality DEF Scoring!TacticBreadth
  <2>4. a \in Nat /\ b \in Nat /\ a <= b
    BY <2>1, <2>2
  <2> QED BY <2>3, <2>4, AtMostGrows
<1>4. /\ Cardinality(S) \in Nat /\ Cardinality(T) \in Nat /\ Cardinality(S) <= Cardinality(T)
  BY FS_Subset, FS_CardinalityType
<1>5. /\ Scoring!TechniqueCount(S) \in Nat /\ Scoring!TechniqueCount(T) \in Nat
      /\ Scoring!TechniqueCount(S) <= Scoring!TechniqueCount(T)
  <2>1. /\ 3 * Cardinality(S) \in Nat /\ 3 * Cardinality(T) \in Nat
        /\ 3 * Cardinality(S) <= 3 * Cardinality(T)
    BY <1>4
  <2>2. PICK a, b : a = 3 * Cardinality(S) /\ b = 3 * Cardinality(T)
    OBVIOUS
  <2>3. /\ Scoring!TechniqueCount(S) = Scoring!AtMost(a, 18)
        /\ Scoring!TechniqueCount(T) = Scoring!AtMost(b, 18)
    BY <2>2, SameCardinality DEF Scoring!TechniqueCount
  <2>4. a \in Nat /\ b \in Nat /\ a <= b
    BY <2>1, <2>2
  <2> QED BY <2>3, <2>4, AtMostGrows
<1>6. /\ Scoring!CriticalBonus(S) \in Nat /\ Scoring!CriticalBonus(T) \in Nat
      /\ Scoring!CriticalBonus(S) <= Scoring!CriticalBonus(T)
  BY TacticsGrow DEF Scoring!CriticalBonus
<1>7. /\ Scoring!Volume(n) \in Nat /\ Scoring!Volume(k) \in Nat
      /\ Scoring!Volume(n) <= Scoring!Volume(k)
  <2>1. n \div 100 \in Nat /\ k \div 100 \in Nat /\ n \div 100 <= k \div 100
    OBVIOUS
  <2> QED BY <2>1, AtMostGrows DEF Scoring!Volume
<1>8. /\ Scoring!Terms(S, n, c) \in Nat /\ Scoring!Terms(T, k, d) \in Nat
      /\ Scoring!Terms(S, n, c) <= Scoring!Terms(T, k, d)
  BY <1>1, <1>3, <1>5, <1>6, <1>7 DEF Scoring!Terms
<1> QED BY <1>8, AtMostGrows DEF Scoring!Score

LEMMA MoreScoresMore ==
  ASSUME NEW e, NEW d, SaysMore(e, d), NEW n \in Nat, NEW k \in Nat, n <= k
  PROVE  Scoring!Score(Techniques(e), n, Max(Confidences(e)))
           <= Scoring!Score(Techniques(d), k, Max(Confidences(d)))
<1>1. Max(Confidences(e)) \in Nat /\ Max(Confidences(d)) \in Nat
  BY GreatestConfidence
<1> QED BY <1>1, MoreIsConfirmed, TechniquesFire, TermsGrow

(* An alert counts its events and has the fields the rules read.           *)
AlertInv ==
  /\ "subject" \in DOMAIN sample
  /\ Is("alert") => /\ DOMAIN sample = {"subject", "event", "volume"}
                    /\ DOMAIN sample.event = DOMAIN Pieces
                    /\ sample.volume \in Nat

LEMMA AlertStep == AlertInv /\ [Grow]_sample => AlertInv'
<1> SUFFICES ASSUME AlertInv, [Grow]_sample PROVE AlertInv'
  OBVIOUS
<1>1. CASE UNCHANGED sample
  BY <1>1 DEF AlertInv, Is
<1>2. ASSUME ~Is("alert"), "subject" \in DOMAIN sample', sample'.subject = sample.subject
      PROVE  AlertInv'
  BY <1>2 DEF AlertInv, Is
<1>3. ASSUME NEW field \in DOMAIN Pieces, NEW words \in Pieces[field], Notice(field, words)
      PROVE  AlertInv'
  BY <1>3 DEF Notice, AlertInv, Is
<1>4. CASE Repeat
  BY <1>4 DEF Repeat, AlertInv, Is
<1>5. CASE \E e \in GraphEvents : Observe(e)
  BY <1>2, <1>5 DEF Observe, Is, AlertInv
<1>6. CASE \E token \in Vocabulary : Say(token)
  BY <1>2, <1>6 DEF Say, Is, AlertInv
<1>7. CASE NewLine
  BY <1>2, <1>7 DEF NewLine, Is, AlertInv
<1>8. CASE Is("payload") /\ \E field \in DOMAIN Fields[sample.source] :
             \E value \in Fields[sample.source][field] : Fill(field, value)
  BY <1>2, <1>8 DEF Fill, Is, AlertInv
<1> QED BY <1>1, <1>3, <1>4, <1>5, <1>6, <1>7, <1>8 DEF Grow

LEMMA AlertInvariant == SampleSpec => []AlertInv
<1>1. sample \in Samples => AlertInv
  BY DEF Samples, AlertInv, Is
<1> QED BY <1>1, AlertStep, PTL DEF SampleSpec

LEMMA ScoreStep == AlertInv /\ [Grow]_sample => (Is("alert") => AlertScore <= AlertScore')
<1> SUFFICES ASSUME AlertInv, [Grow]_sample, Is("alert") PROVE AlertScore <= AlertScore'
  OBVIOUS
<1>1. /\ DOMAIN sample = {"subject", "event", "volume"} /\ DOMAIN sample.event = DOMAIN Pieces
      /\ sample.subject = "alert" /\ sample.volume \in Nat
  BY DEF AlertInv, Is
<1>2. /\ AlertScore = Scoring!Score(Techniques(sample.event), sample.volume,
                                    Max(Confidences(sample.event)))
      /\ AlertScore' = Scoring!Score(Techniques(sample'.event), sample'.volume,
                                     Max(Confidences(sample'.event)))
  BY DEF AlertScore, Techniques, Confidences
<1>3. PICK e, d, n, k : /\ e = sample.event /\ d = sample'.event
                        /\ n = sample.volume /\ k = sample'.volume
  OBVIOUS
<1>4. SaysMore(e, d) /\ k \in Nat /\ n <= k
  <2>1. ASSUME NEW field \in DOMAIN Pieces, NEW words \in Pieces[field], Notice(field, words)
        PROVE  SaysMore(e, d) /\ k = n
    <3>1. d = [e EXCEPT ![field] = words] /\ e[field] = {} /\ k = n /\ DOMAIN e = DOMAIN Pieces
      BY <1>1, <1>3, <2>1 DEF Notice
    <3>2. \A f \in DOMAIN Pieces : e[f] \subseteq d[f]
      BY <3>1
    <3> QED BY <3>1, <3>2, PiecesAssumption DEF SaysMore
  <2>2. CASE Repeat
    BY <1>1, <1>3, <2>2 DEF Repeat, SaysMore
  <2>3. CASE UNCHANGED sample
    BY <1>1, <1>3, <2>3 DEF SaysMore
  <2> QED BY <1>1, <1>3, <2>1, <2>2, <2>3 DEF Grow, Observe, Say, NewLine, Is
<1>5. n \in Nat
  BY <1>1, <1>3
<1> QED BY <1>2, <1>3, <1>4, <1>5, MoreScoresMore

(* The rules and the score agree on what is worse: an event about which    *)
(* more is known, or more events like it, never rank an alert lower.       *)
THEOREM MoreNeverRanksLower == SampleSpec => ScoreGrows
BY AlertInvariant, ScoreStep, PTL DEF SampleSpec, ScoreGrows
-----------------------------------------------------------------------------
(* Payloads of any source, with any fields: what the vendor tier and the   *)
(* rules read arrives.  The values of the fields are among those a vendor  *)
(* sends, which is where it matters that Wazuh and Falcon send bare ids.   *)
PayloadInv ==
  /\ "subject" \in DOMAIN sample
  /\ Is("payload") =>
       /\ DOMAIN sample = {"subject", "source", "fields"}
       /\ sample.source \in DOMAIN Fields
       /\ \A f \in DOMAIN sample.fields :
            f \in DOMAIN Fields[sample.source] /\ sample.fields[f] \in Fields[sample.source][f]

LEMMA PayloadStep == PayloadInv /\ [Grow]_sample => PayloadInv'
<1> SUFFICES ASSUME PayloadInv, [Grow]_sample PROVE PayloadInv'
  OBVIOUS
<1>1. CASE UNCHANGED sample
  BY <1>1 DEF PayloadInv, Is
<1>2. ASSUME ~Is("payload"), "subject" \in DOMAIN sample',
             sample'.subject = sample.subject
      PROVE  PayloadInv'
  BY <1>2 DEF PayloadInv, Is
<1>3. CASE Is("payload") /\ \E field \in DOMAIN Fields[sample.source] :
             \E value \in Fields[sample.source][field] : Fill(field, value)
  <2>1. PICK field \in DOMAIN Fields[sample.source] :
          \E value \in Fields[sample.source][field] : Fill(field, value)
    BY <1>3
  <2>2. PICK value \in Fields[sample.source][field] : Fill(field, value)
    BY <2>1
  <2> DEFINE old == sample.fields
             filled == [f \in DOMAIN old \union {field} |-> IF f = field THEN value ELSE old[f]]
  <2>3. /\ DOMAIN filled = DOMAIN old \union {field}
        /\ \A f \in DOMAIN filled : filled[f] = IF f = field THEN value ELSE old[f]
    OBVIOUS
  <2>4. /\ DOMAIN sample = {"subject", "source", "fields"} /\ sample.subject = "payload"
        /\ sample.source \in DOMAIN Fields
        /\ \A f \in DOMAIN sample.fields :
             f \in DOMAIN Fields[sample.source] /\ sample.fields[f] \in Fields[sample.source][f]
    BY <1>3 DEF PayloadInv, Is
  <2>5. sample' = [sample EXCEPT !.fields = filled]
    BY <2>2 DEF Fill
  <2> HIDE DEF filled
  <2>6. /\ DOMAIN sample' = {"subject", "source", "fields"} /\ sample'.subject = "payload"
        /\ sample'.source = sample.source /\ sample'.fields = filled
    BY <2>4, <2>5
  <2>7. \A f \in DOMAIN filled :
          f \in DOMAIN Fields[sample.source] /\ filled[f] \in Fields[sample.source][f]
    BY <2>2, <2>3, <2>4
  <2> QED BY <2>4, <2>6, <2>7 DEF PayloadInv, Is
<1>4. CASE \E field \in DOMAIN Pieces : \E words \in Pieces[field] : Notice(field, words)
  BY <1>2, <1>4 DEF Notice, Is, PayloadInv
<1>5. CASE Repeat
  BY <1>2, <1>5 DEF Repeat, Is, PayloadInv
<1>6. CASE \E e \in GraphEvents : Observe(e)
  BY <1>2, <1>6 DEF Observe, Is, PayloadInv
<1>7. CASE \E token \in Vocabulary : Say(token)
  BY <1>2, <1>7 DEF Say, Is, PayloadInv
<1>8. CASE NewLine
  BY <1>2, <1>8 DEF NewLine, Is, PayloadInv
<1> QED BY <1>1, <1>3, <1>4, <1>5, <1>6, <1>7, <1>8 DEF Grow

LEMMA PayloadInvariant == SampleSpec => []PayloadInv
<1>1. sample \in Samples => PayloadInv
  <2> SUFFICES ASSUME sample \in Samples PROVE PayloadInv
    OBVIOUS
  <2>1. ASSUME NEW s \in DOMAIN Fields,
               sample = [subject |-> "payload", source |-> s, fields |-> << >>]
        PROVE  PayloadInv
    BY <2>1 DEF PayloadInv, Is
  <2>2. CASE sample \notin {[subject |-> "payload", source |-> s, fields |-> << >>] : s \in DOMAIN Fields}
    BY <2>2 DEF Samples, PayloadInv, Is
  <2> QED BY <2>1, <2>2
<1> QED BY <1>1, PayloadStep, PTL DEF SampleSpec

(* What FirstOf takes of one field.                                        *)
LEMMA OneIsTaken ==
  ASSUME NEW p, NEW f
  PROVE  Vendors!FirstOf(p, <<f>>) = IF Vendors!Truthy(p, f) THEN p[f] ELSE {}
<1> DEFINE there == {j \in DOMAIN <<f>> : Vendors!Truthy(p, <<f>>[j])}
<1>1. there = IF Vendors!Truthy(p, f) THEN {1} ELSE {}
  OBVIOUS
<1>2. Vendors!Min({1}) = 1
  BY DEF Vendors!Min
<1>3. Vendors!FirstOf(p, <<f>>)
        = IF there = {} THEN {} ELSE p[<<f>>[Vendors!Min(there)]]
  BY DEF Vendors!FirstOf, Vendors!Absent
<1> HIDE DEF there
<1> QED BY <1>1, <1>2, <1>3

(* The ids behind which Cortex puts a name are found in what is stored.    *)
LEMMA CortexIdsAreFound ==
  ASSUME NEW texts
  PROVE  Vendors!VendorIds(Vendors!CortexIds(texts))
           = {t.id : t \in {u \in texts : u.id \in DOMAIN TacticCatalog}}
<1> DEFINE ids == Vendors!CortexIds(texts)
<1>1. ASSUME NEW i \in ids
      PROVE  i.name = "" /\ \E t \in texts : t.id \in DOMAIN TacticCatalog /\ i.id = t.id
  <2>1. PICK t \in texts : t.id \in DOMAIN TacticCatalog /\ i = [id |-> t.id, name |-> ""]
    BY DEF Vendors!CortexIds
  <2> HIDE DEF ids
  <2>2. i.name = "" /\ i.id = t.id
    BY <2>1
  <2> QED BY <2>1, <2>2
<1>2. ASSUME NEW t \in texts, t.id \in DOMAIN TacticCatalog
      PROVE  \E i \in ids : i.id = t.id
  <2>1. [id |-> t.id, name |-> ""] \in ids
    BY <1>2 DEF Vendors!CortexIds
  <2> HIDE DEF ids
  <2> QED BY <2>1
<1>3. Vendors!VendorIds(ids) = {i.id : i \in {u \in ids : u.name = "" /\ u.id \in DOMAIN TacticCatalog}}
  BY DEF Vendors!VendorIds
<1> HIDE DEF ids
<1>4. \A i \in ids : i.name = "" /\ i.id \in DOMAIN TacticCatalog
  BY <1>1
<1>5. Vendors!VendorIds(ids) = {i.id : i \in ids}
  BY <1>3, <1>4
<1>6. {i.id : i \in ids} = {t.id : t \in {u \in texts : u.id \in DOMAIN TacticCatalog}}
  <2> DEFINE right == {u \in texts : u.id \in DOMAIN TacticCatalog}
  <2>1. \A i \in ids : \E t \in right : i.id = t.id
    BY <1>1
  <2>2. \A t \in right : \E i \in ids : i.id = t.id
    BY <1>2
  <2> HIDE DEF right
  <2>3. {i.id : i \in ids} = {t.id : t \in right}
    BY <2>1, <2>2
  <2> QED BY <2>3 DEF right
<1> QED BY <1>5, <1>6 DEF ids

LEMMA IdsAreFound ==
  ASSUME NEW source \in DOMAIN Fields, NEW p
  PROVE  Vendors!IdsArrive(source, p)
<1> DEFINE texts == Vendors!FirstOf(p, Vendors!IdFields(source))
           taken == {u \in texts : /\ u.id \in DOMAIN TacticCatalog
                                   /\ source = "cortex_xdr" \/ u.name = ""}
<1> SUFFICES Vendors!VendorIds(Vendors!Normalize(source, p).technique_ids) = {t.id : t \in taken}
  BY DEF Vendors!IdsArrive
<1>1. source \in {"wazuh", "crowdstrike", "cortex_xdr", "securitydatasets", "evtx"}
  BY PayloadAssumption
<1>2. CASE source \in {"wazuh", "crowdstrike"}
  <2>1. Vendors!Normalize(source, p).technique_ids = texts
    BY <1>2 DEF Vendors!Normalize, Vendors!Wazuh, Vendors!CrowdStrike, Vendors!Normalized,
                Vendors!StoredIds
  <2> HIDE DEF texts
  <2>2. taken = {u \in texts : u.name = "" /\ u.id \in DOMAIN TacticCatalog}
    BY <1>2
  <2> HIDE DEF taken
  <2> QED BY <2>1, <2>2 DEF Vendors!VendorIds
<1>3. CASE source = "cortex_xdr"
  <2>1. Vendors!Normalize(source, p).technique_ids = Vendors!CortexIds(texts)
    BY <1>3 DEF Vendors!Normalize, Vendors!CortexXdr, Vendors!Normalized, Vendors!StoredIds
  <2> HIDE DEF texts
  <2>2. taken = {u \in texts : u.id \in DOMAIN TacticCatalog}
    BY <1>3
  <2> HIDE DEF taken
  <2> QED BY <2>1, <2>2, CortexIdsAreFound
<1>4. CASE source \in {"securitydatasets", "evtx"}
  <2>1. Vendors!Normalize(source, p).technique_ids = {}
    BY <1>4 DEF Vendors!Normalize, Vendors!Mordor, Vendors!Evtx, Vendors!Normalized
  <2>2. Vendors!IdFields(source) = <<>>
    BY <1>4 DEF Vendors!IdFields
  <2>3. texts = {}
    BY <2>2 DEF Vendors!FirstOf, Vendors!Absent
  <2>4. Vendors!VendorIds({}) = {}
    BY DEF Vendors!VendorIds
  <2> QED BY <2>1, <2>3, <2>4
<1> QED BY <1>1, <1>2, <1>3, <1>4

(* What FirstOf takes of several fields: the first, or else the second.    *)
LEMMA FirstIsTaken ==
  ASSUME NEW p, NEW fs, DOMAIN fs \subseteq Nat \ {0}, 1 \in DOMAIN fs,
         Vendors!Truthy(p, fs[1])
  PROVE  Vendors!FirstOf(p, fs) = p[fs[1]]
<1> DEFINE there == {j \in DOMAIN fs : Vendors!Truthy(p, fs[j])}
<1>1. 1 \in there /\ there \subseteq Nat /\ \A j \in there : 1 <= j
  OBVIOUS
<1>2. Vendors!FirstOf(p, fs) = IF there = {} THEN {} ELSE p[fs[Vendors!Min(there)]]
  BY DEF Vendors!FirstOf, Vendors!Absent
<1> HIDE DEF there
<1>3. \A j \in there : (\A k \in there : j <= k) => j = 1
  BY <1>1
<1>4. Vendors!Min(there) = 1
  BY <1>1, <1>3 DEF Vendors!Min
<1> QED BY <1>1, <1>2, <1>4

LEMMA SecondIsTaken ==
  ASSUME NEW p, NEW fs, DOMAIN fs \subseteq Nat \ {0}, 2 \in DOMAIN fs,
         Vendors!Truthy(p, fs[2]), ~Vendors!Truthy(p, fs[1])
  PROVE  Vendors!FirstOf(p, fs) = p[fs[2]]
<1> DEFINE there == {j \in DOMAIN fs : Vendors!Truthy(p, fs[j])}
<1>1. 2 \in there /\ there \subseteq Nat /\ \A j \in there : 2 <= j
  <2>1. 1 \notin there /\ 0 \notin there /\ there \subseteq Nat
    OBVIOUS
  <2>2. \A j \in Nat : j # 0 /\ j # 1 => 2 <= j
    OBVIOUS
  <2> QED BY <2>1, <2>2
<1>2. Vendors!FirstOf(p, fs) = IF there = {} THEN {} ELSE p[fs[Vendors!Min(there)]]
  BY DEF Vendors!FirstOf, Vendors!Absent
<1> HIDE DEF there
<1>3. \A j \in there : (\A k \in there : j <= k) => j = 2
  BY <1>1
<1>4. Vendors!Min(there) = 2
  BY <1>1, <1>3 DEF Vendors!Min
<1> QED BY <1>1, <1>2, <1>4

(* The two reports of a creation say the same, but for the id of the event *)
(* and the action that Mordor makes of it where there is no message.       *)
RuleFields == {"event_id", "category", "process_image", "parent_image", "target_image",
               "command_line", "action", "provider", "registry_target", "message_excerpt",
               "details"}

LEMMA CreationsAreAlike ==
  ASSUME NEW p, Vendors!SecurityCreation(p)
  PROVE  LET e == Content(Vendors!Mordor(p))
             d == Content(Vendors!Mordor(Vendors!ToldBySysmon(p)))
         IN  /\ \A field \in RuleFields \ {"event_id", "action"} : e[field] = d[field]
             /\ e.event_id = {"4688"} /\ d.event_id = {"1"}
             /\ e.action = d.action \/ (e.action = {"4688"} /\ d.action = {"1"})
<1> DEFINE q == Vendors!ToldBySysmon(p)
           kept == DOMAIN p \ {"NewProcessName", "ParentProcessName"}
           same == kept \ {"EventID"}
<1>1. /\ "EventID" \in DOMAIN p /\ p["EventID"] = {"4688"}
      /\ "NewProcessName" \in DOMAIN p /\ p["NewProcessName"] # {}
      /\ "Image" \notin DOMAIN p /\ "ParentImage" \notin DOMAIN p
  BY DEF Vendors!SecurityCreation, Vendors!Truthy
<1>2. \A f \in kept : Vendors!SecurityName(f) = f
  BY <1>1 DEF Vendors!SecurityName
<1>3. /\ Vendors!SecurityName("Image") = "NewProcessName"
      /\ Vendors!SecurityName("ParentImage") = "ParentProcessName"
  BY DEF Vendors!SecurityName
<1>4. DOMAIN q = {g \in kept \cup {"Image", "ParentImage"} : Vendors!SecurityName(g) \in DOMAIN p}
  BY DEF Vendors!ToldBySysmon
<1>5. \A f \in DOMAIN q : q[f] = IF f = "EventID" THEN {"1"} ELSE p[Vendors!SecurityName(f)]
  BY DEF Vendors!ToldBySysmon
<1> HIDE DEF q
<1>6. /\ \A f \in same : f \in DOMAIN q /\ q[f] = p[f]
      /\ "EventID" \in DOMAIN q /\ q["EventID"] = {"1"}
      /\ "Image" \in DOMAIN q /\ q["Image"] = p["NewProcessName"]
      /\ "ParentImage" \in DOMAIN q <=> "ParentProcessName" \in DOMAIN p
      /\ "ParentImage" \in DOMAIN q => q["ParentImage"] = p["ParentProcessName"]
  BY <1>1, <1>2, <1>3, <1>4, <1>5
<1>7. \A f : f \notin {"NewProcessName", "ParentProcessName", "Image", "ParentImage", "EventID"} =>
        /\ f \in DOMAIN q <=> f \in DOMAIN p
        /\ f \in DOMAIN p => q[f] = p[f]
  BY <1>4, <1>6
<1> HIDE DEF kept, same
<1> DEFINE e == Content(Vendors!Mordor(p))
           d == Content(Vendors!Mordor(q))
           Alone(r, f) == Vendors!GivenOr(r, f, <<>>)
           names == <<"Message", "EventID", "EventId">>
<1>8. ASSUME NEW r
      PROVE  LET c == Content(Vendors!Mordor(r))
             IN  /\ c.event_id = Alone(r, "EventID")
                 /\ c.category = Vendors!FirstOf(r, <<"Channel", "SourceName">>)
                 /\ c.process_image = Vendors!GivenOr(r, "Image", <<"NewProcessName", "SourceImage">>)
                 /\ c.parent_image = Vendors!GivenOr(r, "ParentImage", <<"ParentProcessName">>)
                 /\ c.target_image = Alone(r, "TargetImage")
                 /\ c.command_line = Alone(r, "CommandLine")
                 /\ c.action = Vendors!FirstOf(r, names)
                 /\ c.provider = Alone(r, "SourceName")
                 /\ c.registry_target = Alone(r, "TargetObject")
                 /\ c.message_excerpt = Vendors!FirstOf(r, <<"Message">>)
                 /\ c.details = Alone(r, "Details")
  BY DEF Content, Vendors!Mordor, Vendors!Normalized
<1>9. \A f \in {"TargetImage", "CommandLine", "SourceName", "TargetObject", "Details"} :
        Alone(p, f) = Alone(q, f)
  <2>1. ASSUME NEW r PROVE Vendors!FirstOf(r, <<>>) = {}
    BY DEF Vendors!FirstOf, Vendors!Absent
  <2> QED BY <1>7, <2>1 DEF Vendors!GivenOr
<1>10. \A f \in {"Channel", "SourceName", "Message"} : Vendors!Truthy(p, f) <=> Vendors!Truthy(q, f)
  BY <1>7 DEF Vendors!Truthy
<1>11. Vendors!FirstOf(p, <<"Channel", "SourceName">>) = Vendors!FirstOf(q, <<"Channel", "SourceName">>)
  <2> DEFINE fs == <<"Channel", "SourceName">>
             there(r) == {j \in DOMAIN fs : Vendors!Truthy(r, fs[j])}
  <2>1. /\ DOMAIN fs = {1, 2} /\ DOMAIN fs \subseteq Nat \ {0}
        /\ fs[1] = "Channel" /\ fs[2] = "SourceName"
    OBVIOUS
  <2>2. CASE Vendors!Truthy(p, "Channel")
    <3> HIDE DEF fs
    <3>2. Vendors!FirstOf(p, fs) = p["Channel"] /\ Vendors!FirstOf(q, fs) = q["Channel"]
      BY <1>10, <2>1, <2>2, FirstIsTaken
    <3> QED BY <1>7, <2>2, <3>2 DEF Vendors!Truthy, fs
  <2>3. CASE ~Vendors!Truthy(p, "Channel") /\ Vendors!Truthy(p, "SourceName")
    <3> HIDE DEF fs
    <3>2. Vendors!FirstOf(p, fs) = p["SourceName"] /\ Vendors!FirstOf(q, fs) = q["SourceName"]
      BY <1>10, <2>1, <2>3, SecondIsTaken
    <3> QED BY <1>7, <2>3, <3>2 DEF Vendors!Truthy, fs
  <2>4. CASE ~Vendors!Truthy(p, "Channel") /\ ~Vendors!Truthy(p, "SourceName")
    <3>1. there(p) = {} /\ there(q) = {}
      BY <1>10, <2>1, <2>4
    <3> QED BY <3>1 DEF Vendors!FirstOf, Vendors!Absent
  <2> QED BY <2>2, <2>3, <2>4
<1>12. Vendors!FirstOf(p, <<"Message">>) = Vendors!FirstOf(q, <<"Message">>)
  BY <1>7, <1>10, OneIsTaken DEF Vendors!Truthy
<1>13. e.process_image = d.process_image
  <2> DEFINE fs == <<"NewProcessName", "SourceImage">>
  <2>1. DOMAIN fs \subseteq Nat \ {0} /\ 1 \in DOMAIN fs /\ fs[1] = "NewProcessName"
    OBVIOUS
  <2> HIDE DEF fs
  <2>2. Vendors!FirstOf(p, fs) = p["NewProcessName"]
    <3>1. Vendors!Truthy(p, fs[1])
      BY <1>1, <2>1 DEF Vendors!Truthy
    <3> QED BY <2>1, <3>1, FirstIsTaken
  <2>3. e.process_image = p["NewProcessName"]
    BY <1>1, <1>8, <2>2 DEF Vendors!GivenOr, fs
  <2>4. d.process_image = q["Image"]
    BY <1>6, <1>8 DEF Vendors!GivenOr
  <2> QED BY <1>6, <2>3, <2>4
<1>14. e.parent_image = d.parent_image
  <2>1. /\ e.parent_image = Vendors!FirstOf(p, <<"ParentProcessName">>)
        /\ "ParentImage" \in DOMAIN q => d.parent_image = q["ParentImage"]
        /\ "ParentImage" \notin DOMAIN q =>
             d.parent_image = Vendors!FirstOf(q, <<"ParentProcessName">>)
    BY <1>1, <1>8 DEF Vendors!GivenOr
  <2>2. "ParentProcessName" \notin DOMAIN q
    BY <1>4 DEF kept
  <2> HIDE DEF d, e
  <2> QED BY <1>6, <2>1, <2>2, OneIsTaken DEF Vendors!Truthy
<1>15. e.event_id = {"4688"} /\ d.event_id = {"1"}
  BY <1>1, <1>6, <1>8 DEF Vendors!GivenOr
<1>16. e.action = d.action \/ (e.action = {"4688"} /\ d.action = {"1"})
  <2>1. /\ DOMAIN names \subseteq Nat \ {0} /\ 1 \in DOMAIN names /\ 2 \in DOMAIN names
        /\ names[1] = "Message" /\ names[2] = "EventID"
    OBVIOUS
  <2>2. e.action = Vendors!FirstOf(p, names) /\ d.action = Vendors!FirstOf(q, names)
    BY <1>8
  <2> HIDE DEF names, d, e
  <2>3. CASE Vendors!Truthy(p, "Message")
    <3>2. Vendors!FirstOf(p, names) = p["Message"] /\ Vendors!FirstOf(q, names) = q["Message"]
      BY <1>10, <2>1, <2>3, FirstIsTaken
    <3> QED BY <1>7, <2>2, <2>3, <3>2 DEF Vendors!Truthy
  <2>4. CASE ~Vendors!Truthy(p, "Message")
    <3>2. Vendors!Truthy(p, "EventID") /\ Vendors!Truthy(q, "EventID")
      BY <1>1, <1>6 DEF Vendors!Truthy
    <3>3. Vendors!FirstOf(p, names) = p["EventID"] /\ Vendors!FirstOf(q, names) = q["EventID"]
      BY <1>10, <2>1, <2>4, <3>2, SecondIsTaken
    <3> QED BY <1>1, <1>6, <2>2, <3>3
  <2> QED BY <2>3, <2>4
<1>17. \A field \in RuleFields \ {"event_id", "action"} : e[field] = d[field]
  <2>1. /\ e.category = d.category /\ e.target_image = d.target_image
        /\ e.command_line = d.command_line /\ e.provider = d.provider
        /\ e.registry_target = d.registry_target /\ e.message_excerpt = d.message_excerpt
        /\ e.details = d.details
    BY <1>8, <1>9, <1>11, <1>12
  <2> HIDE DEF e, d
  <2> QED BY <1>13, <1>14, <2>1 DEF RuleFields
<1> QED BY <1>15, <1>16, <1>17 DEF q

(* No rule tells the two reports apart but the one for a child of Office,  *)
(* which asks for Sysmon's id and no other.                                *)
LEMMA RulesAskAlike ==
  ASSUME NEW i \in 1..31
  PROVE  /\ \A need \in Rules[i].needs : <<"action", "1">> \notin need /\ <<"action", "4688">> \notin need
         /\ Rules[i].technique # "T1059" =>
              \A need \in Rules[i].needs : <<"event_id", "1">> \in need <=> <<"event_id", "4688">> \in need
         /\ Rules[i].technique = "T1059" => {<<"event_id", "1">>} \in Rules[i].needs
BY SMTT(120) DEF Rules, Rule

LEMMA CreationsClassifyAlike ==
  ASSUME NEW p, Vendors!SecurityCreation(p)
  PROVE  Classify(Content(Vendors!Mordor(p))) =
           {m \in Classify(Content(Vendors!Mordor(Vendors!ToldBySysmon(p)))) : m[1] # "T1059"}
<1> DEFINE e == Content(Vendors!Mordor(p))
           d == Content(Vendors!Mordor(Vendors!ToldBySysmon(p)))
           E == Facts(e)
           D == Facts(d)
<1>1. /\ \A field \in RuleFields \ {"event_id", "action"} : e[field] = d[field]
      /\ e.event_id = {"4688"} /\ d.event_id = {"1"}
      /\ e.action = d.action \/ (e.action = {"4688"} /\ d.action = {"1"})
  BY CreationsAreAlike
<1>2. /\ e.category = d.category /\ e.process_image = d.process_image
      /\ e.parent_image = d.parent_image /\ e.target_image = d.target_image
      /\ e.command_line = d.command_line /\ e.provider = d.provider
      /\ e.registry_target = d.registry_target /\ e.message_excerpt = d.message_excerpt
      /\ e.details = d.details
  BY <1>1 DEF RuleFields
<1> HIDE DEF e, d
<1> DEFINE own == {<<"event_id", "4688">>, <<"event_id", "1">>, <<"action", "4688">>, <<"action", "1">>}
<1>3. /\ E \ own = D \ own
      /\ <<"event_id", "4688">> \in E /\ <<"event_id", "1">> \notin E
      /\ <<"event_id", "1">> \in D /\ <<"event_id", "4688">> \notin D
  BY <1>1, <1>2 DEF Facts
<1> HIDE DEF E, D
<1>4. ASSUME NEW i \in 1..31, Rules[i].technique # "T1059"
      PROVE  i \in Firing(E) <=> i \in Firing(D)
  <2>1. ASSUME NEW need \in Rules[i].needs PROVE need \cap E # {} <=> need \cap D # {}
    <3>1. /\ <<"action", "1">> \notin need /\ <<"action", "4688">> \notin need
          /\ <<"event_id", "1">> \in need <=> <<"event_id", "4688">> \in need
      BY <1>4, RulesAskAlike
    <3> QED BY <1>3, <3>1
  <2> QED BY <2>1, RulesAreListed DEF Firing
<1>5. ASSUME NEW i \in 1..31, Rules[i].technique = "T1059" PROVE i \notin Firing(E)
  <2>1. {<<"event_id", "1">>} \in Rules[i].needs
    BY <1>5, RulesAskAlike
  <2> QED BY <1>3, <2>1 DEF Firing
<1>6. Fired(E) = {m \in Fired(D) : m[1] # "T1059"}
  <2>1. Firing(E) \subseteq 1..31 /\ Firing(D) \subseteq 1..31
    BY RulesAreListed DEF Firing
  <2>2. ASSUME NEW m \in Fired(E) PROVE m \in Fired(D) /\ m[1] # "T1059"
    <3>1. PICK i \in Firing(E) : m = <<Rules[i].technique, Rules[i].confidence>>
      BY DEF Fired
    <3>2. Rules[i].technique # "T1059" /\ i \in Firing(D)
      BY <1>4, <1>5, <2>1
    <3> QED BY <3>1, <3>2 DEF Fired
  <2>3. ASSUME NEW m \in Fired(D), m[1] # "T1059" PROVE m \in Fired(E)
    <3>1. PICK i \in Firing(D) : m = <<Rules[i].technique, Rules[i].confidence>>
      BY DEF Fired
    <3>2. i \in Firing(E)
      BY <1>4, <2>1, <2>3, <3>1
    <3> QED BY <3>1, <3>2 DEF Fired
  <2> QED BY <2>2, <2>3
<1>7. Highest(Fired(E)) = {m \in Highest(Fired(D)) : m[1] # "T1059"}
  BY <1>6 DEF Highest
<1> QED BY <1>7 DEF Classify, E, D, e, d

(* Whatever fields a payload has: the ids a vendor resolved reach the      *)
(* vendor tier, and a process creation of the Security channel fires the   *)
(* rules that Sysmon's report of it would, save T1059.                     *)
THEOREM EvidenceSurvives == SampleSpec => []EvidenceArrives
<1>1. PayloadInv => EvidenceArrives
  <2> SUFFICES ASSUME PayloadInv, Is("payload") PROVE EvidenceArrives
    BY DEF EvidenceArrives
  <2>1. sample.source \in DOMAIN Fields
    BY DEF PayloadInv
  <2> QED BY <2>1, IdsAreFound, CreationsClassifyAlike DEF EvidenceArrives
<1> QED BY <1>1, PayloadInvariant, PTL
-----------------------------------------------------------------------------
(* Narratives of any number of lines, of any tokens: what the check of     *)
(* grounding lets pass, and what it has to let pass.  That the tokens of a *)
(* line stand at ever later columns is what makes the nearest id the right *)
(* one.                                                                    *)
SpokenTokens ==
  {[kind |-> t.kind, value |-> t.value, span |-> t.span, at |-> n] : t \in Vocabulary, n \in Nat}

LeftToRight(line) ==
  \A i, j \in DOMAIN line : i < j => line[i].at + line[i].span <= line[j].at

Lines(lines) ==
  /\ lines \in Seq(Seq(SpokenTokens)) /\ lines # <<>>
  /\ \A l \in DOMAIN lines : LeftToRight(lines[l])

NarrativeInv ==
  /\ "subject" \in DOMAIN sample
  /\ Is("narrative") => DOMAIN sample = {"subject", "lines"} /\ Lines(sample.lines)

LEMMA SpokenFacts ==
  \A t \in SpokenTokens : /\ t.at \in Nat /\ t.span \in Nat /\ t.span > 0
                          /\ t.kind = "tool" => t.value \in {"psexec", "mimikatz"}
BY AnalysisAssumption DEF SpokenTokens

(* A token is placed behind the others of its line.                        *)
LEMMA PlacedBehind ==
  ASSUME NEW line \in Seq(SpokenTokens), LeftToRight(line), NEW token \in Vocabulary
  PROVE  /\ Append(line, Placed(token, line)) \in Seq(SpokenTokens)
         /\ LeftToRight(Append(line, Placed(token, line)))
<1> DEFINE t == Placed(token, line)
           new == Append(line, t)
           n == Len(line)
<1>1. n \in Nat /\ DOMAIN line = 1..n /\ \A i \in 1..n : line[i] \in SpokenTokens
  BY LenProperties
<1>2. ASSUME line # <<>>
      PROVE  /\ n \in 1..n /\ t.at = line[n].at + line[n].span
             /\ line[n].at \in Nat /\ line[n].span \in Nat
  <2>1. n \in 1..n
    BY <1>1, <1>2, EmptySeq
  <2> QED BY <1>1, <1>2, <2>1, SpokenFacts DEF Placed
<1>3. t.at \in Nat
  BY <1>2 DEF Placed
<1>4. t \in SpokenTokens
  BY <1>3 DEF Placed, SpokenTokens
<1> HIDE DEF t
<1>5. /\ new \in Seq(SpokenTokens) /\ Len(new) = n + 1 /\ DOMAIN new = 1..(n + 1)
      /\ new[n + 1] = t /\ \A i \in 1..n : new[i] = line[i]
  BY <1>1, <1>4, AppendProperties, LenProperties
<1>6. ASSUME NEW i \in DOMAIN new, NEW j \in DOMAIN new, i < j
      PROVE  new[i].at + new[i].span <= new[j].at
  <2>1. i \in 1..n /\ new[i] = line[i] /\ line # <<>>
    BY <1>1, <1>5, <1>6
  <2>2. line[i].at \in Nat /\ line[i].span \in Nat
    BY <1>1, <2>1, SpokenFacts
  <2>3. CASE j \in 1..n
    BY <1>1, <1>5, <1>6, <2>1, <2>3 DEF LeftToRight
  <2>4. CASE j = n + 1
    <3>1. CASE i = n
      BY <1>2, <1>5, <2>1, <2>4, <3>1
    <3>2. CASE i # n
      <4>1. line[i].at + line[i].span <= line[n].at
        BY <1>1, <1>2, <2>1, <3>2 DEF LeftToRight
      <4> QED BY <1>2, <1>3, <1>5, <2>1, <2>2, <2>4, <4>1
    <3> QED BY <3>1, <3>2
  <2> QED BY <1>1, <1>5, <2>3, <2>4
<1> HIDE DEF new
<1>7. LeftToRight(new)
  BY <1>6 DEF LeftToRight
<1> QED BY <1>5, <1>7 DEF new, t

LEMMA NarrativeStep == NarrativeInv /\ [Grow]_sample => NarrativeInv'
<1> SUFFICES ASSUME NarrativeInv, [Grow]_sample PROVE NarrativeInv'
  OBVIOUS
<1>1. CASE UNCHANGED sample
  BY <1>1 DEF NarrativeInv, Is
<1>2. ASSUME ~Is("narrative"), "subject" \in DOMAIN sample',
             sample'.subject = sample.subject
      PROVE  NarrativeInv'
  BY <1>2 DEF NarrativeInv, Is
<1>3. ASSUME NEW token \in Vocabulary, Say(token) PROVE NarrativeInv'
  <2> DEFINE lines == sample.lines
             m == Len(lines)
             new == Append(lines[m], Placed(token, lines[m]))
  <2>1. /\ DOMAIN sample = {"subject", "lines"} /\ sample.subject = "narrative"
        /\ lines \in Seq(Seq(SpokenTokens)) /\ lines # <<>>
        /\ \A l \in DOMAIN lines : LeftToRight(lines[l])
    BY <1>3 DEF Say, Is, NarrativeInv, Lines
  <2>2. m \in Nat /\ DOMAIN lines = 1..m /\ m \in 1..m
    BY <2>1, LenProperties, EmptySeq
  <2>3. new \in Seq(SpokenTokens) /\ LeftToRight(new)
    <3>1. lines[m] \in Seq(SpokenTokens) /\ LeftToRight(lines[m])
      BY <2>1, <2>2
    <3> QED BY <3>1, PlacedBehind
  <2> HIDE DEF new
  <2>4. sample' = [sample EXCEPT !.lines = [lines EXCEPT ![m] = new]]
    BY <1>3, <2>1 DEF Say, new
  <2>5. DOMAIN sample' = {"subject", "lines"} /\ sample'.lines = [lines EXCEPT ![m] = new]
    BY <2>1, <2>4
  <2> HIDE DEF lines
  <2>6. [lines EXCEPT ![m] = new] \in Seq(Seq(SpokenTokens)) /\ [lines EXCEPT ![m] = new] # <<>>
    <3>1. [lines EXCEPT ![m] = new] \in Seq(Seq(SpokenTokens))
      BY <2>1, <2>2, <2>3, ExceptSeq
    <3>2. DOMAIN [lines EXCEPT ![m] = new] = 1..m
      BY <2>2
    <3>3. [lines EXCEPT ![m] = new] # <<>>
      BY <2>2, <3>2
    <3> QED BY <3>1, <3>3
  <2>7. \A l \in 1..m : LeftToRight([lines EXCEPT ![m] = new][l])
    BY <2>1, <2>2, <2>3
  <2> QED BY <2>2, <2>5, <2>6, <2>7 DEF NarrativeInv, Lines, Is
<1>4. ASSUME NewLine PROVE NarrativeInv'
  <2> DEFINE lines == sample.lines
  <2>1. /\ DOMAIN sample = {"subject", "lines"} /\ sample.subject = "narrative"
        /\ lines \in Seq(Seq(SpokenTokens)) /\ lines # <<>>
        /\ \A l \in DOMAIN lines : LeftToRight(lines[l])
    BY <1>4 DEF NewLine, Is, NarrativeInv, Lines
  <2>2. <<>> \in Seq(SpokenTokens) /\ LeftToRight(<<>>)
    BY EmptySeq DEF LeftToRight
  <2>3. DOMAIN sample' = {"subject", "lines"} /\ sample'.lines = Append(lines, <<>>)
    BY <1>4, <2>1 DEF NewLine
  <2> HIDE DEF lines
  <2>4. /\ Append(lines, <<>>) \in Seq(Seq(SpokenTokens)) /\ Append(lines, <<>>) # <<>>
        /\ \A l \in DOMAIN Append(lines, <<>>) : LeftToRight(Append(lines, <<>>)[l])
    <3>1. /\ Append(lines, <<>>) \in Seq(Seq(SpokenTokens))
          /\ Len(Append(lines, <<>>)) = Len(lines) + 1
          /\ DOMAIN Append(lines, <<>>) = 1..(Len(lines) + 1)
          /\ Append(lines, <<>>)[Len(lines) + 1] = <<>>
          /\ \A l \in 1..Len(lines) : Append(lines, <<>>)[l] = lines[l]
      BY <2>1, <2>2, AppendProperties, LenProperties
    <3>2. Len(lines) \in Nat /\ DOMAIN lines = 1..Len(lines)
      BY <2>1, LenProperties
    <3> QED BY <2>1, <2>2, <3>1, <3>2, EmptySeq
  <2> QED BY <2>3, <2>4 DEF NarrativeInv, Lines, Is
<1>5. CASE \E field \in DOMAIN Pieces : \E words \in Pieces[field] : Notice(field, words)
  BY <1>2, <1>5 DEF Notice, Is, NarrativeInv
<1>6. CASE Repeat
  BY <1>2, <1>6 DEF Repeat, Is, NarrativeInv
<1>7. CASE \E e \in GraphEvents : Observe(e)
  BY <1>2, <1>7 DEF Observe, Is, NarrativeInv
<1>8. CASE \E field \in DOMAIN Fields[sample.source] :
             \E value \in Fields[sample.source][field] : Fill(field, value)
  BY <1>2, <1>8 DEF Fill, Is, NarrativeInv
<1> QED BY <1>1, <1>3, <1>4, <1>5, <1>6, <1>7, <1>8 DEF Grow

LEMMA NarrativeInvariant == SampleSpec => []NarrativeInv
<1>1. sample \in Samples => NarrativeInv
  <2> SUFFICES ASSUME sample \in Samples PROVE NarrativeInv
    OBVIOUS
  <2>1. CASE sample = [subject |-> "narrative", lines |-> <<<<>>>>]
    <3>1. <<>> \in Seq(SpokenTokens)
      BY EmptySeq
    <3>2. <<<<>>>> \in Seq(Seq(SpokenTokens)) /\ <<<<>>>> # <<>>
      BY <3>1
    <3>3. \A l \in DOMAIN <<<<>>>> : LeftToRight(<<<<>>>>[l])
      BY DEF LeftToRight
    <3> QED BY <2>1, <3>2, <3>3 DEF NarrativeInv, Lines
  <2>2. CASE sample # [subject |-> "narrative", lines |-> <<<<>>>>]
    BY <2>2 DEF Samples, NarrativeInv, Is
  <2> QED BY <2>1, <2>2
<1> QED BY <1>1, NarrativeStep, PTL DEF SampleSpec

(* An id is as near as its distance says, and the nearest one exists.      *)
LEMMA DistanceIsNat ==
  ASSUME NEW line \in Seq(SpokenTokens), NEW i \in DOMAIN line, NEW j \in DOMAIN line
  PROVE  Claims!Distance(line, i, j) \in Nat
<1>1. line[i] \in SpokenTokens /\ line[j] \in SpokenTokens
  BY LenProperties
<1>2. line[i].at \in Nat /\ line[j].at \in Nat
  BY <1>1, SpokenFacts
<1> QED BY <1>2 DEF Claims!Distance

LEMMA NearestExists ==
  ASSUME NEW line \in Seq(SpokenTokens), NEW i \in DOMAIN line,
         NEW ids, ids \subseteq DOMAIN line, ids # {}
  PROVE  \E j \in ids : j \in Claims!Nearest(line, i, ids)
<1> DEFINE D(j) == Claims!Distance(line, j, i)
           Distances == {D(j) : j \in ids}
<1>1. \A j \in ids : j \in Nat /\ D(j) \in Nat
  BY LenProperties, DistanceIsNat
<1>2. Distances \subseteq Nat /\ Distances # {}
  BY <1>1
<1>3. PICK d \in Distances : \A e \in Distances : d <= e
  <2> HIDE DEF Distances
  <2> QED BY <1>2, LeastExists
<1> DEFINE Best == {j \in ids : D(j) = d}
<1>4. Best \subseteq Nat /\ Best # {}
  BY <1>1
<1>5. PICK j \in Best : \A k \in Best : j <= k
  <2> HIDE DEF Best
  <2> QED BY <1>4, LeastExists
<1>6. \A k \in ids : D(j) < D(k) \/ (D(j) = D(k) /\ j <= k)
  <2> SUFFICES ASSUME NEW k \in ids PROVE D(j) < D(k) \/ (D(j) = D(k) /\ j <= k)
    OBVIOUS
  <2>1. D(j) = d /\ d <= D(k) /\ d \in Nat /\ D(k) \in Nat
    BY <1>1, <1>3, <1>5
  <2>2. CASE D(k) = d
    BY <1>5, <2>1, <2>2
  <2> HIDE DEF D
  <2> QED BY <2>1, <2>2
<1> HIDE DEF D
<1> QED BY <1>5, <1>6 DEF Claims!Nearest, D

(* The ids of the catalogue that a line cites.                             *)
IdsOf(line, catalog) ==
  {j \in DOMAIN line : line[j].kind = "id" /\ line[j].value \in DOMAIN catalog}

(* What a pair that is not flagged means.                                  *)
LEMMA PairsHold ==
  ASSUME NEW narrative, NEW catalog, NEW known, NEW l \in DOMAIN narrative,
         Claims!Misattached(narrative, catalog, known) = {},
         NEW i \in DOMAIN narrative[l], narrative[l][i].kind \in {"tactic", "titled", "listed"},
         narrative[l][i].value \in known,
         NEW j \in Claims!Nearest(narrative[l], i, IdsOf(narrative[l], catalog))
  PROVE  narrative[l][i].value \in catalog[narrative[l][j].value]
<1> SUFFICES ASSUME narrative[l][i].value \notin catalog[narrative[l][j].value] PROVE FALSE
  OBVIOUS
<1> DEFINE line == narrative[l]
           pair(n, k) == [claim |-> "pair", tactic |-> line[n].value, id |-> line[k].value]
           Bad(n) == {pair(n, k) : k \in {m \in Claims!Nearest(line, n, IdsOf(line, catalog)) :
                                           line[n].value \notin catalog[line[m].value]}}
           named == {n \in DOMAIN line : /\ line[n].kind \in {"tactic", "titled", "listed"}
                                         /\ line[n].value \in known}
<1>1. pair(i, j) \in Bad(i) /\ i \in named
  OBVIOUS
<1>2. pair(i, j) \in UNION {Bad(n) : n \in named}
  <2> HIDE DEF Bad, named, pair
  <2> QED BY <1>1
<1>3. UNION {Bad(n) : n \in named} \subseteq Claims!Misattached(narrative, catalog, known)
  BY DEF Claims!Misattached, IdsOf
<1> QED BY <1>2, <1>3

LEMMA CitedIsMapped ==
  ASSUME NEW narrative, NEW mapped, NEW techniques,
         Claims!Verdict(narrative, mapped, techniques) = {}
  PROVE  /\ Claims!Cited(narrative) \subseteq mapped \intersect DOMAIN techniques
         /\ Claims!CatalogOf(narrative, techniques) = [t \in Claims!Cited(narrative) |-> techniques[t]]
         /\ Claims!Candidates(narrative) \subseteq Claims!KnownTactics(techniques)
         /\ Claims!Misattached(narrative, Claims!CatalogOf(narrative, techniques),
                               Claims!KnownTactics(techniques)) = {}
<1> DEFINE catalog == Claims!CatalogOf(narrative, techniques)
<1>1. /\ Claims!WronglyCited(narrative, mapped, catalog) = {}
      /\ Claims!NotATactic(narrative, Claims!KnownTactics(techniques)) = {}
      /\ Claims!Misattached(narrative, catalog, Claims!KnownTactics(techniques)) = {}
  BY DEF Claims!Verdict, Claims!Violations
<1>2. DOMAIN catalog = Claims!Cited(narrative) \intersect DOMAIN techniques
  BY DEF Claims!CatalogOf
<1>3. Claims!Cited(narrative) \subseteq mapped \intersect DOMAIN techniques
  BY <1>1, <1>2 DEF Claims!WronglyCited
<1>4. catalog = [t \in Claims!Cited(narrative) |-> techniques[t]]
  BY <1>3 DEF Claims!CatalogOf
<1>5. Claims!Candidates(narrative) \subseteq Claims!KnownTactics(techniques)
  BY <1>1 DEF Claims!NotATactic
<1> QED BY <1>1, <1>3, <1>4, <1>5

LEMMA FaultlessInventsNothing ==
  ASSUME NEW narrative, Lines(narrative), NEW allowed, NEW mapped, NEW techniques
  PROVE  Claims!InventionIsFlagged(narrative, allowed, mapped, techniques)
<1> DEFINE catalog == Claims!CatalogOf(narrative, techniques)
           known == Claims!KnownTactics(techniques)
           IdsSaid(l) == Claims!Values(Claims!ToSet(narrative[l]), {"id"})
           Claimed(l) == Claims!Values(Claims!ToSet(narrative[l]), {"titled", "listed"})
                           \union (Claims!Values(Claims!ToSet(narrative[l]), {"tactic"})
                                     \intersect known)
           Listed(l) == Claims!Values(Claims!ToSet(narrative[l]), {"listed"})
<1> SUFFICES ASSUME Claims!Verdict(narrative, mapped, techniques) = {},
                    Claims!UnsupportedTerms(narrative, allowed) = {}
             PROVE  /\ Claims!Cited(narrative) \subseteq mapped \intersect DOMAIN techniques
                    /\ \A l \in DOMAIN narrative :
                         /\ Listed(l) \subseteq known
                         /\ IdsSaid(l) # {} =>
                              Claimed(l) \subseteq UNION {techniques[t] : t \in IdsSaid(l)}
                    /\ \A t \in Claims!Tokens(narrative) :
                         t.kind \in {"binary", "tool"} => t.value \in allowed \union Claims!Stems(allowed)
  BY DEF Claims!InventionIsFlagged
<1>1. /\ Claims!Cited(narrative) \subseteq mapped \intersect DOMAIN techniques
      /\ catalog = [t \in Claims!Cited(narrative) |-> techniques[t]]
      /\ Claims!Candidates(narrative) \subseteq known
      /\ Claims!Misattached(narrative, catalog, known) = {}
  BY CitedIsMapped
<1>2. ASSUME NEW l \in DOMAIN narrative PROVE Listed(l) \subseteq known
  <2>1. Listed(l) \subseteq Claims!Candidates(narrative)
    BY DEF Claims!Candidates, Claims!Values, Claims!Tokens
  <2> QED BY <1>1, <2>1
<1>3. ASSUME NEW l \in DOMAIN narrative, IdsSaid(l) # {}, NEW tactic \in Claimed(l)
      PROVE  /\ tactic \in known
             /\ \E i \in DOMAIN narrative[l] : /\ narrative[l][i].value = tactic
                                             /\ narrative[l][i].kind \in {"tactic", "titled", "listed"}
  <2>1. PICK i \in DOMAIN narrative[l] : /\ narrative[l][i].value = tactic
                                         /\ narrative[l][i].kind \in {"tactic", "titled", "listed"}
                                         /\ narrative[l][i].kind = "tactic" => tactic \in known
    BY <1>3 DEF Claims!Values, Claims!ToSet
  <2>2. narrative[l][i] \in Claims!ToSet(narrative[l])
    BY DEF Claims!ToSet
  <2>3. narrative[l][i].kind = "titled" => tactic \in Claims!Candidates(narrative)
    <3>1. l \in {k \in DOMAIN narrative : Claims!Values(Claims!ToSet(narrative[k]), {"id"}) # {}}
      BY <1>3
    <3>2. narrative[l][i].kind = "titled" =>
            tactic \in Claims!Values(Claims!ToSet(narrative[l]), {"titled"})
      BY <2>1, <2>2 DEF Claims!Values
    <3> QED BY <3>1, <3>2 DEF Claims!Candidates
  <2>4. narrative[l][i].kind = "listed" => tactic \in Listed(l)
    BY <2>1, <2>2 DEF Claims!Values
  <2> HIDE DEF known, Listed
  <2> QED BY <1>1, <1>2, <2>1, <2>3, <2>4
<1>4. ASSUME NEW l \in DOMAIN narrative, IdsSaid(l) # {}, NEW tactic \in Claimed(l)
      PROVE  \E t \in IdsSaid(l) : tactic \in techniques[t]
  <2> DEFINE line == narrative[l]
             ids == IdsOf(line, catalog)
  <2>1. line \in Seq(SpokenTokens)
    BY LenProperties DEF Lines
  <2>2. PICK i \in DOMAIN line : /\ line[i].kind \in {"tactic", "titled", "listed"}
                                 /\ line[i].value = tactic /\ tactic \in known
    <3> HIDE DEF Claimed, known
    <3> QED BY <1>4, <1>3
  <2>3. \A j \in DOMAIN line : line[j].kind = "id" =>
          line[j].value \in IdsSaid(l) /\ line[j].value \in Claims!Cited(narrative)
    BY DEF Claims!Values, Claims!Cited, Claims!Tokens, Claims!ToSet
  <2>4. ids # {}
    <3>1. PICK j \in DOMAIN line : line[j].kind = "id"
      BY <1>4 DEF Claims!Values, Claims!ToSet
    <3>2. line[j].value \in DOMAIN catalog
      BY <1>1, <2>3, <3>1
    <3> QED BY <3>1, <3>2 DEF IdsOf
  <2>5. ids \subseteq DOMAIN line
    BY DEF IdsOf
  <2> HIDE DEF ids
  <2>6. PICK j \in ids : j \in Claims!Nearest(line, i, ids)
    BY <2>1, <2>2, <2>4, <2>5, NearestExists
  <2>7. tactic \in catalog[line[j].value]
    <3> HIDE DEF catalog, known
    <3> QED BY <1>1, <1>4, <2>2, <2>6, PairsHold DEF ids
  <2>8. line[j].value \in IdsSaid(l) /\ line[j].value \in Claims!Cited(narrative)
    BY <2>3, <2>6 DEF ids, IdsOf
  <2>9. catalog[line[j].value] = techniques[line[j].value]
    BY <1>1, <2>8
  <2> QED BY <2>7, <2>8, <2>9
<1>5. ASSUME NEW t \in Claims!Tokens(narrative), t.kind \in {"binary", "tool"}
      PROVE  t.value \in allowed \union Claims!Stems(allowed)
  <2>1. t \in SpokenTokens
    <3>1. PICK l \in DOMAIN narrative : t \in Claims!ToSet(narrative[l])
      BY DEF Claims!Tokens
    <3>2. narrative[l] \in Seq(SpokenTokens)
      BY LenProperties DEF Lines
    <3> QED BY <3>1, <3>2, LenProperties DEF Claims!ToSet
  <2>2. CASE t.kind = "binary"
    <3>1. t.value \in Claims!Values(Claims!Tokens(narrative), {"binary"})
      BY <2>2 DEF Claims!Values
    <3> QED BY <3>1 DEF Claims!UnsupportedTerms
  <2>3. CASE t.kind = "tool"
    <3>1. t.value \in Claims!Values(Claims!Tokens(narrative), {"tool"})
      BY <2>3 DEF Claims!Values
    <3>2. t.value \in {"psexec", "mimikatz"}
      BY <2>1, <2>3, SpokenFacts
    <3> QED BY <3>1, <3>2 DEF Claims!UnsupportedTerms
  <2> QED BY <1>5, <2>2, <2>3
<1> HIDE DEF IdsSaid, Claimed, Listed, known
<1> QED BY <1>1, <1>2, <1>4, <1>5

(* Tokens stand at ever later columns, so an id further left is further    *)
(* away, and one further right no nearer than the first.                   *)
LEMMA OwnIsNearest ==
  ASSUME NEW line \in Seq(SpokenTokens), LeftToRight(line), NEW techniques,
         Claims!IsPairs(line, techniques),
         NEW i \in DOMAIN line, line[i].kind = "tactic",
         NEW ids, ids \subseteq DOMAIN line, i \notin ids, i - 1 \in ids,
         NEW j \in Claims!Nearest(line, i, ids)
  PROVE  j = i - 1
<1> DEFINE own == i - 1
           D(k) == Claims!Distance(line, k, i)
<1>1. /\ DOMAIN line = 1..Len(line) /\ Len(line) \in Nat
      /\ \A k \in 1..Len(line) : /\ k \in Nat /\ line[k].at \in Nat
                                 /\ line[k].span \in Nat /\ line[k].span > 0
  BY LenProperties, SpokenFacts
<1>2. \A k, m \in 1..Len(line) : k < m => line[k].at < line[m].at
  <2> SUFFICES ASSUME NEW k \in 1..Len(line), NEW m \in 1..Len(line), k < m
               PROVE  line[k].at < line[m].at
    OBVIOUS
  <2>1. line[k].at + line[k].span <= line[m].at
    BY <1>1 DEF LeftToRight
  <2> QED BY <1>1, <2>1
<1>3. j \in 1..Len(line) /\ own \in 1..Len(line) /\ i \in 1..Len(line) /\ j # i
  BY <1>1 DEF Claims!Nearest
<1>4. D(j) < D(own) \/ (D(j) = D(own) /\ j <= own)
  BY DEF Claims!Nearest
<1>5. D(own) = line[i].at - line[own].at
  BY <1>1, <1>2, <1>3 DEF Claims!Distance
<1>6. CASE j < own
  <2>1. D(j) = line[i].at - line[j].at /\ line[j].at < line[own].at
    BY <1>1, <1>2, <1>3, <1>6 DEF Claims!Distance
  <2> HIDE DEF D, own
  <2> QED BY <1>1, <1>3, <1>4, <1>5, <2>1
<1>7. CASE j > own
  <2>1. j > i /\ i < Len(line) /\ i + 1 \in 1..Len(line) /\ (j = i + 1 \/ j > i + 1)
    BY <1>1, <1>3, <1>7
  <2>2. Claims!Distance(line, i, own) <= Claims!Distance(line, i, i + 1)
    BY <1>1, <1>3, <2>1 DEF Claims!IsPairs
  <2>3. Claims!Distance(line, i, own) = line[i].at - line[own].at
    BY <1>1, <1>2, <1>3 DEF Claims!Distance
  <2>4. Claims!Distance(line, i, i + 1) = line[i + 1].at - line[i].at
    BY <1>1, <1>2, <1>3, <2>1 DEF Claims!Distance
  <2>5. D(j) = line[j].at - line[i].at
    BY <1>1, <1>2, <1>3, <2>1 DEF Claims!Distance
  <2>6. line[i + 1].at <= line[j].at
    BY <1>1, <1>2, <1>3, <2>1
  <2>7. D(own) <= D(j)
    BY <1>1, <1>3, <1>5, <2>1, <2>2, <2>3, <2>4, <2>5, <2>6
  <2>8. D(own) \in Int /\ D(j) \in Int
    BY <1>1, <1>3, <1>5, <2>5
  <2> HIDE DEF D
  <2> QED BY <1>1, <1>3, <1>4, <1>7, <2>7, <2>8
<1> QED BY <1>1, <1>3, <1>6, <1>7

LEMMA OwnIsTheOnlyNearest ==
  ASSUME NEW narrative, Lines(narrative), NEW techniques, NEW l \in DOMAIN narrative,
         Claims!IsPairs(narrative[l], techniques),
         NEW i \in DOMAIN narrative[l], narrative[l][i].kind = "tactic"
  PROVE  LET catalog == Claims!CatalogOf(narrative, techniques)
             own == narrative[l][i - 1].value
         IN  /\ Claims!Nearest(narrative[l], i, IdsOf(narrative[l], catalog)) = {i - 1}
             /\ catalog[own] = techniques[own]
<1> DEFINE line == narrative[l]
           catalog == Claims!CatalogOf(narrative, techniques)
           ids == IdsOf(line, catalog)
<1>1. line \in Seq(SpokenTokens) /\ LeftToRight(line)
  BY LenProperties DEF Lines
<1>2. /\ i - 1 \in DOMAIN line /\ line[i - 1].kind = "id"
      /\ line[i - 1].value \in DOMAIN techniques
  <2>1. DOMAIN line = 1..Len(line) /\ Len(line) \in Nat
    BY <1>1, LenProperties
  <2> QED BY <2>1 DEF Claims!IsPairs
<1>3. /\ line[i - 1].value \in DOMAIN catalog
      /\ catalog[line[i - 1].value] = techniques[line[i - 1].value]
  <2>1. line[i - 1].value \in Claims!Cited(narrative)
    BY <1>2 DEF Claims!Cited, Claims!Values, Claims!Tokens, Claims!ToSet
  <2> QED BY <1>2, <2>1 DEF Claims!CatalogOf
<1>4. ids \subseteq DOMAIN line /\ i \notin ids /\ i - 1 \in ids
  BY <1>2, <1>3 DEF IdsOf
<1> HIDE DEF ids
<1>5. \A j \in Claims!Nearest(line, i, ids) : j = i - 1
  <2> HIDE DEF line
  <2> QED BY <1>1, <1>4, OwnIsNearest DEF line
<1>6. \E j \in ids : j \in Claims!Nearest(line, i, ids)
  <2> HIDE DEF line
  <2> QED BY <1>1, <1>4, NearestExists DEF line
<1>7. Claims!Nearest(line, i, ids) = {i - 1}
  BY <1>5, <1>6
<1> QED BY <1>3, <1>7 DEF ids

LEMMA PairsJudged ==
  ASSUME NEW narrative, Lines(narrative), NEW mapped, NEW techniques
  PROVE  Claims!PairsAreJudged(narrative, mapped, techniques)
<1> DEFINE catalog == Claims!CatalogOf(narrative, techniques)
           known == Claims!KnownTactics(techniques)
           flagged == {v \in Claims!Verdict(narrative, mapped, techniques) : v.claim = "pair"}
           pair(n, i, j) == [claim |-> "pair", tactic |-> narrative[n][i].value,
                             id |-> narrative[n][j].value]
           places == UNION {{l} \X DOMAIN narrative[l] : l \in DOMAIN narrative}
           wrong == {q \in places : LET line == narrative[q[1]]
                                    IN  /\ line[q[2]].kind = "tactic"
                                        /\ line[q[2]].value \in known
                                        /\ line[q[2]].value \notin techniques[line[q[2] - 1].value]}
           Named(l) == {i \in DOMAIN narrative[l] :
                          /\ narrative[l][i].kind \in {"tactic", "titled", "listed"}
                          /\ narrative[l][i].value \in known}
           Near(l, i) == {j \in Claims!Nearest(narrative[l], i, IdsOf(narrative[l], catalog)) :
                            narrative[l][i].value \notin catalog[narrative[l][j].value]}
<1> SUFFICES ASSUME \A l \in DOMAIN narrative : Claims!IsPairs(narrative[l], techniques)
             PROVE  flagged = {pair(p[1], p[2], p[2] - 1) : p \in wrong}
  BY DEF Claims!PairsAreJudged
<1>1. Claims!Misattached(narrative, catalog, known)
        = UNION {UNION {{pair(l, i, j) : j \in Near(l, i)} : i \in Named(l)} : l \in DOMAIN narrative}
  <2> HIDE DEF catalog, known
  <2> QED BY DEF Claims!Misattached, IdsOf
<1>2. flagged = Claims!Misattached(narrative, catalog, known)
  <2>1. \A v \in Claims!WronglyCited(narrative, mapped, catalog) : v.claim = "id"
    BY DEF Claims!WronglyCited
  <2>2. \A v \in Claims!NotATactic(narrative, known) : v.claim = "tactic"
    BY DEF Claims!NotATactic
  <2>3. \A v \in Claims!Misattached(narrative, catalog, known) : v.claim = "pair"
    <3> HIDE DEF catalog, known
    <3> QED BY <1>1 DEF pair
  <2> HIDE DEF catalog, known
  <2> QED BY <2>1, <2>2, <2>3 DEF Claims!Verdict, Claims!Violations, catalog, known
<1>3. \A l \in DOMAIN narrative : \A i \in Named(l) : narrative[l][i].kind = "tactic"
  BY DEF Claims!IsPairs
<1>4. \A l \in DOMAIN narrative : \A i \in Named(l) :
        Near(l, i) = IF narrative[l][i].value \in techniques[narrative[l][i - 1].value]
                     THEN {} ELSE {i - 1}
  BY <1>3, OwnIsTheOnlyNearest
<1> HIDE DEF pair, Near, flagged
<1>5. ASSUME NEW v \in flagged PROVE \E p \in wrong : v = pair(p[1], p[2], p[2] - 1)
  <2>1. PICK l \in DOMAIN narrative : \E i \in Named(l) : \E j \in Near(l, i) : v = pair(l, i, j)
    <3> HIDE DEF Named
    <3> QED BY <1>2, <1>1
  <2>2. PICK i \in Named(l) : \E j \in Near(l, i) : v = pair(l, i, j)
    BY <2>1
  <2>3. /\ narrative[l][i].kind = "tactic" /\ v = pair(l, i, i - 1)
        /\ narrative[l][i].value \notin techniques[narrative[l][i - 1].value]
    BY <1>3, <1>4, <2>2
  <2>4. <<l, i>> \in wrong
    BY <2>3
  <2> HIDE DEF wrong
  <2> QED BY <2>3, <2>4
<1>6. ASSUME NEW p \in wrong PROVE pair(p[1], p[2], p[2] - 1) \in flagged
  <2>1. p \in places
    OBVIOUS
  <2>2. PICK l \in DOMAIN narrative : p \in {l} \X DOMAIN narrative[l]
    BY <2>1
  <2> DEFINE i == p[2]
  <2>5. p = <<l, i>> /\ i \in DOMAIN narrative[l]
    BY <2>2
  <2>3. /\ i \in Named(l)
        /\ narrative[l][i].value \notin techniques[narrative[l][i - 1].value]
    BY <2>5
  <2>4. i - 1 \in Near(l, i)
    BY <1>4, <2>3
  <2> HIDE DEF Named, wrong, i
  <2> QED BY <1>2, <1>1, <2>3, <2>4, <2>5
<1> HIDE DEF wrong
<1> QED BY <1>5, <1>6

(* A narrative of any length in which neither check of services/grounding  *)
(* finds fault cites no technique, lists no tactic, names none beside an   *)
(* id, and no binary or tool, that the evidence and the catalogue do not   *)
(* bear out.                                                               *)
THEOREM InventionsAreFound == SampleSpec => []InventionIsFlagged
<1>1. NarrativeInv => InventionIsFlagged
  BY FaultlessInventsNothing DEF NarrativeInv, InventionIsFlagged
<1> QED BY NarrativeInvariant, <1>1, PTL

(* On lines of pairs, of any length, exactly the false pairs are flagged.  *)
THEOREM PairsAreHeldApart == SampleSpec => []PairsAreJudged
<1>1. NarrativeInv => PairsAreJudged
  BY PairsJudged DEF NarrativeInv, PairsAreJudged
<1> QED BY NarrativeInvariant, <1>1, PTL
=============================================================================
