--------------------------- MODULE EvidenceGraph ---------------------------
(***************************************************************************)
(* The evidence graph as pure operators: the entities and edges an event   *)
(* contributes (extract_graph, services/graph_builder.py), the queries the *)
(* API answers from them (api/v1/endpoints/graph.py) and what correlation  *)
(* takes from them.  An event is a record of its time and of names, Absent *)
(* where the field is empty; names are lower case and processes go by the  *)
(* base name of their path.                                                *)
(***************************************************************************)
EXTENDS Integers, SequencesExt

CONSTANT Absent

Node(type, key) == <<type, key>>

(***************************************************************************)
(* extract_graph: an edge needs both its ends.                             *)
(***************************************************************************)
Roles(e) ==
  [host   |-> Node("host", e.host),       user   |-> Node("user", e.user),
   proc   |-> Node("process", e.process), parent |-> Node("process", e.parent),
   target |-> Node("process", e.target),  src    |-> Node("ip", e.src),
   dst    |-> Node("ip", e.dst)]

Present(node) == node[2] # Absent

NodesOf(e) == LET r == Roles(e) IN {n \in {r[role] : role \in DOMAIN r} : Present(n)}

EdgesOf(e) ==
  LET r == Roles(e)
      edge(a, relation, b) == [src |-> a, relation |-> relation, dst |-> b]
  IN  {x \in {edge(r.parent, "spawned", r.proc), edge(r.proc, "accessed", r.target),
              edge(r.host, "ran", r.proc), edge(r.user, "active_on", r.host),
              edge(r.host, "connected_to", r.dst), edge(r.src, "connected_to", r.host)} :
         Present(x.src) /\ Present(x.dst)}

Nodes(events) == UNION {NodesOf(e) : e \in events}
Edges(events) == UNION {EdgesOf(e) : e \in events}

(* build_graph keeps of an edge when its first event happened and when the *)
(* one ingested last did: here events come in the order of their times.    *)
Span(events, x) ==
  LET times == {e.time : e \in {f \in events : x \in EdgesOf(f)}}
  IN  [first |-> Min(times), last |-> Max(times)]

(* correlate_tenant: the entities an evidence object of a window lists.    *)
EntitiesIn(events, from, to) ==
  UNION {{x.src, x.dst} : x \in {y \in Edges(events) : /\ Span(events, y).last >= from
                                                      /\ Span(events, y).first <= to}}
-----------------------------------------------------------------------------
(* graph_overview: the most recent entities, and the edges among them.     *)
Overview(events, lastSeen, limit) ==
  LET all == Nodes(events)
      top == {n \in all : Cardinality({m \in all : lastSeen[m] > lastSeen[n]}) < limit}
  IN  [entities |-> top,
       edges |-> {x \in Edges(events) : x.src \in top /\ x.dst \in top},
       total |-> Cardinality(all)]

(* neighborhood: the edges at an entity, either way, and their far ends.   *)
Neighborhood(events, root) ==
  LET at == {x \in Edges(events) : root \in {x.src, x.dst}}
  IN  [edges |-> at, entities |-> (UNION {{x.src, x.dst} : x \in at}) \ {root}]

(***************************************************************************)
(* attack_chain: the recursive CTE walks outbound edges level by level and *)
(* keeps, for each row, the path that led there; it never revisits an      *)
(* entity of the path.  Two relations between the same entities, or two    *)
(* ways to an entity, are two rows.                                        *)
(***************************************************************************)
(* The row one edge further, for each edge to an entity not on the path.   *)
Extensions(edges, w) ==
  {[path |-> Append(w.path, x.dst), relations |-> Append(w.relations, x.relation)] :
     x \in {y \in edges : y.src = Last(w.path) /\ y.dst \notin ToSet(w.path)}}

Start(root) == {[path |-> <<root>>, relations |-> <<>>]}

Deeper(edges, rows) == UNION {Extensions(edges, w) : w \in rows}

Levels(edges, root, depth) ==
  LET level[d \in 0..depth] == IF d = 0 THEN Start(root) ELSE Deeper(edges, level[d - 1])
  IN  level

(* Mutant: the level is tested after the step instead of before it.        *)
ChainOneTooDeep(events, root, depth) ==
  LET level == Levels(Edges(events), root, depth + 1) IN UNION {level[d] : d \in 0..(depth + 1)}

Chain(events, root, depth) ==
  LET level == Levels(Edges(events), root, depth) IN UNION {level[d] : d \in 0..depth}

Depth(w) == Len(w.relations)

(* The entities of an evidence object were seen on its host: each window   *)
(* between two events of a host lists entities of events of that host.     *)
EntitiesAreOfHost(events) ==
  \A a, b \in {e \in events : e.host # Absent} :
    a.host = b.host /\ a.time <= b.time =>
      EntitiesIn(events, a.time, b.time) \subseteq Nodes({e \in events : e.host = a.host})

(* The definition to compare with: who is within so many hops of the root. *)
Wider(edges, nodes) == nodes \union {x.dst : x \in {y \in edges : y.src \in nodes}}

Hops(edges, root, depth) ==
  LET within[d \in 0..depth] == IF d = 0 THEN {root} ELSE Wider(edges, within[d - 1])
  IN  within

(* The chain of an entity names exactly the entities that the edges reach  *)
(* from it in so many hops, each first at its distance, however the edges  *)
(* loop and however many ways lead there; one hop of it is the outbound    *)
(* half of the neighborhood; no row goes round in a circle.                *)
ChainsReach(events, maxDepth) ==
  \A root \in Nodes(events) :
    LET rows == Chain(events, root, maxDepth)
        within == Hops(Edges(events), root, maxDepth)
        at(d) == {Last(w.path) : w \in {v \in rows : Depth(v) <= d}}
    IN  /\ \A d \in 0..maxDepth : at(d) = within[d]
        /\ \A w \in rows : IsInjective(w.path)
        /\ at(1) \ {root} \subseteq Neighborhood(events, root).entities
        /\ \A w \in rows : Depth(w) <= maxDepth
=============================================================================
