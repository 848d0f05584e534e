------------------------------ MODULE Analysis ------------------------------
(***************************************************************************)
(* The pure parts of the pipeline, each fed one sample of what it works    *)
(* on.  A sample has a subject and grows piece by piece, so that TLC       *)
(* visits every small input: an alert (an event and the number of its      *)
(* like, as a cluster collects them), the events of an evidence graph, a   *)
(* narrative, or the payload of a vendor.                                  *)
(***************************************************************************)
EXTENDS TechniqueRules

CONSTANTS
  Pieces,        \* per field of an event, the sets of words it may hold
  MaxPieces,     \* bound on the fields of an event that hold any
  MaxVolume,     \* bound on the events of a cluster, which grows by 900
  TacticCatalog, \* technique id -> its tactics
  CriticalTactics,
  GraphEvents,   \* events an evidence graph may be built of
  MaxGraph,      \* bound on the events of a graph
  MaxDepth,      \* bound on max_depth of a chain
  Vocabulary,    \* tokens of a narrative: kind, value, characters up to the next
  MaxTokens,     \* bound on the tokens of a narrative
  Known,         \* entity keys of the evidence of the narrative
  MappedIds,     \* technique ids the evidence of the narrative is mapped to
  Fields,        \* per source, the payload fields and the values they may have
  MaxFields,     \* bound on the fields of a payload
  ParsingTimes   \* values of a time field that parse

(* The fields the rules read.                                              *)
ASSUME PiecesAssumption ==
  {"event_id", "category", "process_image", "parent_image", "target_image", "command_line",
   "action", "provider", "registry_target", "message_excerpt", "details"} \subseteq DOMAIN Pieces

ASSUME CatalogAssumption == \A t \in DOMAIN TacticCatalog : IsFiniteSet(TacticCatalog[t])

ASSUME DepthAssumption == MaxDepth \in Nat

(* A match is not empty, and one of _TOOL_WORDS is a word of it.           *)
ASSUME AnalysisAssumption ==
  \A token \in Vocabulary :
    /\ token.span \in Nat \ {0}
    /\ token.kind = "tool" => token.value \in {"psexec", "mimikatz"}

(* The sources get_normalizer knows.                                       *)
ASSUME PayloadAssumption ==
  DOMAIN Fields \subseteq {"wazuh", "crowdstrike", "cortex_xdr", "securitydatasets", "evtx"}

VARIABLE sample

Scoring == INSTANCE CorrelationScore WITH TacticsOf <- TacticCatalog,
                                          Critical <- CriticalTactics
Graph   == INSTANCE EvidenceGraph WITH Absent <- "none"
Claims  == INSTANCE Grounding WITH StemOf <- [b \in {"psexec.exe"} |-> "psexec"],
                                   ToolWords <- {"psexec", "mimikatz"}
Vendors == INSTANCE Normalization WITH Received <- {"now"}, Instants <- ParsingTimes,
                                       Techniques <- DOMAIN TacticCatalog
-----------------------------------------------------------------------------
Is(subject) == sample.subject = subject

Samples ==
  {[subject |-> "alert", event |-> [field \in DOMAIN Pieces |-> {}], volume |-> 1],
   [subject |-> "graph", events |-> {}],
   [subject |-> "narrative", lines |-> <<<<>>>>]}
  \union {[subject |-> "payload", source |-> s, fields |-> << >>] : s \in DOMAIN Fields}

(* Another field of the event turns out to say something.                  *)
Notice(field, words) ==
  /\ Is("alert") /\ sample.event[field] = {}
  /\ Cardinality({f \in DOMAIN Pieces : sample.event[f] # {}}) < MaxPieces
  /\ sample' = [sample EXCEPT !.event[field] = words]

(* Nine hundred more of the same.                                          *)
Repeat ==
  /\ Is("alert") /\ sample.volume < MaxVolume
  /\ sample' = [sample EXCEPT !.volume = @ + 900]

Observe(e) ==
  /\ Is("graph") /\ e \notin sample.events /\ Cardinality(sample.events) < MaxGraph
  /\ sample' = [sample EXCEPT !.events = @ \union {e}]

Said == FoldSeq(LAMBDA line, n : Len(line) + n, 0, sample.lines)

(* The token at the column where the line ends.                            *)
Placed(token, line) ==
  [kind |-> token.kind, value |-> token.value, span |-> token.span,
   at |-> IF line = <<>> THEN 0 ELSE line[Len(line)].at + line[Len(line)].span]

Say(token) ==
  /\ Is("narrative") /\ Said < MaxTokens
  /\ sample' = [sample EXCEPT !.lines[Len(sample.lines)] = Append(@, Placed(token, @))]

NewLine ==
  /\ Is("narrative") /\ Len(sample.lines) = 1
  /\ sample' = [sample EXCEPT !.lines = Append(@, <<>>)]

Fill(field, value) ==
  /\ Is("payload") /\ field \notin DOMAIN sample.fields
  /\ Cardinality(DOMAIN sample.fields) < MaxFields
  /\ sample' = [sample EXCEPT !.fields =
       [f \in DOMAIN @ \union {field} |-> IF f = field THEN value ELSE @[f]]]

Grow ==
  \/ \E field \in DOMAIN Pieces : \E words \in Pieces[field] : Notice(field, words)
  \/ Repeat
  \/ \E e \in GraphEvents : Observe(e)
  \/ \E token \in Vocabulary : Say(token)
  \/ NewLine
  \/ Is("payload") /\ \E field \in DOMAIN Fields[sample.source] :
       \E value \in Fields[sample.source][field] : Fill(field, value)

SampleSpec == sample \in Samples /\ [][Grow]_sample
-----------------------------------------------------------------------------
AlertScore ==
  LET matches == Classify(sample.event)
      confidence == Max({m[2] : m \in matches} \union {0})
  IN  Scoring!Score({m[1] : m \in matches}, sample.volume, confidence)

(* The rules and the score agree on what is worse: an event about which    *)
(* more is known, or more events like it, never rank an alert lower.       *)
ScoreGrows == [][Is("alert") => AlertScore <= AlertScore']_sample

(* The chain of an entity names exactly the entities its outbound edges    *)
(* reach, each first at its distance, however the edges loop.              *)
ChainsReach == Is("graph") => Graph!ChainsReach(sample.events, MaxDepth)

(* An evidence object lists "entities seen on this host in the window      *)
(* (via edges touching it)", whatever else happens in the window.          *)
EntitiesAreOfHost == Is("graph") => Graph!EntitiesAreOfHost(sample.events)

(* A narrative that passes the check of grounding cites no technique the   *)
(* evidence is not mapped to, lists no tactic that does not exist, names   *)
(* none beside an id that no technique of that line has, and no binary or  *)
(* tool that the evidence does not know.                                   *)
InventionIsFlagged ==
  Is("narrative") => Claims!InventionIsFlagged(sample.lines, Known, MappedIds, TacticCatalog)

(* On lines of pairs the check flags the tactics that the technique before *)
(* them does not have, and no others, whatever else the line cites.        *)
PairsAreJudged ==
  Is("narrative") => Claims!PairsAreJudged(sample.lines, MappedIds, TacticCatalog)

(* What a normalized event holds for the rules.                            *)
Content(n) ==
  [f \in DOMAIN n.attributes \cup {"category", "action"} |->
     IF f \in DOMAIN n.attributes THEN n.attributes[f] ELSE n[f]]

(* The technique ids a vendor resolved reach the vendor tier, and what the *)
(* Security channel logs of a process creation is classified as what       *)
(* Sysmon logs of it: the other names for the process and its parent cost  *)
(* no match (mordor.py, 53-56), save that of the one rule that asks for    *)
(* Sysmon's id alone, T1059 for a child of Office.  This is of records     *)
(* that Mordor reads and that lack Image and ParentImage: there but empty, *)
(* Image would keep the name in NewProcessName out; and the normalizer of  *)
(* .evtx files reads neither of the other names.                           *)
EvidenceArrives ==
  Is("payload") =>
    LET p == sample.fields
    IN  /\ Vendors!IdsArrive(sample.source, p)
        /\ sample.source = "securitydatasets" /\ Vendors!SecurityCreation(p) =>
             Classify(Content(Vendors!Mordor(p))) =
               {m \in Classify(Content(Vendors!Mordor(Vendors!ToldBySysmon(p)))) : m[1] # "T1059"}
=============================================================================
