----------------------------- MODULE Grounding -----------------------------
(***************************************************************************)
(* What services/grounding.py finds wrong with the narrative of an         *)
(* investigation.  A narrative is a sequence of lines, a line a sequence   *)
(* of tokens [kind, value, at], at being the column where its match        *)
(* starts.  The kinds: "id" a technique id, "tactic" the name of a tactic  *)
(* in prose, "titled" a title-case phrase before the word tactic, "listed" *)
(* a phrase after "tactics:" or "tactic called", "binary" and "tool".      *)
(***************************************************************************)
EXTENDS Integers, SequencesExt

CONSTANTS
  StemOf,     \* the name of each binary without its extension
  ToolWords   \* _TOOL_WORDS

Tokens(narrative) == UNION {ToSet(narrative[l]) : l \in DOMAIN narrative}

Values(tokens, kinds) == {t.value : t \in {u \in tokens : u.kind \in kinds}}

(***************************************************************************)
(* check_grounding: the binaries and offensive tools that the entities of  *)
(* the evidence do not name.  The name of a binary holds that of its tool, *)
(* and an entity that is a binary allows its stem.                         *)
(***************************************************************************)
Stems(names) == {StemOf[n] : n \in names \intersect DOMAIN StemOf}

UnsupportedTerms(narrative, allowed) ==
  LET said     == Tokens(narrative)
      binaries == Values(said, {"binary"})
      tools    == (Values(said, {"tool"}) \union Stems(binaries)) \intersect ToolWords
  IN  (binaries \ allowed) \union (tools \ (allowed \union Stems(allowed)))
-----------------------------------------------------------------------------
(* The ids of the narrative, and which of them are wrong to cite: not in   *)
(* the catalogue, or not mapped to this evidence.                          *)
Cited(narrative) == Values(Tokens(narrative), {"id"})

(* Mutant: an id of the catalogue is taken to be one of the evidence.      *)
WronglyCitedUnmapped(narrative, mapped, catalog) ==
  {[claim |-> "id", id |-> i] : i \in Cited(narrative) \ DOMAIN catalog}

WronglyCited(narrative, mapped, catalog) ==
  {[claim |-> "id", id |-> i] : i \in Cited(narrative) \ (DOMAIN catalog \intersect mapped)}

(* _tactic_candidates: listed phrases anywhere, titled ones on a line that *)
(* cites an id; each must be a tactic of the loaded catalogue.             *)
Candidates(narrative) ==
  Values(Tokens(narrative), {"listed"})
    \union UNION {Values(ToSet(narrative[l]), {"titled"}) :
                    l \in {k \in DOMAIN narrative : Values(ToSet(narrative[k]), {"id"}) # {}}}

NotATactic(narrative, known) ==
  {[claim |-> "tactic", tactic |-> c] : c \in Candidates(narrative) \ known}

(***************************************************************************)
(* A tactic named on a line that cites ids of the catalogue belongs to the *)
(* nearest one, the earlier of two equally near.                           *)
(***************************************************************************)
Distance(line, i, j) ==
  IF line[i].at < line[j].at THEN line[j].at - line[i].at ELSE line[i].at - line[j].at

(* Mutant: every id of the line is asked to have every tactic of the line. *)
NearestAny(line, i, ids) == ids

Nearest(line, i, ids) ==
  {j \in ids : \A k \in ids : \/ Distance(line, j, i) < Distance(line, k, i)
                              \/ Distance(line, j, i) = Distance(line, k, i) /\ j <= k}

Misattached(narrative, catalog, known) ==
  UNION {LET line == narrative[l]
             ids == {j \in DOMAIN line : line[j].kind = "id" /\ line[j].value \in DOMAIN catalog}
             named == {i \in DOMAIN line : /\ line[i].kind \in {"tactic", "titled", "listed"}
                                           /\ line[i].value \in known}
         IN  UNION {{[claim |-> "pair", tactic |-> line[i].value, id |-> line[j].value] :
                       j \in {k \in Nearest(line, i, ids) :
                                line[i].value \notin catalog[line[k].value]}} : i \in named} :
           l \in DOMAIN narrative}

(* check_mitre_claims: catalog maps each id that was cited and exists to   *)
(* its tactics.                                                            *)
Violations(narrative, mapped, catalog, known) ==
  WronglyCited(narrative, mapped, catalog)
    \union NotATactic(narrative, known)
    \union Misattached(narrative, catalog, known)

(* _mitre_ground_truth: the rows of the cited ids, and the tactics of all. *)
CatalogOf(narrative, techniques) ==
  [i \in Cited(narrative) \intersect DOMAIN techniques |-> techniques[i]]

KnownTactics(techniques) == UNION {techniques[i] : i \in DOMAIN techniques}
-----------------------------------------------------------------------------
(* The verdict on a narrative: techniques is the loaded catalogue, mapped  *)
(* the ids the evidence is mapped to.                                      *)
Verdict(narrative, mapped, techniques) ==
  Violations(narrative, mapped, CatalogOf(narrative, techniques), KnownTactics(techniques))

(* A narrative in which neither check finds fault cites only techniques    *)
(* the evidence is mapped to, lists only tactics that exist, names beside  *)
(* an id no tactic, existing or not, but one of a technique that the line  *)
(* cites, and no binary or tool that the evidence does not know.  A titled *)
(* phrase on a line without an id is no claim to the code (117-119): there *)
(* an invented tactic passes, and so does one in plain prose anywhere.     *)
InventionIsFlagged(narrative, allowed, mapped, techniques) ==
  Verdict(narrative, mapped, techniques) = {} /\ UnsupportedTerms(narrative, allowed) = {} =>
    /\ Cited(narrative) \subseteq mapped \intersect DOMAIN techniques
    /\ \A l \in DOMAIN narrative :
         LET said    == ToSet(narrative[l])
             ids     == Values(said, {"id"})
             claimed == Values(said, {"titled", "listed"})
                          \union (Values(said, {"tactic"}) \intersect KnownTactics(techniques))
         IN  /\ Values(said, {"listed"}) \subseteq KnownTactics(techniques)
             /\ ids # {} => claimed \subseteq UNION {techniques[i] : i \in ids}
    /\ \A t \in Tokens(narrative) :
         t.kind \in {"binary", "tool"} => t.value \in allowed \union Stems(allowed)

(* A line on which each tactic follows an id, as in "T1053.005             *)
(* (persistence) and T1003.001 (credential-access)", and is not so short   *)
(* that the next id starts nearer to it than its own.                      *)
IsPairs(line, techniques) ==
  \A i \in DOMAIN line :
    /\ line[i].kind \in {"id", "tactic"}
    /\ line[i].kind = "tactic" =>
         /\ i > 1 /\ line[i - 1].kind = "id" /\ line[i - 1].value \in DOMAIN techniques
         /\ i < Len(line) => Distance(line, i, i - 1) <= Distance(line, i, i + 1)

(* "pairs each tactic with its own technique, not the cross product": on   *)
(* such lines those pairs are flagged, and only those, of which the        *)
(* technique does not have the tactic.                                     *)
PairsAreJudged(narrative, mapped, techniques) ==
  (\A l \in DOMAIN narrative : IsPairs(narrative[l], techniques)) =>
    {v \in Verdict(narrative, mapped, techniques) : v.claim = "pair"} =
      {[claim |-> "pair", tactic |-> narrative[p[1]][p[2]].value,
        id |-> narrative[p[1]][p[2] - 1].value] :
       p \in {q \in UNION {{l} \X DOMAIN narrative[l] : l \in DOMAIN narrative} :
               LET line == narrative[q[1]]
               IN  /\ line[q[2]].kind = "tactic"
                   /\ line[q[2]].value \in KnownTactics(techniques)
                   /\ line[q[2]].value \notin techniques[line[q[2] - 1].value]}}
=============================================================================
