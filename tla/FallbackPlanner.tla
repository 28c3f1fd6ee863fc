---------------------------- MODULE FallbackPlanner ----------------------------
(***************************************************************************)
(* The rule-based planner (src/planner/fallback_planner.py): the plan it   *)
(* makes of the words of a question, without the LLM.                      *)
(*                                                                         *)
(* A question is abstracted to what the planner's word lists and regular   *)
(* expressions recognise in it.  The aggregate's operation, field names    *)
(* and filters are not told apart: they decide what is computed, not which *)
(* steps there are.                                                        *)
(***************************************************************************)
EXTENDS AgentPlan

CONSTANTS
  Concepts,      \* Concepts[f]: the backing of each concept the catalog gives facet f
  ConceptOrder,  \* the order in which concept names are looked for
  ReverseFacet,  \* ReverseFacet[f]: the facet of the members of a record of facet f
  MetricFacet    \* _METRIC_FACET: the facet that owns a numeric metric

NoConcept == "no concept"
NoMetric  == "no metric"

ASSUME StepsAssumption   == MaxSteps >= 5   \* the longest plan of the planner
ASSUME ConceptsAssumption ==
  \A f \in Facets : Concepts[f] \in [DOMAIN Concepts[f] -> Backing \ {"none", "unknown"}]
ASSUME OrderAssumption   == ConceptOrder \in Seq(STRING)
ASSUME FacetNamesAssumption == {"systems", "projects"} \subseteq Facets
ASSUME ReverseAssumption ==
  \A f \in DOMAIN ReverseFacet : f \in Facets /\ ReverseFacet[f] \in Facets
ASSUME MetricAssumption ==
  NoMetric \notin DOMAIN MetricFacet /\ \A m \in DOMAIN MetricFacet : MetricFacet[m] \in Facets

(* What is recognised in a question.                                       *)
Words == [
  facet     : Facets \cup {NoFacet},  \* the facet mentioned first
  mentions  : SUBSET Facets,          \* every facet mentioned
  triggers  : SUBSET {ConceptOrder[i] : i \in DOMAIN ConceptOrder},
  team      : BOOLEAN,  \* "team", "personnel"
  number    : BOOLEAN,  \* "unit 2", "#2"
  name      : BOOLEAN,  \* a quoted or capitalised name
  ownerLink : BOOLEAN,  \* "project", "system" and "owns", "work on" or "his" together
  sysName   : BOOLEAN,  \* "the X system"
  count     : BOOLEAN,  \* "how many", "list all"
  op        : BOOLEAN,  \* an operation or a ranking: "average", "total", "highest", "top 3"
  metric    : DOMAIN MetricFacet \cup {NoMetric},
  slice     : BOOLEAN ] \* a grouping or a filter

-----------------------------------------------------------------------------
PlainStep(kind, facet, deps) ==
  [kind |-> kind, facet |-> facet, deps |-> deps, backing |-> "none", needsId |-> FALSE,
   serves |-> NoFacet, spec |-> {}, left |-> 1, right |-> 1, how |-> "inner", emit |-> "right"]

AggregateStep(facet, of) == [PlainStep("aggregate", facet, <<of>>) EXCEPT !.spec = {"aggregate"}]

(* An endpoint that answers a concept is about one record.                 *)
ConceptStep(facet, name, deps) ==
  [PlainStep("concept", facet, deps) EXCEPT !.backing = Concepts[facet][name],
                                            !.needsId = Concepts[facet][name] = "api"]

DataPlan(steps) == [intent |-> "data", topic |-> "none", steps |-> steps]
NothingToDo(p)  == p.intent = "data" /\ p.steps = <<>>

(* search, get_by_id, list, join: the records of facet child whose key is  *)
(* on the record found in facet parent.                                    *)
Related(parent, child) ==
  <<PlainStep("search", parent, <<>>), PlainStep("get_by_id", parent, <<1>>),
    PlainStep("list", child, <<>>),
    [PlainStep("join", child, <<2, 3>>) EXCEPT !.spec = {"join"}, !.left = 2, !.right = 3]>>

-----------------------------------------------------------------------------
(* "people in org unit 2".  A reverse concept names the facet of the       *)
(* members (is_reverse).                                                   *)
ReverseConcepts(f) == {n \in DOMAIN Concepts[f] : Concepts[f][n] = "reverse"}
ASSUME ReverseConceptsAssumption ==
  \A f \in Facets : ReverseConcepts(f) # {} => f \in DOMAIN ReverseFacet
MemberWord(w, f) ==
  ReverseFacet[f] \in w.mentions \/ w.team \/ w.triggers \cap ReverseConcepts(f) # {}
MemberLinks_ByChild(w) ==
  {f \in DOMAIN ReverseFacet : f \in w.mentions /\ ReverseFacet[f] \in w.mentions}
MemberLinks(w) == {f \in DOMAIN ReverseFacet : f \in w.mentions /\ MemberWord(w, f)}
AsksForMembers(w) == MemberLinks(w) # {} /\ (w.number \/ w.name)

MemberSteps(w) ==
  LET parent == CHOOSE f \in MemberLinks(w) : TRUE
      child  == ReverseFacet[parent]
  IN Related(parent, child) \o (IF w.count THEN <<AggregateStep(child, 4)>> ELSE <<>>)

(* "projects owned by the owner of system X".                              *)
AsksForOwned(w) == w.ownerLink /\ w.sysName

(* An aggregate: a bare "how many" is no aggregate, and a metric that the  *)
(* operation ranks or sums by implies the facet to list.                   *)
IsAnalytic(w)  == w.op \/ w.slice
TargetFacet(w) == IF w.op /\ w.metric # NoMetric THEN MetricFacet[w.metric]
                  ELSE w.facet

ConceptOf(w) ==
  LET known == {i \in DOMAIN ConceptOrder : /\ ConceptOrder[i] \in w.triggers
                                            /\ ConceptOrder[i] \in DOMAIN Concepts[w.facet]}
  IN IF known = {} THEN NoConcept ELSE ConceptOrder[First(known)]

LookupSteps(w) ==
  <<PlainStep("search", w.facet, <<>>), PlainStep("get_by_id", w.facet, <<1>>)>>
    \o (IF ConceptOf(w) = NoConcept THEN <<>>
        ELSE <<ConceptStep(w.facet, ConceptOf(w), <<2>>)>>)

(* The plan for words that ask for data: the first case that applies.      *)
(* Without a name, a question is answered by listing its facet.            *)
KeywordSteps(w) ==
  IF AsksForMembers(w) THEN MemberSteps(w)
  ELSE IF AsksForOwned(w) THEN Related("systems", "projects")
  ELSE IF TargetFacet(w) = NoFacet THEN <<>>
  ELSE IF IsAnalytic(w)
       THEN <<PlainStep("list", TargetFacet(w), <<>>), AggregateStep(TargetFacet(w), 1)>>
  ELSE IF w.name THEN LookupSteps(w)
  ELSE <<PlainStep("list", w.facet, <<>>)>>

(* A question about the conversation itself is answered from its history.  *)
FallbackPlan(topic, w) ==
  IF topic # "none" THEN [intent |-> "recall", topic |-> topic, steps |-> <<>>]
  ELSE DataPlan(KeywordSteps(w))

-----------------------------------------------------------------------------
(* Every search of plan p found the record k.                              *)
AllFound(p, k) ==
  [s \in StepIds |-> IF s \in SearchSteps(p)
                     THEN [state |-> "found", facet |-> p.steps[s].facet, id |-> k]
                     ELSE AbsentEntity]

(* The API selector finds a call or a field for each step of plan p, about *)
(* the record that was found, and joins and aggregates read steps before.  *)
IsExecutable(p) ==
  \A k \in Keys : \A s \in DOMAIN p.steps :
    LET step == p.steps[s]
        sel  == Selections(p, AllFound(p, k))
    IN CASE step.kind = "search"    -> step.facet \in Facets
         [] step.kind = "get_by_id" -> sel[s] = [act |-> "call", id |-> k]
         [] step.kind = "list"      -> sel[s].act = "call"
         [] step.kind = "concept"   -> \/ sel[s] = [act |-> "call", id |-> k]
                                       \/ sel[s].act = "marker" /\ step.backing = "field"
         [] step.kind = "join"      -> /\ "join" \in step.spec /\ {step.left, step.right} \subseteq 1..(s - 1)
                                       /\ {step.left, step.right} \subseteq CallSteps(sel)
         [] step.kind = "aggregate" -> /\ "aggregate" \in step.spec
                                       /\ \A n \in DOMAIN step.deps :
                                            /\ step.deps[n] < s
                                            /\ p.steps[step.deps[n]].kind \in {"list", "join"}
         [] OTHER -> FALSE
=============================================================================
