------------------------------ MODULE MCPlanning ------------------------------
(* The questions and the catalog for model checking the planner.           *)
EXTENDS LlmTurn

FourFacets == {"people", "org_units", "systems", "projects"}
Catalog == [people    |-> [department |-> "field"],
            org_units |-> [manager |-> "field", members |-> "reverse"],
            systems   |-> [owner |-> "field", stakeholders |-> "api"],
            projects  |-> <<>>]
Order   == <<"owner", "manager", "stakeholders", "department", "members">>
Members == [org_units |-> "people"]
Metrics == [budget |-> "projects", allocation |-> "people"]
NoLinks == {}

\* Up to two facets are mentioned.  A word is left out of a question in which no rule
\* of the planner looks at it: concepts of a facet that is not the first, the number
\* of a parent without the parent.
Mentioned == {<<f, {f, g}>> : f \in FourFacets, g \in FourFacets} \cup {<<NoFacet, {}>>}
When(b) == IF b THEN BOOLEAN ELSE {FALSE}
Asked(m) ==
  LET unit  == "org_units" \in m[2]
  IN [facet : {m[1]}, mentions : {m[2]},
      triggers : SUBSET ((IF m[1] = NoFacet THEN {} ELSE DOMAIN Catalog[m[1]])
                           \cup (IF unit THEN {"members"} ELSE {})),
      team : When(unit), number : When(unit), name : BOOLEAN, ownerLink : BOOLEAN,
      sysName : BOOLEAN, count : When(unit), op : BOOLEAN,
      metric : {NoMetric, "budget"}, slice : BOOLEAN]
AskedQuestions == UNION {Asked(m) : m \in Mentioned}

Proposed ==
  {ChatPlan, DataPlan(<<>>), DataPlan(Related("org_units", "people")),
   [ChatPlan EXCEPT !.steps = Related("org_units", "people")],
   [ChatPlan EXCEPT !.intent = "recall"]}
=============================================================================
