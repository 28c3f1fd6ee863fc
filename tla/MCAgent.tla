------------------------------- MODULE MCAgent -------------------------------
(* Plans, facets and links for model checking the agent pipeline.          *)
EXTENDS AgentProperties

Step(kind, facet, deps) ==
  [kind |-> kind, facet |-> facet, deps |-> deps, backing |-> "none", needsId |-> FALSE,
   serves |-> NoFacet, spec |-> {}, left |-> 1, right |-> 1, how |-> "inner", emit |-> "right"]

Search(f)         == Step("search", f, <<>>)
Get(f, d)         == Step("get_by_id", f, <<d>>)
List(f)           == Step("list", f, <<>>)
Concept(f, d, b)  == [Step("concept", f, <<d>>) EXCEPT !.backing = b, !.needsId = b = "api"]
Api(f, deps)      == [Step("api", f, deps) EXCEPT !.backing = "api", !.needsId = deps # <<>>]
Aggregate(f, d)   == [Step("aggregate", f, <<d>>) EXCEPT !.spec = {"aggregate"}]
Join(f, l, r)     == [Step("join", f, <<l, r>>) EXCEPT !.spec = {"join"}, !.left = l, !.right = r]

Data(steps)   == [intent |-> "data", topic |-> "none", steps |-> steps]
Recall(topic) == [intent |-> "recall", topic |-> topic, steps |-> <<>>]
Chat          == [intent |-> "chat", topic |-> "none", steps |-> <<>>]

\* The shapes of the examples in src/prompts/planner.md.
Lookup        == Data(<<Search("units"), Get("units", 1)>>)
Owner         == Data(<<Search("units"), Get("units", 1), Concept("units", 2, "field")>>)
Stakeholders  == Data(<<Search("units"), Concept("units", 1, "api")>>)
Find          == Data(<<Search("units")>>)
Count         == Data(<<List("people"), Aggregate("people", 1)>>)
Listing       == Data(<<List("people")>>)
Members       == Data(<<Search("units"), Get("units", 1), List("people"), Join("people", 2, 3)>>)
Peers         == Data(<<List("people"), [Join("people", 1, 1) EXCEPT !.how = "left", !.emit = "left"]>>)
MembersCount  == Data(Append(Members.steps, Aggregate("people", 4)))
ListedMembers == Data(<<List("units"), List("people"), Join("people", 1, 2), Aggregate("people", 3)>>)
ListedPairs   == Data(<<List("units"), List("people"),
                        [Join(NoFacet, 1, 2) EXCEPT !.how = "left", !.emit = "both"]>>)
TwoRecords    == Data(<<Search("units"), Search("people"), Get("units", 1), Get("people", 2)>>)
Explicit      == Data(<<Search("units"), [Api(NoFacet, <<1>>) EXCEPT !.serves = "units"]>>)
Reverse       == Data(<<Search("units"), Concept("units", 1, "reverse")>>)
BadConcept    == Data(<<List("units"), Concept("units", 1, "unknown")>>)
BadFacet      == Data(<<Search(UnknownFacet), Get(UnknownFacet, 1)>>)
StraySpec     == Data(<<List("people"), [Aggregate("people", 1) EXCEPT !.kind = "list"]>>)
BadList       == Data(<<List(UnknownFacet)>>)

TalkPlans   == {Lookup, Chat, Recall("previous_question"), Recall("explanation")}
FreshPlans  == {Lookup, Count, Peers, Chat}
DataPlans   == {ListedMembers, Lookup, Owner, Stakeholders, Count, Listing, MembersCount, ListedPairs,
                TwoRecords, Explicit, Reverse, StraySpec, BadConcept, BadFacet, BadList, Chat}
LookupPlans == {Lookup}

TwoFacets == {"units", "people"}
NoLinks   == {}
SameKey   == {pair \in Row \X Row : /\ pair[1][1] = "units" /\ pair[2][1] = "people"
                                    /\ pair[1][2] = pair[2][2]}
=============================================================================
