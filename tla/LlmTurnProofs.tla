----------------------------- MODULE LlmTurnProofs -----------------------------
(***************************************************************************)
(* For every registry, catalog and question: a plan made from keywords     *)
(* runs from end to end, a question about the ERP outlives the model, and  *)
(* a turn's calls to the model and the web are bounded.                    *)
(***************************************************************************)
EXTENDS LlmTurn, TLAPS, WellFoundedInduction

-----------------------------------------------------------------------------
(* The API selector on a plan that starts with its only search.            *)

(* The least element of a set of naturals, as the loops over lists find it.*)
LEMMA FirstIsMember ==
  ASSUME NEW S \in SUBSET Nat, S # {}
  PROVE  First(S) \in S
<1>1. PICK x \in S : \A y \in S : ~(<<y, x>> \in OpToRel(<, Nat))
  BY WFMin, NatLessThanWellFounded
<1>2. ASSUME NEW y \in S PROVE x <= y
  <2>1. ~(<<y, x>> \in OpToRel(<, Nat)) /\ <<y, x>> \in Nat \X Nat
    BY <1>1
  <2> QED BY <2>1 DEF OpToRel
<1> QED BY <1>2 DEF First

(* The planner's plans are not longer than the plans considered.           *)
LEMMA Rooms == MaxSteps \in Nat /\ {1, 2, 3, 4, 5} \subseteq StepIds
BY BoundsAssumption, StepsAssumption DEF StepIds

(* What a step needs to run, in a plan whose search is its first step.     *)
Sound(steps, s) ==
  \/ /\ steps[s].kind = "search" /\ s = 1 /\ steps[s].facet \in Facets
  \/ /\ steps[s].kind \in {"get_by_id", "concept"} /\ steps[s].facet \in Facets
     /\ steps[1].kind = "search"
     /\ steps[s].kind = "concept" => steps[s].backing \in {"api", "field"}
  \/ /\ steps[s].kind = "list" /\ steps[s].facet \in Facets
  \/ /\ steps[s].kind = "join" /\ "join" \in steps[s].spec
     /\ {steps[s].left, steps[s].right} \subseteq 1..(s - 1)
     /\ {steps[steps[s].left].kind, steps[steps[s].right].kind} \subseteq {"get_by_id", "list"}
  \/ /\ steps[s].kind = "aggregate" /\ "aggregate" \in steps[s].spec
     /\ \A n \in DOMAIN steps[s].deps : /\ steps[s].deps[n] < s
                                        /\ steps[steps[s].deps[n]].kind \in {"list", "join"}

AllSound(steps) ==
  /\ steps \in Seq(PlanStep) /\ Len(steps) <= MaxSteps
  /\ \A s \in DOMAIN steps : Sound(steps, s)

(* With one search in the plan, its record is the id of every step, by     *)
(* dependency or because no other id is known.                             *)
LEMMA SearchedId ==
  ASSUME NEW p, NEW k \in Keys, NEW step \in PlanStep,
         SearchSteps(p) = {1}
  PROVE  ResolveId(step, AllFound(p, k)) = k
<1> DEFINE resolved == AllFound(p, k)
           direct   == {n \in DOMAIN step.deps : HasId(resolved, step.deps[n])}
           known    == {s \in StepIds : HasId(resolved, s)}
<1>1. 1 \in StepIds /\ k # NoKey
  BY Rooms, NamesAssumption
<1>2. \A s \in StepIds : resolved[s].id = IF s = 1 THEN k ELSE NoKey
  BY DEF AllFound, AbsentEntity
<1>3. \A s : HasId(resolved, s) <=> s = 1
  BY <1>1, <1>2 DEF HasId
<1>4. resolved[1].id = k
  BY <1>1, <1>2
<1>5. known = {1}
  BY <1>1, <1>3
<1>6. ResolveId(step, resolved) =
        IF direct # {} THEN resolved[step.deps[First(direct)]].id
        ELSE IF \E s \in StepIds : known = {s}
             THEN resolved[CHOOSE s \in StepIds : known = {s}].id
             ELSE NoKey
  BY DEF ResolveId
<1>7. CASE direct # {}
  <2>1. step.deps \in Seq(StepIds)
    BY DEF PlanStep
  <2>2. DOMAIN step.deps \in SUBSET Nat
    BY <2>1
  <2>3. direct \in SUBSET Nat
    BY <2>2
  <2>4. First(direct) \in direct
    BY <1>7, <2>3, FirstIsMember
  <2>5. step.deps[First(direct)] = 1
    BY <1>3, <2>4
  <2> QED BY <1>4, <1>6, <1>7, <2>5
<1>8. CASE direct = {}
  <2>1. \E s \in StepIds : known = {s}
    BY <1>1, <1>5
  <2>2. (CHOOSE s \in StepIds : known = {s}) = 1
    BY <1>1, <1>5
  <2>3. ResolveId(step, resolved) = resolved[CHOOSE s \in StepIds : known = {s}].id
    BY <1>6, <1>8, <2>1
  <2> QED BY <1>4, <2>2, <2>3
<1> QED BY <1>7, <1>8

(* The selections of the steps that make a call, and of a field.           *)
LEMMA SelectionOfStep ==
  ASSUME NEW step \in PlanStep, NEW resolved, step.facet \in Facets,
         NEW id, id = ResolveId(step, resolved), id # NoKey \/ step.kind = "list"
  PROVE  /\ step.kind \in {"get_by_id", "list"} =>
              SelectionOf(step, resolved) = [act |-> "call", id |-> id]
         /\ step.kind = "concept" /\ step.backing = "api" =>
              SelectionOf(step, resolved) = [act |-> "call", id |-> id]
         /\ step.kind = "concept" /\ step.backing = "field" =>
              SelectionOf(step, resolved) = [act |-> "marker", id |-> NoKey]
<1>1. CASE step.kind = "get_by_id"
  BY <1>1 DEF SelectionOf
<1>2. CASE step.kind = "list"
  BY <1>2 DEF SelectionOf
<1>3. CASE step.kind = "concept"
  BY <1>3 DEF SelectionOf
<1> QED BY <1>1, <1>2, <1>3

(* A plan of sound steps is executable.                                    *)
LEMMA SoundIsExecutable ==
  ASSUME NEW p \in ExecutionPlan, AllSound(p.steps)
  PROVE  IsExecutable(p)
<1> DEFINE steps == p.steps
<1>1. steps \in Seq(PlanStep) /\ Len(steps) \in Nat /\ DOMAIN steps = 1..Len(steps)
      /\ DOMAIN steps \subseteq StepIds
  BY BoundsAssumption DEF AllSound, StepIds
<1> SUFFICES ASSUME NEW k \in Keys, NEW s \in DOMAIN steps
             PROVE  LET step == p.steps[s]
                        sel  == Selections(p, AllFound(p, k))
                    IN CASE step.kind = "search"    -> step.facet \in Facets
                         [] step.kind = "get_by_id" -> sel[s] = [act |-> "call", id |-> k]
                         [] step.kind = "list"      -> sel[s].act = "call"
                         [] step.kind = "concept"   -> \/ sel[s] = [act |-> "call", id |-> k]
                                                       \/ sel[s].act = "marker" /\ step.backing = "field"
                         [] step.kind = "join"      -> /\ "join" \in step.spec /\ {step.left, step.right} \subseteq 1..(s - 1)
                                                       /\ {step.left, step.right} \subseteq CallSteps(sel)
                         [] step.kind = "aggregate" -> /\ "aggregate" \in step.spec
                                                       /\ \A n \in DOMAIN step.deps :
                                                            /\ step.deps[n] < s
                                                            /\ p.steps[step.deps[n]].kind \in {"list", "join"}
                         [] OTHER -> FALSE
  BY DEF IsExecutable
<1> DEFINE sel == Selections(p, AllFound(p, k))
<1>2. \A t \in DOMAIN steps : Sound(steps, t) /\ steps[t] \in PlanStep
  BY <1>1 DEF AllSound
<1>3. \A t \in DOMAIN steps : sel[t] = SelectionOf(steps[t], AllFound(p, k))
  BY <1>1 DEF Selections
<1>4. NoFacet \notin Facets /\ k # NoKey
  BY NamesAssumption
<1>5. ASSUME 1 \in DOMAIN steps, steps[1].kind = "search" PROVE SearchSteps(p) = {1}
  <2>1. steps[1].facet \in Facets
    BY <1>2, <1>5 DEF Sound
  <2>2. \A t \in DOMAIN steps : steps[t].kind = "search" => t = 1
    BY <1>2 DEF Sound
  <2> QED BY <1>1, <1>4, <1>5, <2>1, <2>2 DEF SearchSteps, StepsOfKind
<1>6. ASSUME NEW t \in DOMAIN steps, steps[t].kind \in {"get_by_id", "concept"}
      PROVE  ResolveId(steps[t], AllFound(p, k)) = k
  <2>1. 1 \in DOMAIN steps
    BY <1>1
  <2>2. steps[1].kind = "search"
    BY <1>2, <1>6 DEF Sound
  <2> QED BY <1>2, <1>5, <2>1, <2>2, SearchedId
<1>7. ASSUME NEW t \in DOMAIN steps, steps[t].kind = "get_by_id"
      PROVE  sel[t] = [act |-> "call", id |-> k]
  <2>1. steps[t].facet \in Facets
    BY <1>2, <1>7 DEF Sound
  <2> QED BY <1>2, <1>3, <1>4, <1>6, <1>7, <2>1, SelectionOfStep
<1>8. ASSUME NEW t \in DOMAIN steps, steps[t].kind = "list"
      PROVE  sel[t].act = "call"
  <2>1. steps[t].facet \in Facets
    BY <1>2, <1>8 DEF Sound
  <2>2. sel[t] = [act |-> "call", id |-> ResolveId(steps[t], AllFound(p, k))]
    BY <1>2, <1>3, <1>8, <2>1, SelectionOfStep
  <2> QED BY <2>2
<1>9. CASE steps[s].kind = "search"
  BY <1>2, <1>9 DEF Sound
<1>10. CASE steps[s].kind = "get_by_id"
  BY <1>7, <1>10
<1>11. CASE steps[s].kind = "list"
  BY <1>8, <1>11
<1>12. CASE steps[s].kind = "concept"
  <2>1. steps[s].facet \in Facets /\ steps[s].backing \in {"api", "field"}
    BY <1>2, <1>12 DEF Sound
  <2>2. \/ sel[s] = [act |-> "call", id |-> k]
        \/ sel[s].act = "marker" /\ steps[s].backing = "field"
    <3>1. ResolveId(steps[s], AllFound(p, k)) = k
      BY <1>6, <1>12
    <3>2. CASE steps[s].backing = "api"
      <4>1. sel[s] = [act |-> "call", id |-> k]
        BY <1>2, <1>3, <1>4, <1>12, <2>1, <3>1, <3>2, SelectionOfStep
      <4> HIDE DEF sel
      <4> QED BY <4>1
    <3>3. CASE steps[s].backing = "field"
      <4>1. sel[s] = [act |-> "marker", id |-> NoKey]
        BY <1>2, <1>3, <1>4, <1>12, <2>1, <3>1, <3>3, SelectionOfStep
      <4> QED BY <3>3, <4>1
    <3> HIDE DEF sel
    <3> QED BY <2>1, <3>2, <3>3
  <2> QED BY <1>12, <2>2
<1>13. CASE steps[s].kind = "join"
  <2>1. /\ "join" \in steps[s].spec /\ {steps[s].left, steps[s].right} \subseteq 1..(s - 1)
        /\ {steps[steps[s].left].kind, steps[steps[s].right].kind} \subseteq {"get_by_id", "list"}
    BY <1>2, <1>13 DEF Sound
  <2>2. {steps[s].left, steps[s].right} \subseteq DOMAIN steps
    BY <1>1, <2>1
  <2>3. ASSUME NEW t \in {steps[s].left, steps[s].right} PROVE sel[t].act = "call"
    BY <1>7, <1>8, <2>1, <2>2
  <2>4. {steps[s].left, steps[s].right} \subseteq CallSteps(sel)
    BY <1>1, <2>2, <2>3 DEF CallSteps
  <2> QED BY <1>13, <2>1, <2>4
<1>14. CASE steps[s].kind = "aggregate"
  BY <1>2, <1>14 DEF Sound
<1>15. steps[s].kind \in {"search", "get_by_id", "list", "concept", "join", "aggregate"}
  BY <1>2 DEF Sound
<1> QED BY <1>9, <1>10, <1>11, <1>12, <1>13, <1>14, <1>15

-----------------------------------------------------------------------------
(* The keyword planner's rules make sound plans.                           *)

(* A step without a join, an aggregation or a concept.                     *)
LEMMA PlainStepType ==
  ASSUME NEW kind \in StepKind, NEW facet \in Facets, NEW deps \in Seq(StepIds)
  PROVE  PlainStep(kind, facet, deps) \in PlanStep
BY Rooms DEF PlainStep, PlanStep, Backing

(* An aggregation over a step.                                             *)
LEMMA AggregateStepType ==
  ASSUME NEW facet \in Facets, NEW of \in StepIds
  PROVE  AggregateStep(facet, of) \in PlanStep
<1>1. <<of>> \in Seq(StepIds)
  OBVIOUS
<1>2. PlainStep("aggregate", facet, <<of>>) \in PlanStep
  BY <1>1, PlainStepType DEF StepKind
<1> QED BY <1>1, <1>2, Rooms DEF AggregateStep, PlainStep, PlanStep, StepKind, Backing

(* A concept the catalog gives the facet.                                  *)
LEMMA ConceptStepType ==
  ASSUME NEW facet \in Facets, NEW name \in DOMAIN Concepts[facet], NEW deps \in Seq(StepIds)
  PROVE  ConceptStep(facet, name, deps) \in PlanStep
<1>1. Concepts[facet][name] \in Backing
  BY ConceptsAssumption
<1> QED BY <1>1, Rooms DEF ConceptStep, PlainStep, PlanStep, StepKind

(* search, get_by_id, list, join.                                          *)
LEMMA RelatedIsSound ==
  ASSUME NEW parent \in Facets, NEW child \in Facets
  PROVE  /\ AllSound(Related(parent, child)) /\ Len(Related(parent, child)) = 4
         /\ Related(parent, child)[4].kind = "join" /\ Related(parent, child)[1].kind = "search"
<1> DEFINE a == PlainStep("search", parent, <<>>)
           b == PlainStep("get_by_id", parent, <<1>>)
           c == PlainStep("list", child, <<>>)
           d == [PlainStep("join", child, <<2, 3>>) EXCEPT !.spec = {"join"}, !.left = 2, !.right = 3]
<1>1. {<<>>, <<1>>, <<2, 3>>} \subseteq Seq(StepIds)
  BY Rooms
<1>2. /\ a \in PlanStep /\ a.kind = "search" /\ a.facet = parent
      /\ b \in PlanStep /\ b.kind = "get_by_id" /\ b.facet = parent
      /\ c \in PlanStep /\ c.kind = "list" /\ c.facet = child
  <2>1. <<>> \in Seq(StepIds) /\ <<1>> \in Seq(StepIds)
    BY <1>1
  <2>2. "search" \in StepKind /\ "get_by_id" \in StepKind /\ "list" \in StepKind
    BY DEF StepKind
  <2>3. a \in PlanStep /\ b \in PlanStep /\ c \in PlanStep
    BY <2>1, <2>2, PlainStepType
  <2> QED BY <2>3 DEF PlainStep
<1>3. d \in PlanStep /\ d.kind = "join" /\ "join" \in d.spec /\ d.left = 2 /\ d.right = 3
  <2>1. PlainStep("join", child, <<2, 3>>) \in PlanStep
    BY <1>1, PlainStepType DEF StepKind
  <2> QED BY <1>1, Rooms DEF PlainStep, PlanStep, StepKind, Backing
<1>4. Related(parent, child) = <<a, b, c, d>>
  BY DEF Related
<1> HIDE DEF a, b, c, d
<1> DEFINE steps == <<a, b, c, d>>
<1>5. /\ steps \in Seq(PlanStep) /\ Len(steps) = 4 /\ DOMAIN steps = {1, 2, 3, 4}
      /\ steps[1] = a /\ steps[2] = b /\ steps[3] = c /\ steps[4] = d
  BY <1>2, <1>3
<1>6. 4 <= MaxSteps
  BY Rooms DEF StepIds
<1> HIDE DEF steps
<1>7. Sound(steps, 1) /\ Sound(steps, 2) /\ Sound(steps, 3)
  BY <1>2, <1>5 DEF Sound
<1>8. Sound(steps, 4)
  BY <1>2, <1>3, <1>5 DEF Sound
<1>9. AllSound(steps)
  BY <1>5, <1>6, <1>7, <1>8 DEF AllSound
<1> QED BY <1>2, <1>3, <1>4, <1>5, <1>9 DEF steps

(* A sequence with one more element.                                       *)
LEMMA OneMore ==
  ASSUME NEW S, NEW s \in Seq(S), NEW x \in S, NEW n \in Nat, Len(s) = n
  PROVE  /\ s \o <<x>> \in Seq(S) /\ Len(s \o <<x>>) = n + 1 /\ s \o <<x>> # <<>>
         /\ \A i \in 1..n : (s \o <<x>>)[i] = s[i]
         /\ (s \o <<x>>)[n + 1] = x
OBVIOUS

(* One more sound step after sound ones.                                   *)
LEMMA AppendSound ==
  ASSUME NEW steps, AllSound(steps), Len(steps) < MaxSteps, NEW step \in PlanStep,
         Sound(steps \o <<step>>, Len(steps) + 1)
  PROVE  AllSound(steps \o <<step>>)
<1> DEFINE more == steps \o <<step>>
           n    == Len(steps)
<1>1. steps \in Seq(PlanStep) /\ n \in Nat /\ DOMAIN steps = 1..n /\ MaxSteps \in Nat
  BY Rooms DEF AllSound
<1>2. /\ more \in Seq(PlanStep) /\ Len(more) = n + 1 /\ DOMAIN more = 1..(n + 1)
      /\ \A i \in 1..n : more[i] = steps[i]
  BY <1>1
<1>3. \A s \in 1..n : Sound(steps, s) /\ steps[s] \in PlanStep
  BY <1>1 DEF AllSound
<1> HIDE DEF more
<1>4. ASSUME NEW s \in 1..n PROVE Sound(more, s)
  <2>1. more[s] = steps[s] /\ Sound(steps, s) /\ steps[s] \in PlanStep
    BY <1>2, <1>3
  <2>2. 1 \in 1..n /\ more[1] = steps[1]
    BY <1>1, <1>2
  <2>3. \A t \in 1..(s - 1) : more[t] = steps[t]
    BY <1>1, <1>2
  <2>4. ASSUME steps[s].kind = "aggregate",
               NEW i \in DOMAIN steps[s].deps
        PROVE  more[steps[s].deps[i]].kind \in {"list", "join"} /\ steps[s].deps[i] < s
    <3>1. steps[s].deps \in Seq(StepIds)
      BY <2>1 DEF PlanStep
    <3>2. steps[s].deps[i] \in StepIds
      BY <2>4, <3>1
    <3>3. steps[s].deps[i] < s /\ steps[steps[s].deps[i]].kind \in {"list", "join"}
      BY <2>1, <2>4 DEF Sound
    <3>4. steps[s].deps[i] \in 1..(s - 1)
      BY <1>1, <3>2, <3>3 DEF StepIds
    <3> QED BY <2>3, <3>3, <3>4
  <2>5. ASSUME steps[s].kind = "join"
        PROVE  /\ {steps[s].left, steps[s].right} \subseteq 1..(s - 1)
               /\ {more[steps[s].left].kind, more[steps[s].right].kind} \subseteq {"get_by_id", "list"}
    BY <2>1, <2>3, <2>5 DEF Sound
  <2>6. CASE steps[s].kind = "aggregate"
    BY <2>1, <2>4, <2>6 DEF Sound
  <2>7. CASE steps[s].kind = "join"
    BY <2>1, <2>5, <2>7 DEF Sound
  <2>8. CASE steps[s].kind \notin {"aggregate", "join"}
    BY <2>1, <2>2, <2>8 DEF Sound
  <2> QED BY <2>6, <2>7, <2>8
<1>5. \A s \in 1..(n + 1) : s \in 1..n \/ s = n + 1
  BY <1>1
<1>6. Sound(more, n + 1)
  BY DEF more
<1>7. n + 1 <= MaxSteps
  BY <1>1
<1> HIDE DEF n
<1> QED BY <1>2, <1>4, <1>5, <1>6, <1>7 DEF AllSound, more

(* The concept found in a question is one its facet has, and was asked for.*)
LEMMA ConceptIsAsked ==
  ASSUME NEW w \in Words, ConceptOf(w) # NoConcept
  PROVE  ConceptOf(w) \in DOMAIN Concepts[w.facet] /\ ConceptOf(w) \in w.triggers
<1> DEFINE known == {i \in DOMAIN ConceptOrder : /\ ConceptOrder[i] \in w.triggers
                                                 /\ ConceptOrder[i] \in DOMAIN Concepts[w.facet]}
<1>1. ConceptOf(w) = IF known = {} THEN NoConcept ELSE ConceptOrder[First(known)]
  BY DEF ConceptOf
<1>2. known # {} /\ ConceptOf(w) = ConceptOrder[First(known)]
  BY <1>1
<1>3. DOMAIN ConceptOrder \in SUBSET Nat
  BY OrderAssumption
<1>4. First(known) \in known
  BY <1>2, <1>3, FirstIsMember
<1> QED BY <1>2, <1>4

(* The steps for the members of a record, and for what its owner owns.     *)
LEMMA MembersAreSound ==
  ASSUME NEW w \in Words, AsksForMembers(w)
  PROVE  AllSound(MemberSteps(w)) /\ MemberSteps(w) # <<>>
<1> DEFINE parent == CHOOSE f \in MemberLinks(w) : TRUE
           child  == ReverseFacet[parent]
           steps  == Related(parent, child)
           last   == AggregateStep(child, 4)
<1>1. parent \in Facets /\ child \in Facets
  <2>1. parent \in MemberLinks(w)
    BY DEF AsksForMembers
  <2> QED BY <2>1, ReverseAssumption DEF MemberLinks
<1>2. MemberSteps(w) = steps \o (IF w.count THEN <<last>> ELSE <<>>)
  BY DEF MemberSteps
<1> HIDE DEF parent, child
<1>3. AllSound(steps) /\ Len(steps) = 4 /\ steps[4].kind = "join" /\ steps \in Seq(PlanStep)
  BY <1>1, RelatedIsSound DEF AllSound
<1>4. last \in PlanStep /\ last.kind = "aggregate" /\ "aggregate" \in last.spec /\ last.deps = <<4>>
  <2>1. last \in PlanStep
    BY <1>1, Rooms, AggregateStepType
  <2> QED BY <2>1 DEF AggregateStep, PlainStep
<1> HIDE DEF steps, last
<1>5. CASE w.count
  <2>1. MemberSteps(w) = steps \o <<last>>
    BY <1>2, <1>5
  <2>2. (steps \o <<last>>)[5] = last /\ (steps \o <<last>>)[4] = steps[4]
        /\ Len(steps \o <<last>>) = 5
    <3>1. steps \in Seq(PlanStep) /\ last \in PlanStep
      BY <1>3, <1>4
    <3>2. ASSUME NEW n \in Nat, n = Len(steps)
          PROVE  /\ Len(steps \o <<last>>) = n + 1 /\ (steps \o <<last>>)[n + 1] = last
                 /\ \A i \in 1..n : (steps \o <<last>>)[i] = steps[i]
      BY <3>1, <3>2, OneMore
    <3>3. 4 \in Nat /\ 4 + 1 = 5 /\ 4 \in 1..4
      OBVIOUS
    <3> QED BY <1>3, <3>2, <3>3
  <2>3. Sound(steps \o <<last>>, 5)
    BY <1>3, <1>4, <2>2 DEF Sound
  <2>4. Len(steps) < MaxSteps /\ Len(steps) + 1 = 5
    BY <1>3, Rooms, StepsAssumption
  <2>5. AllSound(steps \o <<last>>)
    BY <1>3, <1>4, <2>3, <2>4, AppendSound
  <2> QED BY <2>1, <2>2, <2>5
<1>6. CASE ~w.count
  <2>1. MemberSteps(w) = steps
    BY <1>2, <1>3, <1>6
  <2> QED BY <1>3, <2>1
<1> QED BY <1>5, <1>6

(* The steps for a record by name.  A concept that only a join can answer  *)
(* does not come here: the rule for members takes the question.            *)
LEMMA LookupIsSound ==
  ASSUME NEW w \in Words, w.facet \in Facets, w.facet \in w.mentions,
         w.name, ~AsksForMembers(w)
  PROVE  AllSound(LookupSteps(w)) /\ LookupSteps(w) # <<>>
<1> DEFINE a == PlainStep("search", w.facet, <<>>)
           b == PlainStep("get_by_id", w.facet, <<1>>)
           c == ConceptStep(w.facet, ConceptOf(w), <<2>>)
           steps == <<a, b>>
<1>1. <<>> \in Seq(StepIds) /\ <<1>> \in Seq(StepIds) /\ <<2>> \in Seq(StepIds)
  BY Rooms
<1>2. "search" \in StepKind /\ "get_by_id" \in StepKind
  BY DEF StepKind
<1>3. /\ a \in PlanStep /\ a.kind = "search" /\ a.facet = w.facet
      /\ b \in PlanStep /\ b.kind = "get_by_id" /\ b.facet = w.facet
  <2>1. a \in PlanStep /\ b \in PlanStep
    BY <1>1, <1>2, PlainStepType
  <2> QED BY <2>1 DEF PlainStep
<1>4. LookupSteps(w) = steps \o (IF ConceptOf(w) = NoConcept THEN <<>> ELSE <<c>>)
  BY DEF LookupSteps
<1> HIDE DEF a, b, c
<1>5. /\ steps \in Seq(PlanStep) /\ Len(steps) = 2 /\ DOMAIN steps = {1, 2}
      /\ steps[1] = a /\ steps[2] = b /\ steps # <<>>
  BY <1>3
<1> HIDE DEF steps
<1>6. Sound(steps, 1) /\ Sound(steps, 2)
  BY <1>3, <1>5 DEF Sound
<1>7. AllSound(steps)
  BY <1>5, <1>6, Rooms, StepsAssumption DEF AllSound
<1>8. CASE ConceptOf(w) = NoConcept
  <2>1. LookupSteps(w) = steps
    BY <1>4, <1>5, <1>8
  <2> QED BY <1>5, <1>7, <2>1
<1>9. CASE ConceptOf(w) # NoConcept
  <2> DEFINE n == ConceptOf(w)
  <2>1. n \in DOMAIN Concepts[w.facet] /\ n \in w.triggers
    BY <1>9, ConceptIsAsked
  <2>2. Concepts[w.facet][n] \in {"api", "field", "reverse"}
    BY <2>1, ConceptsAssumption DEF Backing
  <2>3. Concepts[w.facet][n] # "reverse"
    <3>1. SUFFICES ASSUME Concepts[w.facet][n] = "reverse" PROVE FALSE
      OBVIOUS
    <3>2. n \in ReverseConcepts(w.facet)
      BY <2>1, <3>1 DEF ReverseConcepts
    <3>3. w.facet \in MemberLinks(w)
      BY <2>1, <3>2, ReverseConceptsAssumption DEF MemberLinks, MemberWord
    <3> QED BY <3>3 DEF AsksForMembers
  <2>4. c \in PlanStep /\ c.kind = "concept" /\ c.facet = w.facet /\ c.backing \in {"api", "field"}
    <3>1. c \in PlanStep
      BY <1>1, <2>1, ConceptStepType DEF c
    <3>2. c.kind = "concept" /\ c.facet = w.facet /\ c.backing = Concepts[w.facet][n]
      BY DEF c, ConceptStep, PlainStep
    <3> QED BY <2>2, <2>3, <3>1, <3>2
  <2>5. LookupSteps(w) = steps \o <<c>>
    BY <1>4, <1>9
  <2>6. (steps \o <<c>>)[3] = c /\ (steps \o <<c>>)[1] = a /\ Len(steps \o <<c>>) = 3
    <3>1. ASSUME NEW k \in Nat, k = Len(steps)
          PROVE  /\ Len(steps \o <<c>>) = k + 1 /\ (steps \o <<c>>)[k + 1] = c
                 /\ \A i \in 1..k : (steps \o <<c>>)[i] = steps[i]
      BY <1>5, <2>4, <3>1, OneMore
    <3>2. 2 \in Nat /\ 2 + 1 = 3 /\ 1 \in 1..2
      OBVIOUS
    <3> QED BY <1>5, <3>1, <3>2
  <2>7. Sound(steps \o <<c>>, 3)
    BY <1>3, <2>4, <2>6 DEF Sound
  <2>8. Len(steps) < MaxSteps /\ Len(steps) + 1 = 3
    BY <1>5, Rooms, StepsAssumption
  <2>9. AllSound(steps \o <<c>>)
    BY <1>7, <2>4, <2>7, <2>8, AppendSound
  <2> QED BY <2>5, <2>6, <2>9
<1> QED BY <1>8, <1>9

(* A listed facet, alone or with an aggregation over its rows.             *)
LEMMA ListIsSound ==
  ASSUME NEW facet \in Facets
  PROVE  LET a == PlainStep("list", facet, <<>>)
             b == AggregateStep(facet, 1)
         IN /\ AllSound(<<a>>) /\ <<a>> # <<>>
            /\ AllSound(<<a, b>>) /\ <<a, b>> # <<>>
<1> DEFINE a == PlainStep("list", facet, <<>>)
           b == AggregateStep(facet, 1)
<1>1. <<>> \in Seq(StepIds) /\ "list" \in StepKind /\ 1 \in StepIds /\ MaxSteps \in Nat
  BY Rooms DEF StepKind
<1>2. /\ a \in PlanStep /\ a.kind = "list" /\ a.facet = facet
      /\ b \in PlanStep /\ b.kind = "aggregate" /\ "aggregate" \in b.spec /\ b.deps = <<1>>
  <2>1. a \in PlanStep /\ b \in PlanStep
    BY <1>1, PlainStepType, AggregateStepType
  <2> QED BY <2>1 DEF PlainStep, AggregateStep
<1> HIDE DEF a, b
<1>3. AllSound(<<a>>)
  <2> DEFINE steps == <<a>>
  <2>1. steps \in Seq(PlanStep) /\ Len(steps) = 1 /\ DOMAIN steps = {1} /\ steps[1] = a
    BY <1>2
  <2> HIDE DEF steps
  <2>2. AllSound(steps)
    BY <1>1, <1>2, <2>1, StepsAssumption DEF AllSound, Sound
  <2> QED BY <2>2 DEF steps
<1>4. AllSound(<<a, b>>)
  <2> DEFINE steps == <<a, b>>
  <2>1. /\ steps \in Seq(PlanStep) /\ Len(steps) = 2 /\ DOMAIN steps = {1, 2}
        /\ steps[1] = a /\ steps[2] = b
    BY <1>2
  <2> HIDE DEF steps
  <2>2. Sound(steps, 1) /\ Sound(steps, 2)
    BY <1>2, <2>1 DEF Sound
  <2>3. AllSound(steps)
    BY <1>1, <2>1, <2>2, StepsAssumption DEF AllSound
  <2> QED BY <2>3 DEF steps
<1> QED BY <1>3, <1>4 DEF a, b

(* What the keyword planner makes of a question: a sound plan, and an      *)
(* empty one only if the question mentions no facet.                       *)
LEMMA KeywordStepsAreSound ==
  ASSUME NEW w \in Words, w.facet = NoFacet \/ w.facet \in w.mentions
  PROVE  AllSound(KeywordSteps(w)) /\ (w.facet # NoFacet => KeywordSteps(w) # <<>>)
<1>1. CASE AsksForMembers(w)
  BY <1>1, MembersAreSound DEF KeywordSteps
<1>2. CASE ~AsksForMembers(w) /\ AsksForOwned(w)
  <2>1. KeywordSteps(w) = Related("systems", "projects")
    BY <1>2 DEF KeywordSteps
  <2>2. AllSound(Related("systems", "projects")) /\ Len(Related("systems", "projects")) = 4
    BY FacetNamesAssumption, RelatedIsSound
  <2> QED BY <2>1, <2>2
<1>3. CASE ~AsksForMembers(w) /\ ~AsksForOwned(w)
  <2>1. w.facet \in Facets \cup {NoFacet} /\ w.metric \in DOMAIN MetricFacet \cup {NoMetric}
    BY DEF Words
  <2>2. TargetFacet(w) = NoFacet => w.facet = NoFacet
    BY <2>1, MetricAssumption, NamesAssumption DEF TargetFacet
  <2>3. TargetFacet(w) # NoFacet => TargetFacet(w) \in Facets
    BY <2>1, MetricAssumption DEF TargetFacet
  <2>4. ~IsAnalytic(w) => TargetFacet(w) = w.facet
    BY DEF IsAnalytic, TargetFacet
  <2>5. CASE TargetFacet(w) = NoFacet
    <3>1. KeywordSteps(w) = <<>>
      BY <1>3, <2>5 DEF KeywordSteps
    <3>2. AllSound(<<>>)
      BY Rooms DEF AllSound
    <3> QED BY <2>2, <2>5, <3>1, <3>2
  <2>6. CASE TargetFacet(w) # NoFacet /\ IsAnalytic(w)
    <3>1. KeywordSteps(w) = <<PlainStep("list", TargetFacet(w), <<>>), AggregateStep(TargetFacet(w), 1)>>
      BY <1>3, <2>6 DEF KeywordSteps
    <3> QED BY <2>3, <2>6, <3>1, ListIsSound
  <2>7. CASE TargetFacet(w) # NoFacet /\ ~IsAnalytic(w) /\ w.name
    <3>1. KeywordSteps(w) = LookupSteps(w)
      BY <1>3, <2>7 DEF KeywordSteps
    <3>2. w.facet \in Facets /\ w.facet \in w.mentions
      BY <2>3, <2>4, <2>7
    <3> QED BY <1>3, <2>7, <3>1, <3>2, LookupIsSound
  <2>8. CASE TargetFacet(w) # NoFacet /\ ~IsAnalytic(w) /\ ~w.name
    <3>1. KeywordSteps(w) = <<PlainStep("list", w.facet, <<>>)>>
      BY <1>3, <2>8 DEF KeywordSteps
    <3> QED BY <2>3, <2>4, <2>8, <3>1, ListIsSound
  <2> QED BY <2>5, <2>6, <2>7, <2>8
<1> QED BY <1>1, <1>2, <1>3

(* The plan of the keyword net is well-typed and executable, and it asks   *)
(* for data when the question mentions a facet.                            *)
LEMMA NetPlanWorks ==
  ASSUME NEW w \in Questions
  PROVE  /\ NetPlan(w) \in ExecutionPlan /\ IsExecutable(NetPlan(w))
         /\ NetPlan(w).intent \in {"data", "chat"}
         /\ w.facet # NoFacet => NetPlan(w).intent = "data"
<1>1. w \in Words /\ (w.facet = NoFacet \/ w.facet \in w.mentions)
  BY QuestionsAssumption
<1>2. AllSound(KeywordSteps(w)) /\ (w.facet # NoFacet => KeywordSteps(w) # <<>>)
  BY <1>1, KeywordStepsAreSound
<1> DEFINE p == DataPlan(KeywordSteps(w))
<1>3. FallbackPlan("none", w) = p /\ p.intent = "data" /\ p.steps = KeywordSteps(w)
  BY DEF FallbackPlan, DataPlan
<1>4. p \in ExecutionPlan
  BY <1>2 DEF DataPlan, ExecutionPlan, PlanIntent, RecallTopic, AllSound
<1>5. IsExecutable(p)
  BY <1>2, <1>3, <1>4, SoundIsExecutable
<1>6. ChatPlan \in ExecutionPlan /\ ChatPlan.intent = "chat" /\ ChatPlan.steps = <<>>
  BY DEF ChatPlan, ExecutionPlan, PlanIntent, RecallTopic
<1>7. IsExecutable(ChatPlan)
  BY <1>6 DEF IsExecutable
<1>8. NetPlan(w) = IF NothingToDo(p) THEN ChatPlan ELSE p
  BY <1>3 DEF NetPlan
<1>9. NothingToDo(p) <=> KeywordSteps(w) = <<>>
  BY <1>3 DEF NothingToDo
<1> HIDE DEF p
<1> QED BY <1>2, <1>3, <1>4, <1>5, <1>6, <1>7, <1>8, <1>9

-----------------------------------------------------------------------------
(* The turn.                                                               *)

(* Where the plan comes from: a plan the model proposed, the recall plan,  *)
(* or, when the words were read, the keyword net; always so when the model *)
(* failed.                                                                 *)
PlanInv ==
  /\ pc = "plan" => plan = ChatPlan /\ words = Unread /\ model = "unasked"
  /\ pc # "plan" =>
       /\ words # Unread => words \in Questions /\ plan = NetPlan(words)
       /\ model = "failed" => words \in Questions /\ plan = NetPlan(words)

(* What was called when.                                                   *)
CallsInv ==
  /\ topic # "none" => /\ pc \in {"plan", "pipeline", "answered"} /\ calls = 0
                       /\ pc # "plan" => plan.intent = "recall"
  /\ pc = "plan"      => webOn = FALSE /\ calls = tries
  /\ pc = "pipeline"  => webOn = FALSE /\ calls <= MaxRepair + 1 /\ tries = 0
  /\ pc = "decide"    => webOn = TRUE /\ calls <= MaxRepair + 1 + tries
  /\ pc = "search"    => webOn = TRUE /\ calls <= 2 * MaxRepair + 2
  /\ pc = "chat"      => calls <= IF webOn THEN 2 * MaxRepair + 2 ELSE MaxRepair + 1
  /\ pc = "generate"  => webOn = FALSE /\ calls <= MaxRepair + 1
  /\ webOn => plan.intent = "chat"
  /\ calls <= ModelCallsBound
  /\ pc \in {"plan", "decide"} \/ tries = 0
  /\ pc = "search" => searches <= MaxSearchRetries
  /\ pc \in {"plan", "pipeline", "decide"} => searches = 0

TurnInv == TurnTypeOK /\ PlanInv /\ CallsInv

(* Plans of the turn's sources.                                            *)
LEMMA PlanSources ==
  /\ ChatPlan \in ExecutionPlan /\ ChatPlan.intent = "chat"
  /\ Unread \in Words
  /\ \A t \in RecallTopic : t # "none" => \A w : /\ FallbackPlan(t, w) \in ExecutionPlan
                                                 /\ FallbackPlan(t, w).intent = "recall"
<1>1. <<>> \in Seq(PlanStep)
  OBVIOUS
<1>2. ChatPlan \in ExecutionPlan /\ ChatPlan.intent = "chat"
  BY <1>1 DEF ChatPlan, ExecutionPlan, PlanIntent, RecallTopic
<1>3. Unread \in Words
  BY DEF Unread, Words
<1>4. ASSUME NEW t \in RecallTopic, NEW w, t # "none"
      PROVE  FallbackPlan(t, w) \in ExecutionPlan /\ FallbackPlan(t, w).intent = "recall"
  BY <1>1, <1>4 DEF FallbackPlan, ExecutionPlan, PlanIntent
<1> QED BY <1>2, <1>3, <1>4

(* The invariant holds at first.                                           *)
LEMMA TurnInit == Init => TurnInv
<1> SUFFICES ASSUME Init PROVE TurnInv
  OBVIOUS
<1>1. TurnTypeOK
  <2>1. 0 \in Nat /\ 0 \in 0..MaxRepair /\ 0 \in 0..(MaxSearchRetries + 1)
    BY RetriesAssumption
  <2> QED BY <2>1, PlanSources DEF Init, TurnTypeOK
<1>2. PlanInv
  BY DEF Init, PlanInv
<1>3. CallsInv
  BY PlanSources, RetriesAssumption DEF Init, CallsInv, ModelCallsBound
<1> QED BY <1>1, <1>2, <1>3 DEF TurnInv

(* The bound on the calls when the plan is made, before anything else.     *)
LEMMA PlannedCalls ==
  ASSUME TurnInv, topic = "none", pc = "plan", StructuredEnds, NoWeb, pc' = "pipeline",
         plan' \in ExecutionPlan
  PROVE  CallsInv'
<1>1. /\ topic' = "none" /\ webOn' = FALSE /\ tries' = 0 /\ searches' = 0 /\ calls' = calls + 1
      /\ calls \in Nat /\ calls <= MaxRepair /\ MaxRepair \in Nat
  BY RetriesAssumption DEF TurnInv, TurnTypeOK, CallsInv, StructuredEnds, NoWeb
<1>2. ModelCallsBound' = MaxRepair + 2
  BY <1>1 DEF ModelCallsBound
<1> QED BY <1>1, <1>2 DEF CallsInv

(* The steps that make the plan.                                           *)
LEMMA PlanningKeeps ==
  TurnInv /\ (PlanRecall \/ PlanRepair \/ PlanProposed \/ PlanFails) => TurnInv'
<1> SUFFICES ASSUME TurnInv, PlanRecall \/ PlanRepair \/ PlanProposed \/ PlanFails PROVE TurnInv'
  OBVIOUS
<1> USE RetriesAssumption
<1>1. /\ TurnTypeOK /\ PlanInv /\ CallsInv /\ pc = "plan"
      /\ plan = ChatPlan /\ words = Unread /\ model = "unasked"
      /\ webOn = FALSE /\ searches = 0
  BY DEF TurnInv, PlanInv, CallsInv, PlanRecall, PlanRepair, PlanProposed, PlanFails
<1>2. CASE PlanRecall
  <2>1. /\ topic # "none" /\ plan' = FallbackPlan(topic, words) /\ pc' = "pipeline"
        /\ UNCHANGED <<words, model, calls, tries, topic, webOn, searches, answer>>
    BY <1>2 DEF PlanRecall, Planned, NoWeb
  <2>2. plan' \in ExecutionPlan /\ plan'.intent = "recall"
    BY <1>1, <2>1, PlanSources DEF TurnTypeOK
  <2>3. TurnTypeOK'
    BY <1>1, <2>1, <2>2 DEF TurnTypeOK
  <2>4. PlanInv'
    BY <1>1, <2>1 DEF PlanInv
  <2>5. tries = 0 /\ calls = 0
    BY <1>1, <2>1 DEF CallsInv, TurnTypeOK
  <2>6. CallsInv'
    BY <1>1, <2>1, <2>2, <2>5 DEF CallsInv, ModelCallsBound
  <2> QED BY <2>3, <2>4, <2>6 DEF TurnInv
<1>3. CASE PlanRepair
  <2>1. /\ topic = "none" /\ tries < MaxRepair /\ tries' = tries + 1 /\ calls' = calls + 1
        /\ UNCHANGED <<pc, words, plan, model, topic, webOn, searches, answer>>
    BY <1>3 DEF PlanRepair, Repair, MayRepair, NoWeb
  <2>2. TurnTypeOK'
    BY <1>1, <2>1 DEF TurnTypeOK
  <2>3. PlanInv'
    BY <1>1, <2>1 DEF PlanInv
  <2>4. CallsInv'
    BY <1>1, <2>1, PlanSources DEF CallsInv, ModelCallsBound, TurnTypeOK
  <2> QED BY <2>2, <2>3, <2>4 DEF TurnInv
<1>4. ASSUME Net, topic = "none", StructuredEnds, NoWeb, model' \in {"proposed", "failed"}
      PROVE  TurnInv'
  <2>1. PICK w \in Questions : words' = w /\ plan' = NetPlan(w) /\ pc' = "pipeline"
    BY <1>4 DEF Net, Planned
  <2>2. plan' \in ExecutionPlan /\ w \in Words
    BY <2>1, NetPlanWorks, QuestionsAssumption
  <2>3. TurnTypeOK'
    BY <1>1, <1>4, <2>1, <2>2 DEF TurnTypeOK, StructuredEnds, NoWeb
  <2>4. PlanInv'
    BY <2>1 DEF PlanInv
  <2>5. CallsInv'
    BY <1>1, <1>4, <2>1, <2>2, PlannedCalls DEF TurnInv
  <2> QED BY <2>3, <2>4, <2>5 DEF TurnInv
<1>5. CASE PlanProposed
  <2>1. topic = "none" /\ StructuredEnds /\ NoWeb /\ model' = "proposed"
    BY <1>5 DEF PlanProposed
  <2>2. CASE Net
    BY <1>4, <2>1, <2>2
  <2>3. CASE ~Net
    <3>1. PICK p \in LlmPlans : Planned(IF p.intent = "chat" THEN ChatPlan ELSE p) /\ words' = words
      BY <1>5, <2>3 DEF PlanProposed
    <3>2. plan' \in ExecutionPlan /\ pc' = "pipeline"
      BY <3>1, PlanSources, LlmPlansAssumption DEF Planned
    <3>3. TurnTypeOK'
      BY <1>1, <2>1, <3>1, <3>2 DEF TurnTypeOK, StructuredEnds, NoWeb
    <3>4. PlanInv'
      BY <1>1, <2>1, <3>1, <3>2 DEF PlanInv
    <3>5. CallsInv'
      BY <1>1, <2>1, <3>2, PlannedCalls DEF TurnInv
    <3> QED BY <3>3, <3>4, <3>5 DEF TurnInv
  <2> QED BY <2>2, <2>3
<1>6. CASE PlanFails
  BY <1>4, <1>6 DEF PlanFails
<1> QED BY <1>2, <1>3, <1>5, <1>6

(* The steps after the plan leave the plan and its source alone.           *)
LEMMA AnsweringKeepsPlan ==
  ASSUME TurnInv, pc # "plan", pc' # "plan", UNCHANGED <<words, plan, model>>
  PROVE  PlanInv'
BY DEF TurnInv, PlanInv

(* The steps that answer.                                                  *)
LEMMA AnsweringKeeps ==
  TurnInv /\ (Pipeline \/ DecideRepair \/ Decide \/ WebAgain \/ WebEnds \/ WebRaises \/ Write)
    => TurnInv'
<1> SUFFICES ASSUME TurnInv,
                    Pipeline \/ DecideRepair \/ Decide \/ WebAgain \/ WebEnds \/ WebRaises \/ Write
             PROVE  TurnInv'
  OBVIOUS
<1> USE RetriesAssumption
<1>1. TurnTypeOK /\ PlanInv /\ CallsInv
  BY DEF TurnInv
<1>2. pc # "plan" /\ pc' # "plan" /\ UNCHANGED <<words, plan, model, topic>>
  BY DEF Pipeline, DecideRepair, Decide, WebAgain, WebEnds, WebRaises, Write, OnlyPhase, Answered
<1>3. PlanInv'
  BY <1>2, AnsweringKeepsPlan
<1>4. TurnTypeOK'
  <2>1. CASE Pipeline
    BY <1>1, <2>1 DEF TurnTypeOK, Pipeline, OnlyPhase, Answered
  <2>2. CASE DecideRepair \/ Decide
    BY <1>1, <2>2 DEF TurnTypeOK, DecideRepair, Decide, Repair, MayRepair, StructuredEnds
  <2>3. CASE WebAgain \/ WebEnds \/ WebRaises
    BY <1>1, <2>3 DEF TurnTypeOK, CallsInv, WebAgain, WebEnds, WebRaises, MaySearchAgain, OnlyPhase
  <2>4. CASE Write
    BY <1>1, <2>4 DEF TurnTypeOK, Write, OnlyPhase, Answered
  <2> QED BY <2>1, <2>2, <2>3, <2>4
<1>5. CASE Pipeline
  <2>1. ASSUME plan.intent = "chat" PROVE CallsInv'
    BY <1>1, <1>5, <2>1 DEF Pipeline, OnlyPhase, CallsInv, ModelCallsBound, TurnTypeOK
  <2>2. ASSUME plan.intent # "chat" PROVE CallsInv'
    BY <1>1, <1>5, <2>2 DEF Pipeline, OnlyPhase, Answered, CallsInv, ModelCallsBound, TurnTypeOK
  <2>3. CallsInv'
    BY <2>1, <2>2
  <2> QED BY <1>3, <1>4, <2>3 DEF TurnInv
<1>6. CASE DecideRepair \/ Decide
  <2>1. CallsInv'
    BY <1>1, <1>6 DEF DecideRepair, Decide, Repair, MayRepair, StructuredEnds, CallsInv,
                      ModelCallsBound, TurnTypeOK
  <2> QED BY <1>3, <1>4, <2>1 DEF TurnInv
<1>7. CASE WebAgain \/ WebEnds \/ WebRaises
  <2>1. CallsInv'
    BY <1>1, <1>7 DEF WebAgain, WebEnds, WebRaises, MaySearchAgain, OnlyPhase, CallsInv,
                      ModelCallsBound, TurnTypeOK
  <2> QED BY <1>3, <1>4, <2>1 DEF TurnInv
<1>8. CASE Write
  <2>1. CallsInv'
    BY <1>1, <1>8 DEF Write, OnlyPhase, Answered, CallsInv, ModelCallsBound, TurnTypeOK
  <2> QED BY <1>3, <1>4, <2>1 DEF TurnInv
<1> QED BY <1>5, <1>6, <1>7, <1>8

(* Hence the invariant always holds.                                       *)
LEMMA TurnAlways == Spec => []TurnInv
<1>1. TurnInv /\ UNCHANGED vars => TurnInv'
  BY DEF vars, TurnInv, TurnTypeOK, PlanInv, CallsInv, ModelCallsBound
<1>2. TurnInv /\ [Next]_vars => TurnInv'
  BY <1>1, PlanningKeeps, AnsweringKeeps DEF Next
<1> QED BY <1>2, TurnInit, PTL DEF Spec

(* The plan of a turn is always one the nodes can read, whatever the model *)
(* proposed, and neither corrections nor searches exceed their budget.     *)
THEOREM TurnTypeCorrect == Spec => []TurnTypeOK
<1>1. TurnInv => TurnTypeOK
  BY DEF TurnInv
<1> QED BY <1>1, TurnAlways, PTL

(* Every plan made from keywords, for every catalog and registry, runs     *)
(* from end to end when its search finds a record.                         *)
THEOREM KeywordPlanAlwaysRuns == Spec => []KeywordPlanRuns
<1>1. TurnInv => KeywordPlanRuns
  BY NetPlanWorks DEF TurnInv, PlanInv, KeywordPlanRuns
<1> QED BY <1>1, TurnAlways, PTL

(* When the model fails, a question that mentions a facet gets a plan that *)
(* asks the ERP for data.                                                  *)
THEOREM DataAlwaysSurvivesOutage == Spec => []DataSurvivesOutage
<1>1. TurnInv => DataSurvivesOutage
  BY NetPlanWorks DEF TurnInv, PlanInv, DataSurvivesOutage
<1> QED BY <1>1, TurnAlways, PTL

(* The model is called at most once more than the corrections allow for    *)
(* each of a turn's structured calls and its answer, and not at all to     *)
(* recall.                                                                 *)
THEOREM ModelCallsAlwaysBounded == Spec => []ModelCallsAreBounded
<1>1. TurnInv => ModelCallsAreBounded
  BY DEF TurnInv, CallsInv, ModelCallsAreBounded
<1> QED BY <1>1, TurnAlways, PTL
=============================================================================
