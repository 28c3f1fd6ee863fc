------------------------------ MODULE AgentProofs ------------------------------
(***************************************************************************)
(* Theorems about the agent pipeline, for every set of plans, threads,     *)
(* facets and keys and every bound, in five parts: the types of the        *)
(* channels; the freshness of the context; the isolation of threads; what  *)
(* a turn answers (an ambiguity is asked about, an answer is phrased from  *)
(* data of its own turn, the record fetched is the record found, and the   *)
(* members counted are linked); and what is kept of a conversation (the    *)
(* durable history is a dialogue, a recall quotes the past, a memory holds *)
(* the answer to its question, and the whole implements Conversation).     *)
(***************************************************************************)
EXTENDS AgentProperties, TLAPS, WellFoundedInduction, SequenceTheorems, FiniteSetTheorems

-----------------------------------------------------------------------------
(* Least elements: what the loops over steps in list order pick first.     *)

(* First(S) is the least element of a non-empty set of naturals.           *)
LEMMA FirstIsLeast ==
  ASSUME NEW S \in SUBSET Nat, S # {}
  PROVE  First(S) \in S /\ \A t \in S : First(S) <= t
<1>1. PICK x \in S : \A y \in S : ~(<<y, x>> \in OpToRel(<, Nat))
  BY WFMin, NatLessThanWellFounded
<1>2. ASSUME NEW y \in S PROVE x <= y
  <2>1. ~(<<y, x>> \in OpToRel(<, Nat))
    BY <1>1
  <2>2. <<y, x>> \in Nat \X Nat
    OBVIOUS
  <2>3. ~(y < x)
    BY <2>1, <2>2 DEF OpToRel
  <2> QED BY <2>3
<1> QED BY <1>2 DEF First

(* FirstEntry picks a member of a non-empty set of steps, whatever the     *)
(* entries are.                                                            *)
LEMMA FirstEntryIsMember ==
  ASSUME NEW entries \in [StepIds -> Entry], NEW S \in SUBSET StepIds, S # {}
  PROVE  FirstEntry(entries, S) \in S
<1> DEFINE places == {ListOrder(entries, s) : s \in S}
<1>1. places \in SUBSET Nat /\ places # {}
  <2>1. ASSUME NEW s \in StepIds PROVE ListOrder(entries, s) \in Nat
    BY BoundsAssumption DEF ListOrder, StepIds
  <2> QED BY <2>1
<1>2. First(places) \in places /\ \A p \in places : First(places) <= p
  BY <1>1, FirstIsLeast
<1>3. PICK s \in S : ListOrder(entries, s) = First(places)
  BY <1>2
<1>4. \A t \in S : ListOrder(entries, s) <= ListOrder(entries, t)
  BY <1>2, <1>3
<1> QED BY <1>4 DEF FirstEntry

-----------------------------------------------------------------------------
(* Types of the initial values and of what the nodes compute.              *)

(* The channels of a thread that was never used are well-typed.            *)
LEMMA EmptyChannelsType == EmptyChannels \in Channels
<1>1. AbsentEntity \in Entity
  BY DEF AbsentEntity, Entity
<1>2. NoSelection \in Selection
  BY DEF NoSelection, Selection
<1>3. AbsentEntry \in Entry
  BY BoundsAssumption DEF AbsentEntry, Entry, EntryKind
<1>4. NoAnalytic \in Analytic
  BY BoundsAssumption DEF NoAnalytic, Analytic
<1>5. NoContext \in Context
  BY BoundsAssumption DEF NoContext, Context, Block, FocusState
<1>6. NotNeeded \in Clarification /\ NoResponse \in Response
  BY BoundsAssumption DEF NotNeeded, Clarification, NoResponse, Response, AnswerKind
<1>7. [turn |-> 0, origin |-> 0] \in Question /\ "none" \in VerdictStatus
  BY BoundsAssumption DEF Question, VerdictStatus
<1> QED BY <1>1, <1>2, <1>3, <1>4, <1>5, <1>6, <1>7 DEF EmptyChannels, Channels

(* Every plan a channel may hold is an execution plan.                     *)
LEMMA PlanType ==
  ASSUME NEW p \in Plans \cup {NoPlan}
  PROVE  p \in ExecutionPlan
<1>1. CASE p \in Plans
  BY <1>1, PlansAssumption
<1>2. CASE p = NoPlan
  <2>1. <<>> \in Seq(PlanStep)
    OBVIOUS
  <2> QED BY <1>2, <2>1 DEF NoPlan, ExecutionPlan, PlanIntent, RecallTopic
<1> QED BY <1>1, <1>2

(* A step of a plan is a plan step.                                        *)
LEMMA StepType ==
  ASSUME NEW p \in ExecutionPlan, NEW s \in DOMAIN p.steps
  PROVE  p.steps[s] \in PlanStep
BY DEF ExecutionPlan

(* The planner's reset keeps the channels well-typed.                      *)
LEMMA ResetType ==
  ASSUME NEW c \in Channels
  PROVE  ResetDerived(c) \in Channels
<1>1. EmptyChannels.resolved \in [StepIds -> Entity]
  /\ EmptyChannels.selected \in [StepIds -> Selection]
  /\ EmptyChannels.results \in [StepIds -> Entry]
  /\ EmptyChannels.linked \in [StepIds -> Entry]
  /\ EmptyChannels.analytics \in [StepIds -> Analytic]
  BY EmptyChannelsType DEF Channels
<1>2. NoContext \in Context /\ "none" \in VerdictStatus
  BY BoundsAssumption DEF NoContext, Context, Block, FocusState, VerdictStatus
<1> QED BY <1>1, <1>2 DEF ResetDerived, Channels

(* The entity resolver's entries are well-typed.                           *)
LEMMA ResolutionType ==
  ASSUME NEW c \in Channels, NEW o \in [SearchSteps(c.plan) -> SearchOutcome]
  PROVE  Resolution(c, o) \in Channels
<1>1. c.plan \in ExecutionPlan
  BY PlanType DEF Channels
<1>2. ASSUME NEW s \in SearchesRun(c.plan, o)
      PROVE  [state |-> o[s].state, facet |-> c.plan.steps[s].facet, id |-> o[s].id] \in Entity
  <2>1. s \in SearchSteps(c.plan) /\ s \in DOMAIN c.plan.steps
    BY DEF SearchesRun, SearchSteps, StepsOfKind
  <2>2. c.plan.steps[s].facet \in Facets \cup {NoFacet, UnknownFacet}
    BY <1>1, <2>1, StepType DEF PlanStep
  <2>3. o[s] \in SearchOutcome
    BY <2>1
  <2>4. o[s].state \in {"found", "ambiguous", "empty", "error"} /\ o[s].id \in Keys \cup {NoKey}
    BY <2>3 DEF SearchOutcome
  <2> QED BY <2>2, <2>4 DEF Entity
<1>3. AbsentEntity \in Entity
  BY DEF AbsentEntity, Entity
<1>4. ResolvedEntities(c.plan, o) \in [StepIds -> Entity]
  BY <1>2, <1>3 DEF ResolvedEntities
<1>5. SearchErrors(c.plan, o) \in SUBSET StepIds
  BY DEF SearchErrors, SearchesRun, SearchSteps, StepsOfKind
<1>6. [needed |-> TRUE, origin |-> c.user_input.origin] \in Clarification
  BY DEF Channels, Question, Clarification
<1>7. c.clarification \in Clarification /\ c.errors \cup SearchErrors(c.plan, o) \in SUBSET StepIds
  BY <1>5 DEF Channels
<1> QED BY <1>4, <1>6, <1>7 DEF Resolution, Channels

(* The id of a step is a key, or none.                                     *)
LEMMA ResolveIdType ==
  ASSUME NEW step \in PlanStep, NEW resolved \in [StepIds -> Entity]
  PROVE  ResolveId(step, resolved) \in Keys \cup {NoKey}
<1> DEFINE direct == {n \in DOMAIN step.deps : HasId(resolved, step.deps[n])}
           known  == {s \in StepIds : HasId(resolved, s)}
<1>1. \A s \in StepIds : resolved[s].id \in Keys \cup {NoKey}
  BY DEF Entity
<1>2. CASE direct # {}
  <2>1. step.deps \in Seq(StepIds)
    BY DEF PlanStep
  <2>2. direct \in SUBSET Nat
    BY <2>1
  <2>3. First(direct) \in direct
    BY <1>2, <2>2, FirstIsLeast
  <2>4. step.deps[First(direct)] \in StepIds
    BY <2>3 DEF HasId
  <2> QED BY <1>1, <1>2, <2>4 DEF ResolveId
<1>3. CASE direct = {} /\ \E s \in StepIds : known = {s}
  <2>1. (CHOOSE s \in StepIds : known = {s}) \in StepIds
    BY <1>3
  <2> QED BY <1>1, <1>3, <2>1 DEF ResolveId
<1>4. CASE direct = {} /\ ~\E s \in StepIds : known = {s}
  BY <1>4 DEF ResolveId
<1> QED BY <1>2, <1>3, <1>4

(* What the API selector decides is well-typed, and a record is fetched    *)
(* only of a known facet and with a resolved id.                           *)
LEMMA SelectionOfType ==
  ASSUME NEW step \in PlanStep, NEW resolved \in [StepIds -> Entity]
  PROVE  /\ SelectionOf(step, resolved) \in Selection
         /\ SelectionOf(step, resolved).act = "call" /\ step.kind = "get_by_id"
              => step.facet \in Facets /\ SelectionOf(step, resolved).id \in Keys
<1> DEFINE id == ResolveId(step, resolved)
<1>1. id \in Keys \cup {NoKey}
  BY ResolveIdType
<1>2. /\ [act |-> "call", id |-> id] \in Selection
      /\ \A what \in {"skip", "error", "marker"} : [act |-> what, id |-> NoKey] \in Selection
  BY <1>1 DEF Selection
<1> HIDE DEF id
<1>3. CASE step.kind = "get_by_id"
  BY <1>1, <1>2, <1>3 DEF SelectionOf, id
<1>4. CASE step.kind = "list"
  BY <1>2, <1>4 DEF SelectionOf, id
<1>5. CASE step.kind = "api"
  BY <1>2, <1>5 DEF SelectionOf, id
<1>6. CASE step.kind = "concept"
  BY <1>2, <1>6 DEF SelectionOf, id
<1>7. CASE step.kind \notin {"get_by_id", "list", "api", "concept"}
  BY <1>2, <1>7 DEF SelectionOf
<1> QED BY <1>3, <1>4, <1>5, <1>6, <1>7

(* The selections of a plan are well-typed.                                *)
LEMMA SelectionsType ==
  ASSUME NEW p \in ExecutionPlan, NEW resolved \in [StepIds -> Entity]
  PROVE  Selections(p, resolved) \in [StepIds -> Selection]
<1>1. NoSelection \in Selection
  BY DEF NoSelection, Selection
<1> QED BY <1>1, StepType, SelectionOfType DEF Selections

(* The facet a call is labelled with is one a step can name.               *)
LEMMA CalledFacetType ==
  ASSUME NEW step \in PlanStep
  PROVE  CalledFacet(step) \in Facets \cup {NoFacet, UnknownFacet}
BY DEF CalledFacet, PlanStep

(* Everything an API call may return for a selected step is an outcome.    *)
LEMMA CallOutcomesType ==
  ASSUME NEW p \in ExecutionPlan, NEW resolved \in [StepIds -> Entity],
         NEW s \in CallSteps(Selections(p, resolved))
  PROVE  /\ p.steps[s] \in PlanStep /\ p.steps[s].kind \in {"get_by_id", "list", "api", "concept"}
         /\ CallOutcomes(p.steps[s], Selections(p, resolved)[s].id) \subseteq CallOutcome
<1> DEFINE step == p.steps[s]
           id == Selections(p, resolved)[s].id
           target == IF step.kind = "get_by_id" THEN {<<step.facet, id>>}
                     ELSE FacetRows(CalledFacet(step))
<1>1. s \in DOMAIN p.steps /\ s \in StepIds
  BY DEF CallSteps, Selections, NoSelection
<1>2. step \in PlanStep
  BY <1>1, StepType
<1>3. SelectionOf(step, resolved).act = "call" /\ id = SelectionOf(step, resolved).id
  BY <1>1 DEF CallSteps, Selections
<1>4. step.kind \in {"get_by_id", "list", "api", "concept"}
  BY <1>3 DEF SelectionOf
<1>5. target \subseteq Row
  BY <1>2, <1>3, SelectionOfType DEF FacetRows, Row
<1>6. CallOutcomes(step, id) \subseteq CallOutcome
  <2> SUFFICES ASSUME NEW o \in CallOutcomes(step, id) PROVE o \in CallOutcome
    OBVIOUS
  <2> HIDE DEF step, id
  <2> QED BY <1>5 DEF CallOutcomes, CallOutcome
<1> QED BY <1>2, <1>4, <1>6

(* The executor's entries are well-typed.                                  *)
LEMMA ExecutionResultsType ==
  ASSUME NEW p \in ExecutionPlan, NEW resolved \in [StepIds -> Entity],
         NEW o \in ExecutionOutcomes(p, Selections(p, resolved)), NEW t \in 0..MaxTurns
  PROVE  ExecutionResults(p, Selections(p, resolved), o, t) \in [StepIds -> Entry]
<1> DEFINE sel == Selections(p, resolved)
<1>1. AbsentEntry \in Entry
  BY BoundsAssumption DEF AbsentEntry, Entry, EntryKind
<1>2. ASSUME NEW s \in StepIds, sel[s].act = "call"
      PROVE  [kind |-> p.steps[s].kind, facet |-> CalledFacet(p.steps[s]), status |-> o[s].status,
              shape |-> o[s].shape, rows |-> o[s].rows, named |-> FALSE, turn |-> t] \in Entry
  <2>1. s \in CallSteps(sel)
    BY <1>2 DEF CallSteps
  <2>2. o[s] \in CallOutcome
    BY <2>1, CallOutcomesType DEF ExecutionOutcomes
  <2>3. /\ p.steps[s].kind \in {"get_by_id", "list", "api", "concept"}
        /\ CalledFacet(p.steps[s]) \in Facets \cup {NoFacet, UnknownFacet}
    BY <2>1, CallOutcomesType, CalledFacetType
  <2> QED BY <2>2, <2>3 DEF CallOutcome, Entry, EntryKind
<1>3. ASSUME NEW s \in StepIds, sel[s].act = "marker"
      PROVE  [AbsentEntry EXCEPT !.kind = "concept_field", !.facet = p.steps[s].facet,
                                 !.turn = t] \in Entry
  <2>1. s \in DOMAIN p.steps
    BY <1>3 DEF Selections, NoSelection
  <2>2. p.steps[s].facet \in Facets \cup {NoFacet, UnknownFacet}
    BY <2>1, StepType DEF PlanStep
  <2> QED BY <2>2 DEF AbsentEntry, Entry, EntryKind
<1> HIDE DEF sel
<1>4. ExecutionResults(p, sel, o, t) \in [StepIds -> Entry]
  BY <1>1, <1>2, <1>3 DEF ExecutionResults
<1> QED BY <1>4 DEF sel

(* Naming foreign keys keeps the entries well-typed.                       *)
LEMMA ResolvedResultsType ==
  ASSUME NEW entries \in [StepIds -> Entry], NEW names
  PROVE  ResolvedResults(entries, names) \in [StepIds -> Entry]
<1>1. ASSUME NEW s \in StepIds PROVE [entries[s] EXCEPT !.named = TRUE] \in Entry
  BY DEF Entry
<1> QED BY <1>1 DEF ResolvedResults

(* A join's entry is well-typed.                                           *)
LEMMA JoinEntryType ==
  ASSUME NEW p \in ExecutionPlan, NEW s \in JoinSteps(p),
         NEW entries \in [StepIds -> Entry], NEW t \in 0..MaxTurns
  PROVE  JoinEntry(p, s, entries, t) \in Entry
<1> DEFINE step == p.steps[s]
           rows == IF JoinMisses(step, entries) THEN {}
                   ELSE Emitted(step, JoinRows(entries, step.left), JoinRows(entries, step.right))
<1>1. step \in PlanStep
  BY StepType DEF JoinSteps, StepsOfKind
<1>2. EmitFacet(p, step) \in Facets \cup {NoFacet, UnknownFacet}
  BY <1>1, StepType DEF EmitFacet, PlanStep
<1>3. ASSUME NEW i \in StepIds PROVE JoinRows(entries, i) \subseteq Row
  BY DEF JoinRows, Entry
<1>4. step.left \in StepIds /\ step.right \in StepIds
  BY <1>1 DEF PlanStep
<1>5. rows \subseteq Row
  <2>1. \A left, right : left \subseteq Row /\ right \subseteq Row
          => Emitted(step, left, right) \subseteq Row
    BY DEF Emitted, Matches
  <2> QED BY <1>3, <1>4, <2>1
<1> HIDE DEF rows
<1> QED BY <1>2, <1>5 DEF JoinEntry, Entry, EntryKind, rows

(* The source of an aggregate is a step, or none (0).                      *)
LEMMA SourceStepType ==
  ASSUME NEW step \in PlanStep, NEW entries \in [StepIds -> Entry]
  PROVE  /\ SourceStep(step, entries) \in StepIds \cup {0}
         /\ SourceStep(step, entries) # 0 => entries[SourceStep(step, entries)].shape = "many"
<1> DEFINE direct == {n \in DOMAIN step.deps : /\ entries[step.deps[n]].status = "success"
                                               /\ entries[step.deps[n]].shape = "many"}
           same == {s \in StepIds : /\ entries[s].kind # "none" /\ step.facet # NoFacet
                                    /\ entries[s].facet = step.facet
                                    /\ entries[s].shape = "many"}
<1>1. step.deps \in Seq(StepIds)
  BY DEF PlanStep
<1>2. CASE direct # {}
  <2>1. direct \in SUBSET Nat
    BY <1>1
  <2>2. First(direct) \in direct
    BY <1>2, <2>1, FirstIsLeast
  <2>3. First(direct) \in DOMAIN step.deps
    BY <2>2
  <2>4. step.deps[First(direct)] \in StepIds
    <3> DEFINE n == First(direct)
    <3>1. n \in DOMAIN step.deps
      BY <2>3
    <3> HIDE DEF n
    <3>2. step.deps[n] \in StepIds
      BY <1>1, <3>1
    <3> QED BY <3>2 DEF n
  <2>5. SourceStep(step, entries) = step.deps[First(direct)]
    BY <1>2 DEF SourceStep
  <2> QED BY <2>2, <2>4, <2>5
<1>3. CASE direct = {} /\ same # {}
  <2>1. FirstEntry(entries, same) \in same
    BY <1>3, FirstEntryIsMember
  <2>2. SourceStep(step, entries) = FirstEntry(entries, same)
    BY <1>3 DEF SourceStep
  <2> QED BY <2>1, <2>2
<1>4. CASE direct = {} /\ same = {}
  BY <1>4 DEF SourceStep
<1> QED BY <1>2, <1>3, <1>4

(* The analytics of a plan are well-typed.                                 *)
LEMMA AnalyticsResultsType ==
  ASSUME NEW p \in ExecutionPlan, NEW entries \in [StepIds -> Entry], NEW t \in 0..MaxTurns
  PROVE  AnalyticsResults(p, entries, t) \in [StepIds -> Analytic]
<1>1. ASSUME NEW s \in AggregateSteps(p) PROVE AnalyticOf(p.steps[s], entries, t) \in Analytic
  <2> DEFINE src == SourceStep(p.steps[s], entries)
  <2>1. p.steps[s] \in PlanStep
    BY StepType DEF AggregateSteps, StepsOfKind
  <2>2. src \in StepIds \cup {0}
    BY <2>1, SourceStepType
  <2>3. src # 0 => entries[src].turn \in 0..MaxTurns /\ entries[src].rows \subseteq Row
    BY <2>2 DEF Entry
  <2>4. src \in 0..MaxSteps
    BY <2>2, BoundsAssumption DEF StepIds
  <2> HIDE DEF src
  <2>5. [present |-> TRUE, source |-> src, turn |-> IF src = 0 THEN t ELSE entries[src].turn,
         rows |-> IF src = 0 THEN {} ELSE entries[src].rows] \in Analytic
    BY <2>3, <2>4 DEF Analytic
  <2> QED BY <2>5 DEF AnalyticOf, src
<1>2. NoAnalytic \in Analytic
  BY BoundsAssumption DEF NoAnalytic, Analytic
<1> QED BY <1>1, <1>2 DEF AnalyticsResults

(* The context is well-typed, whichever branch built it.                   *)
LEMMA ContextType ==
  ASSUME NEW p \in ExecutionPlan, NEW entries \in [StepIds -> Entry],
         NEW analytics \in [StepIds -> Analytic], NEW pending \in BOOLEAN
  PROVE  ContextOf(p, pending, analytics, entries) \in Context
<1>1. NoContext \in Context
  BY BoundsAssumption DEF NoContext, Context, Block, FocusState
<1>2. /\ [NoContext EXCEPT !.kind = "clarification"] \in Context
      /\ [NoContext EXCEPT !.kind = "recall"] \in Context
  BY <1>1 DEF Context
<1>3. [NoContext EXCEPT !.kind = "analytics",
                        !.stamps = {analytics[s].turn : s \in Computed(analytics)}] \in Context
  <2>1. {analytics[s].turn : s \in Computed(analytics)} \subseteq 0..MaxTurns
    BY DEF Computed, Analytic
  <2> QED BY <1>1, <2>1 DEF Context
<1>4. DataContext(p, entries) \in Context
  <2>1. ASSUME NEW s \in StepIds PROVE BlockOf(p, entries, s) \in Block
    BY DEF BlockOf, Block, Entry
  <2>2. ASSUME NEW s \in StepIds PROVE FocusOf(p, entries, s) \in FocusState
    BY DEF FocusOf, FocusState
  <2>3. ASSUME NEW s \in StepIds PROVE FocusFrom(p, entries, s) \in 0..MaxSteps
    <3>1. CASE entries[s].kind = "concept_field" /\ FocusOf(p, entries, s) = "value"
      <4>1. FocusSources(entries, s) # {}
        BY <3>1 DEF FocusOf
      <4>2. FocusSources(entries, s) \in SUBSET StepIds
        BY DEF FocusSources, Succeeded
      <4>3. FirstEntry(entries, FocusSources(entries, s)) \in StepIds
        BY <4>1, <4>2, FirstEntryIsMember
      <4> QED BY <3>1, <4>3, BoundsAssumption DEF FocusFrom, StepIds
    <3>2. CASE ~(entries[s].kind = "concept_field" /\ FocusOf(p, entries, s) = "value")
      BY <3>2, BoundsAssumption DEF FocusFrom
    <3> QED BY <3>1, <3>2
  <2>4. {entries[s].turn : s \in {e \in StepIds : entries[e].kind # "none"}} \subseteq 0..MaxTurns
    BY DEF Entry
  <2> QED BY <2>1, <2>2, <2>3, <2>4 DEF DataContext, Context
<1> QED BY <1>2, <1>3, <1>4 DEF ContextOf

(* What a recall answer quotes are turns.                                  *)
LEMMA RecallQuotesType ==
  ASSUME NEW messages \in Seq(Message), NEW topic
  PROVE  RecallQuotes(messages, topic) \subseteq 0..MaxTurns
<1>1. ASSUME NEW i \in DOMAIN messages PROVE messages[i].turn \in 0..MaxTurns
  <2>1. messages[i] \in Message
    OBVIOUS
  <2> QED BY <2>1 DEF Message
<1>2. ASSUME NEW S \in SUBSET DOMAIN messages, NEW n
      PROVE  TurnsOfLast(messages, S, n) \subseteq 0..MaxTurns
  BY <1>1 DEF TurnsOfLast
<1>3. \A role : PositionsOf(messages, role) \in SUBSET DOMAIN messages
  BY DEF PositionsOf
<1> QED BY <1>2, <1>3 DEF RecallQuotes

(* The verdict, and the answer with what it quotes, are well-typed.        *)
LEMMA AnswerType ==
  ASSUME NEW c \in Channels
  PROVE  /\ VerdictOf(c.context) \in VerdictStatus
         /\ Answer(c) \in Response
         /\ AssistantMessage(Answer(c)) \in Message
<1>1. VerdictOf(c.context) \in VerdictStatus
  BY DEF VerdictOf, VerdictStatus
<1>2. AnswerKindOf(c) \in AnswerKind
  <2>1. c.verdict \in VerdictStatus
    BY DEF Channels
  <2> QED BY <2>1 DEF AnswerKindOf, AnswerKind, VerdictStatus
<1>3. c.user_input.turn \in 0..MaxTurns
  BY DEF Channels, Question
<1>4. RecallQuotes(c.messages, c.plan.topic) \subseteq 0..MaxTurns
  BY RecallQuotesType DEF Channels
<1> QED BY <1>1, <1>2, <1>3, <1>4 DEF Answer, Response, AssistantMessage, Message

-----------------------------------------------------------------------------
(* Type correctness.                                                       *)

(* TypeOK alone is not inductive: the executor indexes the plan by the     *)
(* selected calls and the join loop by the steps left to do, so the        *)
(* selection must be the one made for this plan, and the loop's steps      *)
(* join steps of it.                                                       *)
SelectionMatches == pc = "executor" => ch.selected = Selections(ch.plan, ch.resolved)
LoopMatches      == pc = "join" => loop.todo \subseteq JoinSteps(ch.plan)
TypeInv == TypeOK /\ SelectionMatches /\ LoopMatches

(* The initial state is well-typed.                                        *)
LEMMA TypeInit == Init => TypeInv
<1> SUFFICES ASSUME Init PROVE TypeInv
  OBVIOUS
<1>1. AbsentEntry \in Entry
  BY BoundsAssumption DEF AbsentEntry, Entry, EntryKind
<1>2. NoLoop \in [todo : SUBSET StepIds, out : [StepIds -> Entry], errors : SUBSET StepIds]
  BY <1>1 DEF NoLoop
<1> QED BY <1>2, EmptyChannelsType, BoundsAssumption, ThreadsAssumption, CrashAssumption
        DEF Init, TypeInv, TypeOK, SelectionMatches, LoopMatches, Fate, Nodes

(* Every step keeps the state well-typed.                                  *)
LEMMA TypeStep == TypeInv /\ [Next]_vars => TypeInv'
<1> SUFFICES ASSUME TypeInv, [Next]_vars PROVE TypeInv'
  OBVIOUS
<1> USE DEF TypeInv, TypeOK
<1>p. ch.plan \in ExecutionPlan
  BY PlanType DEF Channels
<1>n. Now \in 0..MaxTurns
  BY DEF Now, Channels, Question
<1>l. Latest(ch) \in [StepIds -> Entry]
  BY DEF Latest, Channels
<1>1. CASE Ask
  <2>1. [turn |-> turn + 1, origin |-> turn + 1] \in Question
    BY <1>1, BoundsAssumption DEF Ask, Question
  <2>2. ch' \in Channels
    BY <1>1, <2>1 DEF Ask, ResumedChannels, Channels
  <2>3. log' \in [Turns -> [thread : Threads, fate : Fate]]
    BY <1>1 DEF Ask, Fate
  <2> QED BY <1>1, <2>2, <2>3, BoundsAssumption
          DEF Ask, Nodes, SelectionMatches, LoopMatches
<1>2. CASE NewThread
  BY <1>2 DEF NewThread, SelectionMatches, LoopMatches
<1>3. CASE ClarificationResolver
  <2>1. NotNeeded \in Clarification
    BY BoundsAssumption DEF NotNeeded, Clarification
  <2>2. [ch.user_input EXCEPT !.origin = ch.clarification.origin] \in Question
    BY DEF Channels, Question, Clarification
  <2>3. Abandoned(ch) \in Channels
    BY <2>1 DEF Abandoned, Channels
  <2>4. Selected(ch) \in Channels
    BY <2>1, <2>2 DEF Selected, Channels
  <2> QED BY <1>3, <2>3, <2>4 DEF ClarificationResolver, Goto, OnlyChannels, Nodes,
                           SelectionMatches, LoopMatches
<1>4. CASE Planner
  <2>1. PICK p \in Plans, found \in SUBSET Retrievable(thread) :
          ch' = [ResetDerived(ch) EXCEPT
                   !.plan = p, !.retrieved = found,
                   !.messages = AddMessage(ch.messages, UserMessage(ch.user_input))]
    BY <1>4 DEF Planner
  <2>2. found \in SUBSET MemoryRow
    BY DEF Retrievable
  <2>3. UserMessage(ch.user_input) \in Message
    BY DEF UserMessage, Message, Channels, Question, AnswerKind
  <2>4. AddMessage(ch.messages, UserMessage(ch.user_input)) \in Seq(Message)
    BY <2>3 DEF AddMessage, Channels
  <2>5. ch' \in Channels
    <3>1. ResetDerived(ch) \in Channels /\ p \in Plans \cup {NoPlan}
      BY ResetType
    <3> QED BY <2>1, <2>2, <2>4, <3>1 DEF Channels
  <2> QED BY <1>4, <2>5 DEF Planner, Goto, OnlyChannels, Nodes, SelectionMatches, LoopMatches
<1>5. CASE EntityResolver
  <2>1. ch' \in Channels
    BY <1>5, ResolutionType DEF EntityResolver
  <2>2. pc' \in {"context_builder", "api_selector"}
    BY <1>5 DEF EntityResolver, Goto, RouteAfterResolve
  <2> QED BY <1>5, <2>1, <2>2 DEF EntityResolver, OnlyChannels, Nodes, SelectionMatches, LoopMatches
<1>6. CASE Raise /\ UNCHANGED loop
  BY <1>6 DEF Raise, Settle, Fate, SelectionMatches, LoopMatches
<1>7. CASE ApiSelector
  <2>1. Selections(ch.plan, ch.resolved) \in [StepIds -> Selection]
    BY <1>p, SelectionsType DEF Channels
  <2>2. ch' \in Channels /\ ch'.selected = Selections(ch'.plan, ch'.resolved)
    BY <1>7, <2>1 DEF ApiSelector, Channels
  <2> QED BY <1>7, <2>2 DEF ApiSelector, Goto, OnlyChannels, Nodes, SelectionMatches, LoopMatches
<1>8. CASE Executor
  <2>1. PICK o \in ExecutionOutcomes(ch.plan, ch.selected) :
          LET res == ExecutionResults(ch.plan, ch.selected, o, Now)
          IN ch' = [ch EXCEPT !.results = res, !.errors = @ \cup Failed(res)]
    BY <1>8 DEF Executor
  <2>2. ExecutionResults(ch.plan, ch.selected, o, Now) \in [StepIds -> Entry]
    BY <1>8, <1>p, <1>n, ExecutionResultsType DEF Executor, SelectionMatches, Channels
  <2>3. ch' \in Channels
    BY <2>1, <2>2 DEF Channels, Failed
  <2> QED BY <1>8, <2>3 DEF Executor, Goto, OnlyChannels, Nodes, SelectionMatches, LoopMatches
<1>9. CASE RelationshipResolver
  <2>1. PICK names : ch' = [ch EXCEPT !.linked = ResolvedResults(ch.results, names)]
    BY <1>9 DEF RelationshipResolver
  <2>2. ResolvedResults(ch.results, names) \in [StepIds -> Entry]
    BY ResolvedResultsType DEF Channels
  <2>3. ch' \in Channels /\ ch'.plan = ch.plan /\ ch'.linked \in [StepIds -> Entry]
    BY <2>1, <2>2 DEF Channels
  <2>4. JoinSteps(ch.plan) \in SUBSET StepIds
    BY DEF JoinSteps, StepsOfKind
  <2> QED BY <1>9, <2>3, <2>4 DEF RelationshipResolver, Goto, Nodes, SelectionMatches, LoopMatches
<1>10. CASE JoinOne
  <2> DEFINE s == First(loop.todo)
  <2>1. s \in loop.todo
    BY <1>10, FirstIsLeast, BoundsAssumption DEF JoinOne, StepIds
  <2>2. JoinEntry(ch.plan, s, loop.out, Now) \in Entry
    BY <1>10, <1>p, <1>n, <2>1, JoinEntryType DEF JoinOne, LoopMatches
  <2> HIDE DEF s
  <2>3. loop' \in [todo : SUBSET StepIds, out : [StepIds -> Entry], errors : SUBSET StepIds]
    BY <1>10, <2>1, <2>2 DEF JoinOne, s
  <2>4. loop'.todo \subseteq loop.todo
    BY <1>10 DEF JoinOne
  <2> QED BY <1>10, <2>3, <2>4 DEF JoinOne, SelectionMatches, LoopMatches
<1>11. CASE JoinDone
  <2>1. ch' \in Channels
    BY <1>11 DEF JoinDone, Channels
  <2>2. NoLoop \in [todo : SUBSET StepIds, out : [StepIds -> Entry], errors : SUBSET StepIds]
    BY BoundsAssumption DEF NoLoop, AbsentEntry, Entry, EntryKind
  <2> QED BY <1>11, <2>1, <2>2 DEF JoinDone, Goto, Nodes, SelectionMatches, LoopMatches
<1>12. CASE Analytics
  <2>1. AnalyticsResults(ch.plan, Latest(ch), Now) \in [StepIds -> Analytic]
    BY <1>p, <1>n, <1>l, AnalyticsResultsType
  <2>2. ch' \in Channels
    BY <1>12, <2>1 DEF Analytics, Channels
  <2> QED BY <1>12, <2>2 DEF Analytics, Goto, OnlyChannels, Nodes, SelectionMatches, LoopMatches
<1>13. CASE ContextBuilder
  <2>1. ContextOf(ch.plan, ch.clarification.needed, ch.analytics, Latest(ch)) \in Context
    BY <1>p, <1>l, ContextType DEF Channels, Clarification
  <2>2. ch' \in Channels
    BY <1>13, <2>1 DEF ContextBuilder, Channels
  <2> QED BY <1>13, <2>2 DEF ContextBuilder, Goto, OnlyChannels, Nodes, SelectionMatches,
                             LoopMatches
<1>14. CASE ResponseValidator
  <2>1. ch' \in Channels
    BY <1>14, AnswerType DEF ResponseValidator, Channels
  <2> QED BY <1>14, <2>1 DEF ResponseValidator, Goto, OnlyChannels, Nodes, SelectionMatches,
                             LoopMatches
<1>15. CASE ResponseGenerator
  <2> DEFINE said == AssistantMessage(Answer(ch))
  <2>m. ch.messages \in Seq(Message) /\ said \in Message
    BY AnswerType DEF Channels
  <2> HIDE DEF said
  <2>1. AddMessage(ch.messages, said) \in Seq(Message)
    BY <2>m DEF AddMessage
  <2>2. ch' \in Channels
    BY <1>15, <2>1, AnswerType DEF ResponseGenerator, Channels, said
  <2> QED BY <1>15, <2>2 DEF ResponseGenerator, Goto, OnlyChannels, Nodes, SelectionMatches,
                             LoopMatches
<1>16. CASE MemoryManager
  <2>1. MemoryOf(ch, thread) \in MemoryRow
    BY DEF MemoryOf, MemoryRow, Channels, Response
  <2> QED BY <1>16, <2>1 DEF MemoryManager, Goto, Nodes, SelectionMatches, LoopMatches
<1>17. CASE EndTurn
  BY <1>17 DEF EndTurn, Settle, Fate, SelectionMatches, LoopMatches
<1>18. CASE Checkpoint
  BY <1>18 DEF Checkpoint, SelectionMatches, LoopMatches
<1>19. CASE Crash
  <2>1. NoLoop \in [todo : SUBSET StepIds, out : [StepIds -> Entry], errors : SUBSET StepIds]
    BY BoundsAssumption DEF NoLoop, AbsentEntry, Entry, EntryKind
  <2>2. log' \in [Turns -> [thread : Threads, fate : Fate]]
    BY <1>19 DEF Crash, Settle, Fate
  <2> QED BY <1>19, <2>1, <2>2, ThreadsAssumption, CrashAssumption
          DEF Crash, SelectionMatches, LoopMatches
<1>20. CASE UNCHANGED vars
  BY <1>20 DEF vars, SelectionMatches, LoopMatches
<1> QED
  BY <1>1, <1>2, <1>3, <1>4, <1>5, <1>6, <1>7, <1>8, <1>9, <1>10, <1>11, <1>12, <1>13, <1>14,
     <1>15, <1>16, <1>17, <1>18, <1>19, <1>20
  DEF Next, Node, EntityResolverRaises, ExecutorRaises, RelationshipResolverRaises,
      ResponseGeneratorRaises

(* Type correctness: in every reachable state the channels and all their   *)
(* durable copies have the shape AgentState declares, and control is at a  *)
(* node of the graph.                                                      *)
THEOREM TypeCorrect == Spec => []TypeOK
<1>1. Spec => []TypeInv
  BY TypeInit, TypeStep, PTL DEF Spec
<1>2. TypeInv => TypeOK
  BY DEF TypeInv
<1> QED BY <1>1, <1>2, PTL

-----------------------------------------------------------------------------
(* The type invariant of both ends of a step.                              *)
LEMMA TypeBoth ==
  TypeInv /\ [Next]_vars => /\ ch \in Channels /\ ch' \in Channels
                           /\ Now \in 0..MaxTurns
BY TypeStep DEF TypeInv, TypeOK, Now, Channels, Question

-----------------------------------------------------------------------------
(* Freshness.  From the planner's reset to the context, every entry of the *)
(* derived channels is absent or was produced in this turn.                *)

Collecting == pc \in {"entity_resolver", "api_selector", "executor", "relationship_resolver",
                      "join", "analytics", "context_builder"}

Stamped(entries, t) == \A s \in StepIds : entries[s] = AbsentEntry \/ entries[s].turn = t
StampedAnalytics(analytics, t) == \A s \in StepIds : analytics[s].present => analytics[s].turn = t

FreshInv ==
  /\ Collecting => /\ Stamped(ch.results, Now) /\ Stamped(ch.linked, Now)
                   /\ StampedAnalytics(ch.analytics, Now)
  /\ pc = "join" => Stamped(loop.out, Now)
  /\ ContextIsCurrent

(* An entry computed over entries of this turn is of this turn.            *)
LEMMA AnalyticsStamped ==
  ASSUME NEW p \in ExecutionPlan, NEW entries \in [StepIds -> Entry], NEW t \in 0..MaxTurns,
         Stamped(entries, t)
  PROVE  StampedAnalytics(AnalyticsResults(p, entries, t), t)
<1> SUFFICES ASSUME NEW s \in AggregateSteps(p)
             PROVE  AnalyticOf(p.steps[s], entries, t).turn = t
  BY DEF StampedAnalytics, AnalyticsResults, NoAnalytic
<1> DEFINE src == SourceStep(p.steps[s], entries)
<1>1. p.steps[s] \in PlanStep
  BY StepType DEF AggregateSteps, StepsOfKind
<1>2. src \in StepIds \cup {0} /\ (src # 0 => entries[src].shape = "many")
  BY <1>1, SourceStepType
<1>3. src # 0 => entries[src].turn = t
  BY <1>2 DEF Stamped, AbsentEntry
<1> HIDE DEF src
<1> QED BY <1>3 DEF AnalyticOf, src

(* A context built from entries of this turn holds nothing older.          *)
LEMMA ContextStamped ==
  ASSUME NEW p, NEW pending, NEW entries \in [StepIds -> Entry], NEW t \in 0..MaxTurns,
         NEW analytics, Stamped(entries, t), StampedAnalytics(analytics, t)
  PROVE  ContextOf(p, pending, analytics, entries).stamps \subseteq {t}
<1>1. NoContext.stamps = {} /\ [NoContext EXCEPT !.kind = "clarification"].stamps = {}
      /\ [NoContext EXCEPT !.kind = "recall"].stamps = {}
  BY DEF NoContext
<1>2. [NoContext EXCEPT !.kind = "analytics",
        !.stamps = {analytics[s].turn : s \in Computed(analytics)}].stamps \subseteq {t}
  BY DEF NoContext, StampedAnalytics, Computed
<1>3. DataContext(p, entries).stamps \subseteq {t}
  BY DEF DataContext, Stamped, AbsentEntry
<1> QED BY <1>1, <1>2, <1>3 DEF ContextOf

(* Initially nothing is derived.                                           *)
LEMMA FreshInit == Init => FreshInv
BY DEF Init, FreshInv, Collecting, ContextIsCurrent

(* Every step keeps the derived channels fresh.                            *)
LEMMA FreshStep == TypeInv /\ FreshInv /\ [Next]_vars => FreshInv'
<1> SUFFICES ASSUME TypeInv, FreshInv, [Next]_vars PROVE FreshInv'
  OBVIOUS
<1>t. ch \in Channels /\ ch' \in Channels /\ Now \in 0..MaxTurns
  BY TypeBoth
<1>1. ASSUME pc' \in {"idle", "clarification_resolver", "planner"} PROVE FreshInv'
  BY <1>1 DEF FreshInv, Collecting, ContextIsCurrent
<1>2. CASE Ask \/ NewThread \/ ClarificationResolver \/ EndTurn \/ Crash \/ Raise
  <2>1. pc' \in {"idle", "clarification_resolver", "planner"}
    BY <1>2 DEF Ask, NewThread, ClarificationResolver, EndTurn, Crash, Raise, Goto
  <2> QED BY <1>1, <2>1
<1>4. CASE Planner
  <2>1. /\ ch'.results = EmptyChannels.results /\ ch'.linked = EmptyChannels.linked
        /\ ch'.analytics = EmptyChannels.analytics
    BY <1>4, <1>t DEF Planner, ResetDerived, Channels
  <2>2. pc' = "entity_resolver"
    BY <1>4 DEF Planner, Goto
  <2>3. /\ \A s \in StepIds : EmptyChannels.results[s] = AbsentEntry
        /\ \A s \in StepIds : EmptyChannels.linked[s] = AbsentEntry
        /\ \A s \in StepIds : EmptyChannels.analytics[s] = NoAnalytic
    BY DEF EmptyChannels
  <2> QED BY <2>1, <2>2, <2>3
          DEF FreshInv, Collecting, ContextIsCurrent, Stamped, StampedAnalytics, NoAnalytic
<1>5. CASE EntityResolver
  <2>1. /\ ch'.results = ch.results /\ ch'.linked = ch.linked
        /\ ch'.analytics = ch.analytics /\ ch'.user_input = ch.user_input
    BY <1>5, <1>t DEF EntityResolver, Resolution, Channels
  <2>2. pc = "entity_resolver" /\ pc' \in {"context_builder", "api_selector"}
    BY <1>5 DEF EntityResolver, Goto, RouteAfterResolve
  <2> QED BY <2>1, <2>2 DEF FreshInv, Collecting, ContextIsCurrent, Now
<1>7. CASE ApiSelector
  <2>1. /\ ch'.results = ch.results /\ ch'.linked = ch.linked
        /\ ch'.analytics = ch.analytics /\ ch'.user_input = ch.user_input
    BY <1>7, <1>t DEF ApiSelector, Channels
  <2> QED BY <1>7, <2>1 DEF ApiSelector, Goto, FreshInv, Collecting, ContextIsCurrent, Now
<1>8. CASE Executor
  <2>1. PICK o : /\ ch'.results = ExecutionResults(ch.plan, ch.selected, o, Now)
                 /\ ch'.linked = ch.linked
                 /\ ch'.analytics = ch.analytics /\ ch'.user_input = ch.user_input
    BY <1>8, <1>t DEF Executor, Channels
  <2>2. Stamped(ExecutionResults(ch.plan, ch.selected, o, Now), Now)
    BY DEF Stamped, ExecutionResults, AbsentEntry
  <2> QED BY <1>8, <2>1, <2>2 DEF Executor, Goto, FreshInv, Collecting, ContextIsCurrent, Now
<1>9. CASE RelationshipResolver
  <2>1. PICK names \in SUBSET {s \in Succeeded(ch.results) : ch.results[s].rows # {}} :
          ch' = [ch EXCEPT !.linked = ResolvedResults(ch.results, names)]
    BY <1>9 DEF RelationshipResolver
  <2>2. /\ ch'.linked = ResolvedResults(ch.results, names)
        /\ ch'.results = ch.results
        /\ ch'.analytics = ch.analytics /\ ch'.user_input = ch.user_input
    BY <2>1, <1>t DEF Channels
  <2>3. Stamped(ch.results, Now) /\ StampedAnalytics(ch.analytics, Now)
    BY <1>9 DEF RelationshipResolver, FreshInv, Collecting
  <2>4. \A s \in names : ch.results[s] # AbsentEntry
    BY DEF Succeeded, AbsentEntry
  <2>5. ASSUME NEW s \in names PROVE [ch.results[s] EXCEPT !.named = TRUE].turn = Now
    <3>1. ch.results[s] \in Entry /\ ch.results[s].turn = Now
      BY <1>t, <2>3, <2>4 DEF Channels, Stamped, Succeeded
    <3> QED BY <3>1 DEF Entry
  <2>6. Stamped(ch'.linked, Now)
    BY <2>2, <2>3, <2>5 DEF Stamped, ResolvedResults
  <2>7. loop'.out = ch'.linked
    BY <1>9 DEF RelationshipResolver
  <2> QED BY <1>9, <2>2, <2>3, <2>6, <2>7
          DEF RelationshipResolver, Goto, FreshInv, Collecting, ContextIsCurrent, Now
<1>10. CASE JoinOne
  <2>1. /\ pc = "join" /\ pc' = pc /\ ch' = ch
        /\ \E s \in loop.todo :
             loop'.out = [loop.out EXCEPT ![s] = JoinEntry(ch.plan, s, loop.out, Now)]
    <3>1. First(loop.todo) \in loop.todo
      BY <1>10, FirstIsLeast, BoundsAssumption DEF JoinOne, StepIds, TypeInv, TypeOK
    <3> QED BY <1>10, <3>1 DEF JoinOne
  <2>2. \A s : JoinEntry(ch.plan, s, loop.out, Now).turn = Now
    BY DEF JoinEntry
  <2>3. Stamped(loop.out, Now) /\ loop.out \in [StepIds -> Entry]
    BY <2>1 DEF FreshInv, TypeInv, TypeOK
  <2>4. Stamped(loop'.out, Now)
    BY <2>1, <2>2, <2>3 DEF Stamped
  <2> QED BY <2>1, <2>4 DEF FreshInv, Collecting, ContextIsCurrent, Now
<1>11. CASE JoinDone
  <2>1. /\ ch'.linked \in {ch.linked, loop.out} /\ ch'.results = ch.results
        /\ ch'.analytics = ch.analytics /\ ch'.user_input = ch.user_input
    BY <1>11, <1>t DEF JoinDone, Channels
  <2> QED BY <1>11, <2>1 DEF JoinDone, Goto, FreshInv, Collecting, ContextIsCurrent, Now
<1>12. CASE Analytics
  <2>1. /\ ch'.analytics \in {ch.analytics, AnalyticsResults(ch.plan, Latest(ch), Now)}
        /\ ch'.linked = ch.linked /\ ch'.results = ch.results
        /\ ch'.user_input = ch.user_input
    BY <1>12, <1>t DEF Analytics, Channels
  <2>2. Stamped(Latest(ch), Now) /\ Latest(ch) \in [StepIds -> Entry]
    BY <1>12, <1>t DEF Analytics, FreshInv, Collecting, Latest, Channels
  <2>3. StampedAnalytics(AnalyticsResults(ch.plan, Latest(ch), Now), Now)
    BY <1>t, <2>2, PlanType, AnalyticsStamped DEF Channels
  <2> QED BY <1>12, <2>1, <2>3 DEF Analytics, Goto, FreshInv, Collecting, ContextIsCurrent, Now
<1>13. CASE ContextBuilder
  <2>1. Stamped(Latest(ch), Now) /\ Latest(ch) \in [StepIds -> Entry]
        /\ StampedAnalytics(ch.analytics, Now)
    BY <1>13, <1>t DEF ContextBuilder, FreshInv, Collecting, Latest, Channels
  <2> DEFINE built == ContextOf(ch.plan, ch.clarification.needed, ch.analytics, Latest(ch))
  <2>3. built.stamps \subseteq {Now}
    BY <1>t, <2>1, ContextStamped
  <2> HIDE DEF built
  <2>4. ch'.context = built /\ ch'.user_input = ch.user_input
    BY <1>13, <1>t DEF ContextBuilder, Channels, built
  <2>2. ch'.context.stamps \subseteq {Now} /\ ch'.user_input = ch.user_input
    BY <2>3, <2>4
  <2> QED BY <1>13, <2>2 DEF ContextBuilder, Goto, FreshInv, Collecting, ContextIsCurrent, Now
<1>14. CASE ResponseValidator \/ ResponseGenerator \/ MemoryManager
  <2>1. ch'.context = ch.context /\ ch'.user_input = ch.user_input
    BY <1>14, <1>t DEF ResponseValidator, ResponseGenerator, MemoryManager, Channels
  <2> QED BY <1>14, <2>1
          DEF ResponseValidator, ResponseGenerator, MemoryManager, Goto,
              FreshInv, Collecting, ContextIsCurrent, Now
<1>15. CASE Checkpoint \/ UNCHANGED vars
  BY <1>15 DEF Checkpoint, vars, FreshInv, Collecting, ContextIsCurrent, Now
<1> QED
  BY <1>2, <1>4, <1>5, <1>7, <1>8, <1>9, <1>10, <1>11, <1>12, <1>13, <1>14, <1>15
  DEF Next, Node, EntityResolverRaises, ExecutorRaises, RelationshipResolverRaises,
      ResponseGeneratorRaises

(* No answer is made from the data of an earlier turn.                     *)
THEOREM ContextAlwaysCurrent == Spec => []ContextIsCurrent
<1>1. Spec => [](TypeInv /\ FreshInv)
  BY TypeInit, TypeStep, FreshInit, FreshStep, PTL DEF Spec
<1>2. FreshInv => ContextIsCurrent
  BY DEF FreshInv
<1> QED BY <1>1, <1>2, PTL

-----------------------------------------------------------------------------
(* Isolation.  Everything a thread remembers stems from a question asked   *)
(* in it; turns not asked yet are not remembered anywhere, so the next     *)
(* question disturbs nothing.                                              *)

Asked(n, t) == n \in 1..turn /\ log[n].thread = t

OwnPast(c, t) ==
  /\ \A i \in DOMAIN c.messages : Asked(c.messages[i].turn, t)
  /\ \A m \in c.retrieved : m.thread = t /\ Asked(m.question.turn, t)
  /\ c.clarification.needed => Asked(c.clarification.origin, t)

IsolationInv ==
  /\ OwnPast(ch, thread)
  /\ \A t \in Threads : OwnPast(ckpt[t], t)
  /\ pc # "idle" => Asked(ch.user_input.turn, thread) /\ Asked(ch.user_input.origin, thread)
  /\ \A m \in memory : Asked(m.question.turn, m.thread)

(* Initially nothing is remembered.                                        *)
LEMMA IsolationInit == Init => IsolationInv
BY DEF Init, IsolationInv, OwnPast, EmptyChannels, NotNeeded

(* A message appended to the history belongs to it when its turn does.     *)
LEMMA AppendOwn ==
  ASSUME NEW messages \in Seq(Message), NEW m \in Message, NEW t,
         \A i \in DOMAIN messages : Asked(messages[i].turn, t), Asked(m.turn, t)
  PROVE  \A i \in DOMAIN AddMessage(messages, m) : Asked(AddMessage(messages, m)[i].turn, t)
<1> SUFFICES ASSUME NEW i \in DOMAIN Append(messages, m)
             PROVE  Asked(Append(messages, m)[i].turn, t)
  BY DEF AddMessage
<1>1. CASE i \in DOMAIN messages
  BY <1>1
<1>2. CASE i = Len(messages) + 1
  BY <1>2
<1> QED BY <1>1, <1>2

(* Every step keeps the threads apart.                                     *)
LEMMA IsolationStep == TypeInv /\ IsolationInv /\ [Next]_vars => IsolationInv'
<1> SUFFICES ASSUME TypeInv, IsolationInv, [Next]_vars PROVE IsolationInv'
  OBVIOUS
<1>t. ch \in Channels /\ ch' \in Channels /\ Now \in 0..MaxTurns
  BY TypeBoth
<1>k. \A t \in Threads : ckpt[t] \in Channels
  BY DEF TypeInv, TypeOK
<1>1. ASSUME turn' = turn, log' = log \/ \E n, f : log' = [log EXCEPT ![n].fate = f]
      PROVE  \A n, t : Asked(n, t) => Asked(n, t)'
  <2>1. log \in [Turns -> [thread : Threads, fate : Fate]]
    BY DEF TypeInv, TypeOK
  <2>2. ASSUME NEW n \in Turns PROVE log'[n].thread = log[n].thread
    BY <1>1, <2>1
  <2>3. 1..turn \subseteq Turns
    BY BoundsAssumption DEF Turns, TypeInv, TypeOK
  <2> QED BY <1>1, <2>2, <2>3 DEF Asked
<1>2. CASE Ask
  <2>1. turn + 1 \in Turns /\ turn \in Nat /\ turn' = turn + 1
    BY <1>2, BoundsAssumption DEF Ask, Turns, TypeInv, TypeOK
  <2>2. log' = [log EXCEPT ![turn + 1] = [thread |-> thread, fate |-> "running"]]
    BY <1>2 DEF Ask
  <2>3. log \in [Turns -> [thread : Threads, fate : Fate]] /\ 1..turn \subseteq Turns
    BY BoundsAssumption DEF Turns, TypeInv, TypeOK
  <2>4. \A n, t : Asked(n, t) => Asked(n, t)'
    BY <2>1, <2>2, <2>3 DEF Asked
  <2>5. \A n : n = turn + 1 => Asked(n, thread)'
    BY <1>2, <2>1, <2>2, <2>3 DEF Asked, Ask
  <2>6. /\ ch'.messages = ckpt[thread].messages /\ ch'.retrieved = ckpt[thread].retrieved
        /\ ch'.clarification = ckpt[thread].clarification
        /\ ch'.user_input = [turn |-> turn + 1, origin |-> turn + 1]
    BY <1>2, <1>k DEF Ask, ResumedChannels, Channels, TypeInv, TypeOK
  <2>7. thread \in Threads /\ thread' = thread /\ ckpt' = ckpt /\ memory' = memory
    BY <1>2 DEF Ask, TypeInv, TypeOK
  <2>8. \A c, t : OwnPast(c, t) => OwnPast(c, t)'
    BY <2>4 DEF OwnPast
  <2>9. OwnPast(ch, thread)'
    <3>1. OwnPast(ckpt[thread], thread)'
      BY <2>7, <2>8 DEF IsolationInv
    <3> QED BY <2>6, <2>7, <3>1 DEF OwnPast
  <2>10. \A t \in Threads : OwnPast(ckpt[t], t)'
    BY <2>7, <2>8 DEF IsolationInv
  <2>11. \A m \in memory : Asked(m.question.turn, m.thread)'
    BY <2>4, <2>7 DEF IsolationInv
  <2> QED BY <2>5, <2>6, <2>7, <2>9, <2>10, <2>11 DEF IsolationInv
<1>3. ASSUME turn' = turn, log' = log \/ \E n, f : log' = [log EXCEPT ![n].fate = f]
      PROVE  \A c, t : OwnPast(c, t) => OwnPast(c, t)'
  BY <1>1, <1>3 DEF OwnPast
<1>4. CASE NewThread \/ Crash
  <2>1. /\ turn' = turn /\ (log' = log \/ \E n, f : log' = [log EXCEPT ![n].fate = f])
        /\ ckpt' = ckpt /\ memory' = memory
        /\ thread' \in Threads /\ ch' = ckpt[thread'] /\ pc' = "idle"
    BY <1>4, ThreadsAssumption DEF NewThread, Crash, Settle, IsolationInv, TypeInv, TypeOK
  <2> QED BY <1>1, <1>3, <2>1 DEF IsolationInv
<1>5. CASE Raise \/ EndTurn \/ Checkpoint
  <2>1. /\ turn' = turn /\ (log' = log \/ \E n, f : log' = [log EXCEPT ![n].fate = f])
        /\ ckpt' = [ckpt EXCEPT ![thread] = ch] /\ memory' = memory
        /\ thread' = thread /\ ch' = ch /\ pc' \in {"idle", pc}
    BY <1>5 DEF Raise, EndTurn, Checkpoint, Settle
  <2>2. \A t \in Threads : ckpt'[t] = IF t = thread THEN ch ELSE ckpt[t]
    BY <2>1 DEF TypeInv, TypeOK
  <2> QED BY <1>1, <1>3, <2>1, <2>2 DEF IsolationInv
<1>6. CASE UNCHANGED vars
  BY <1>6 DEF vars, IsolationInv, OwnPast, Asked
<1> DEFINE Quiet == /\ turn' = turn /\ log' = log /\ ckpt' = ckpt /\ thread' = thread
                    /\ pc # "idle"
<1>7. ASSUME Quiet, memory' = memory, ch'.messages = ch.messages, ch'.retrieved = ch.retrieved,
             ch'.clarification = ch.clarification, ch'.user_input = ch.user_input
      PROVE  IsolationInv'
  BY <1>1, <1>3, <1>7 DEF IsolationInv, OwnPast
<1>8. CASE ClarificationResolver
  <2>1. Quiet /\ memory' = memory
    BY <1>8 DEF ClarificationResolver, OnlyChannels
  <2>2. CASE ch' = ch
    BY <1>7, <2>1, <2>2
  <2>3. CASE ch.clarification.needed /\ ch' \in {Selected(ch), Abandoned(ch)}
    <3>a. Abandoned(ch) = [ch EXCEPT !.clarification = NotNeeded]
      BY DEF Abandoned
    <3>b. CASE ch' = Abandoned(ch)
      <4>1. /\ ch'.messages = ch.messages /\ ch'.retrieved = ch.retrieved
            /\ ch'.clarification = NotNeeded /\ ch'.user_input = ch.user_input
        BY <1>t, <3>a, <3>b DEF Channels
      <4> QED BY <1>1, <1>3, <2>1, <2>3, <4>1 DEF IsolationInv, OwnPast, NotNeeded
    <3>c. CASE ch' = Selected(ch)
      <4>1. ch.user_input \in Question
        BY <1>t DEF Channels
      <4>2. /\ ch'.messages = ch.messages /\ ch'.retrieved = ch.retrieved
            /\ ch'.clarification = NotNeeded
            /\ ch'.user_input = [ch.user_input EXCEPT !.origin = ch.clarification.origin]
        BY <1>t, <3>c DEF Selected, Channels
      <4>3. ch'.user_input.turn = ch.user_input.turn
        BY <4>1, <4>2 DEF Question
      <4> QED BY <1>1, <1>3, <2>1, <2>3, <4>2, <4>3 DEF IsolationInv, OwnPast, NotNeeded
    <3> QED BY <2>3, <3>b, <3>c
  <2> QED BY <1>8, <2>2, <2>3 DEF ClarificationResolver
<1>9. CASE Planner
  <2>1. Quiet /\ memory' = memory
    BY <1>9 DEF Planner, OnlyChannels
  <2>2. /\ ch'.messages = AddMessage(ch.messages, UserMessage(ch.user_input))
        /\ ch'.retrieved \subseteq Retrievable(thread)
        /\ ch'.clarification = ch.clarification /\ ch'.user_input = ch.user_input
    <3>1. PICK p \in Plans, found \in SUBSET Retrievable(thread) :
            ch' = [ResetDerived(ch) EXCEPT
                     !.plan = p, !.retrieved = found,
                     !.messages = AddMessage(ch.messages, UserMessage(ch.user_input))]
      BY <1>9 DEF Planner
    <3>2. /\ ResetDerived(ch) \in Channels
          /\ ResetDerived(ch).clarification = ch.clarification
          /\ ResetDerived(ch).user_input = ch.user_input
      BY <1>t, ResetType DEF ResetDerived, Channels
    <3>3. /\ ch'.messages = AddMessage(ch.messages, UserMessage(ch.user_input))
          /\ ch'.retrieved = found
          /\ ch'.clarification = ResetDerived(ch).clarification
          /\ ch'.user_input = ResetDerived(ch).user_input
      BY <3>1, <3>2 DEF Channels
    <3> QED BY <3>2, <3>3
  <2>3. UserMessage(ch.user_input) \in Message /\ Asked(UserMessage(ch.user_input).turn, thread)
    BY <1>9, <1>t DEF Planner, UserMessage, Message, Channels, Question, AnswerKind, IsolationInv
  <2>4. \A i \in DOMAIN ch'.messages : Asked(ch'.messages[i].turn, thread)
    BY <1>t, <2>2, <2>3, AppendOwn DEF IsolationInv, OwnPast, Channels
  <2>5. \A m \in ch'.retrieved : m.thread = thread /\ Asked(m.question.turn, thread)
    BY <2>2 DEF Retrievable, IsolationInv
  <2> QED BY <1>1, <1>3, <2>1, <2>2, <2>4, <2>5 DEF IsolationInv, OwnPast
<1>10. CASE EntityResolver
  <2>1. Quiet /\ memory' = memory
    BY <1>10 DEF EntityResolver, OnlyChannels
  <2>2. /\ ch'.messages = ch.messages /\ ch'.retrieved = ch.retrieved
        /\ ch'.user_input = ch.user_input
        /\ \/ ch'.clarification = ch.clarification
           \/ ch'.clarification = [needed |-> TRUE, origin |-> ch.user_input.origin]
    BY <1>10, <1>t DEF EntityResolver, Resolution, Channels
  <2> QED BY <1>1, <1>3, <2>1, <2>2 DEF IsolationInv, OwnPast
<1>11. CASE ApiSelector \/ Executor \/ RelationshipResolver \/ JoinOne \/ JoinDone
            \/ Analytics \/ ContextBuilder \/ ResponseValidator
  <2>1. Quiet /\ memory' = memory
    BY <1>11 DEF ApiSelector, Executor, RelationshipResolver, JoinOne, JoinDone, Analytics,
                 ContextBuilder, ResponseValidator, OnlyChannels
  <2>2. /\ ch'.messages = ch.messages /\ ch'.retrieved = ch.retrieved
        /\ ch'.clarification = ch.clarification /\ ch'.user_input = ch.user_input
    BY <1>11, <1>t DEF ApiSelector, Executor, RelationshipResolver, JoinOne, JoinDone,
                       Analytics, ContextBuilder, ResponseValidator, Channels
  <2> QED BY <1>7, <2>1, <2>2
<1>12. CASE ResponseGenerator
  <2>1. Quiet /\ memory' = memory
    BY <1>12 DEF ResponseGenerator, OnlyChannels
  <2> DEFINE said == AssistantMessage(Answer(ch))
  <2>2. said \in Message /\ said.turn = ch.user_input.turn
    BY <1>t, AnswerType DEF AssistantMessage, Answer
  <2> HIDE DEF said
  <2>3. /\ ch'.messages = AddMessage(ch.messages, said) /\ ch'.retrieved = ch.retrieved
        /\ ch'.clarification = ch.clarification /\ ch'.user_input = ch.user_input
    BY <1>12, <1>t DEF ResponseGenerator, Channels, said
  <2>4. \A i \in DOMAIN ch'.messages : Asked(ch'.messages[i].turn, thread)
    BY <1>t, <2>1, <2>2, <2>3, AppendOwn DEF IsolationInv, OwnPast, Channels
  <2> QED BY <1>1, <1>3, <2>1, <2>3, <2>4 DEF IsolationInv, OwnPast
<1>13. CASE MemoryManager
  <2>1. Quiet /\ ch' = ch /\ memory' \subseteq memory \cup {MemoryOf(ch, thread)}
    BY <1>13 DEF MemoryManager
  <2>2. MemoryOf(ch, thread).thread = thread
        /\ MemoryOf(ch, thread).question.turn = ch.user_input.turn
    BY DEF MemoryOf
  <2> QED BY <1>1, <1>3, <2>1, <2>2 DEF IsolationInv
<1> QED
  BY <1>2, <1>4, <1>5, <1>6, <1>8, <1>9, <1>10, <1>11, <1>12, <1>13
  DEF Next, Node, EntityResolverRaises, ExecutorRaises, RelationshipResolverRaises,
      ResponseGeneratorRaises

(* What a turn sees of the past, and every durable copy of it, belongs to  *)
(* its own thread, for any number of threads, questions and crashes.       *)
THEOREM ThreadsStayApart == Spec => []ThreadIsolation
<1>1. Spec => [](TypeInv /\ IsolationInv)
  BY TypeInit, TypeStep, IsolationInit, IsolationStep, PTL DEF Spec
<1>2. IsolationInv => ThreadIsolation
  BY DEF IsolationInv, ThreadIsolation, OwnPast, OwnHistory, Asked
<1> QED BY <1>1, <1>2, PTL

-----------------------------------------------------------------------------
(* What a turn answers.                                                   *)

(* The inductive invariant of one turn.                                    *)

Calling      == {"api_selector", "executor", "relationship_resolver", "join", "analytics"}
Concluding   == {"response_validator", "response_generator", "memory_manager", "END"}

Nothing(entries)    == \A s \in StepIds : entries[s] = AbsentEntry
NotComputed(c)      == \A s \in StepIds : ~c.analytics[s].present
IsAmbiguousIn(c)    == \E s \in StepIds : c.resolved[s].state = "ambiguous"

(* No clarification is pending while a turn calls the ERP: the resolver    *)
(* before the planner consumed an earlier one, and a new one is raised     *)
(* only by the search that sends the turn to the context builder, with     *)
(* nothing called.                                                         *)
PendingInv ==
  /\ pc \in {"planner", "entity_resolver"} \cup Calling => ~ch.clarification.needed
  /\ pc \in Calling => ~IsAmbiguousIn(ch)
  /\ pc \in {"context_builder"} \cup Concluding =>
       /\ IsAmbiguousIn(ch) => ch.clarification.needed
       /\ ch.clarification.needed =>
            /\ ch.clarification = [needed |-> TRUE, origin |-> ch.user_input.origin]
            /\ Nothing(ch.results)
            /\ ch.plan.intent # "chat"

(* A successful entry belongs to a step of the plan and has something in   *)
(* it: rows, or the text of a body that is not JSON.                       *)
Sound(plan, entries) ==
  \A s \in StepIds : entries[s] # AbsentEntry =>
    /\ s \in DOMAIN plan.steps
    /\ entries[s].kind # "none"
    /\ entries[s].status = "success" => entries[s].rows # {} \/ entries[s].shape = "text"

EntriesInv ==
  /\ pc \in {"entity_resolver", "api_selector", "executor"} => Nothing(ch.results)
  /\ pc \in {"entity_resolver", "api_selector", "executor", "relationship_resolver"}
       => Nothing(ch.linked)
  /\ pc \in {"entity_resolver"} \cup Calling => NotComputed(ch)
  /\ pc = "join" => Sound(ch.plan, loop.out)
  /\ Collecting \/ pc \in Concluding => Sound(ch.plan, ch.results) /\ Sound(ch.plan, ch.linked)

(* What the last three nodes made of the channels before them.             *)
AnswerInv ==
  /\ pc \in Concluding =>
       ch.context = ContextOf(ch.plan, ch.clarification.needed, ch.analytics, Latest(ch))
  /\ pc \in Concluding \ {"response_validator"} => ch.verdict = VerdictOf(ch.context)
  /\ Delivered => ch.response.kind = AnswerKindOf(ch) /\ ch.response.turn = Now

TurnInv == PendingInv /\ EntriesInv /\ AnswerInv

(* Initially no turn runs.                                                 *)
LEMMA TurnInit == Init => TurnInv
BY DEF Init, TurnInv, PendingInv, EntriesInv, AnswerInv, Calling, Concluding, Collecting, Delivered

(* A plan with a search is not a chat plan.                                *)
LEMMA SearchingPlan ==
  ASSUME NEW p \in Plans \cup {NoPlan}, SearchSteps(p) # {}
  PROVE  p.intent # "chat"
<1>1. p.steps # <<>>
  BY DEF SearchSteps, StepsOfKind
<1> QED BY <1>1, PlansAssumption DEF NoPlan

(* A step that ends the turn, or leaves it before the planner.             *)
LEMMA OutsideTurn ==
  ASSUME pc' \in {"idle", "clarification_resolver"}
  PROVE  TurnInv'
BY DEF TurnInv, PendingInv, EntriesInv, AnswerInv, Calling, Concluding, Collecting, Delivered

(* The clarification resolver leaves no clarification pending, and changes *)
(* nothing else but what the question stands for.                          *)
LEMMA ClarificationConsumed ==
  ASSUME ch \in Channels, ClarificationResolver
  PROVE  /\ ~ch'.clarification.needed
         /\ ch'.user_input.turn = ch.user_input.turn
         /\ ch'.messages = ch.messages /\ ch'.plan = ch.plan /\ ch'.resolved = ch.resolved
         /\ ch'.results = ch.results /\ ch'.linked = ch.linked /\ ch'.analytics = ch.analytics
<1>1. CASE ch' = ch /\ ~ch.clarification.needed
  BY <1>1
<1>2. CASE ch' = Abandoned(ch)
  BY <1>2 DEF Abandoned, NotNeeded, Channels
<1>3. CASE ch' = Selected(ch)
  <2> DEFINE c == [ch EXCEPT !.user_input.origin = ch.clarification.origin]
  <2>1. /\ c.user_input.turn = ch.user_input.turn
        /\ c.messages = ch.messages /\ c.plan = ch.plan /\ c.resolved = ch.resolved
        /\ c.results = ch.results /\ c.linked = ch.linked /\ c.analytics = ch.analytics
        /\ DOMAIN c = DOMAIN ch
    BY DEF Channels, Question
  <2>2. ch' = [c EXCEPT !.clarification = NotNeeded]
    BY <1>3 DEF Selected
  <2> HIDE DEF c
  <2>3. DOMAIN c = DOMAIN EmptyChannels
    BY <2>1 DEF Channels, EmptyChannels
  <2> QED BY <2>1, <2>2, <2>3 DEF EmptyChannels, NotNeeded
<1> QED BY <1>1, <1>2, <1>3 DEF ClarificationResolver

(* Every step of a turn keeps what is known of its pending clarification.  *)
LEMMA PendingStep ==
  ASSUME TypeInv, TurnInv, Node, pc' # "idle"
  PROVE  PendingInv'
<1>t. ch \in Channels /\ ch' \in Channels
  BY TypeBoth DEF Next
<1> USE DEF TurnInv, PendingInv, Calling, Concluding
<1>1. CASE ClarificationResolver
  <2>1. ~ch'.clarification.needed
    BY <1>t, <1>1, ClarificationConsumed
  <2> QED BY <1>1, <2>1 DEF ClarificationResolver, Goto
<1>2. CASE Planner
  <2>1. ch'.clarification = ch.clarification
    BY <1>t, <1>2 DEF Planner, ResetDerived, Channels
  <2> QED BY <1>2, <2>1 DEF Planner, Goto
<1>3. CASE EntityResolver
  <2>1. PICK o : /\ ch' = Resolution(ch, o)
                 /\ pc' = RouteAfterResolve(ch'.clarification.needed)
    BY <1>3 DEF EntityResolver, Goto
  <2>2. /\ ch'.resolved = ResolvedEntities(ch.plan, o)
        /\ ch'.plan = ch.plan /\ ch'.results = ch.results /\ ch'.user_input = ch.user_input
        /\ ch'.clarification = IF IsAmbiguous(ch.plan, o)
                               THEN [needed |-> TRUE, origin |-> ch.user_input.origin]
                               ELSE ch.clarification
    BY <1>t, <2>1 DEF Resolution, Channels
  <2>3. ~ch.clarification.needed /\ Nothing(ch.results)
    BY <1>3 DEF EntityResolver, EntriesInv
  <2>4. ch'.clarification.needed <=> IsAmbiguous(ch.plan, o)
    BY <2>2, <2>3
  <2>5. IsAmbiguousIn(ch') => IsAmbiguous(ch.plan, o)
    BY <2>2 DEF IsAmbiguousIn, ResolvedEntities, IsAmbiguous, AbsentEntity
  <2>6. IsAmbiguous(ch.plan, o) => ch'.plan.intent # "chat"
    <3>1. IsAmbiguous(ch.plan, o) => SearchSteps(ch.plan) # {}
      BY DEF IsAmbiguous, SearchesRun
    <3> QED BY <1>t, <2>2, <3>1, SearchingPlan DEF Channels
  <2>7. pc' = IF ch'.clarification.needed THEN "context_builder" ELSE "api_selector"
    BY <2>1 DEF RouteAfterResolve
  <2>8. Nothing(ch'.results)
    BY <2>2, <2>3 DEF Nothing
  <2> QED BY <2>2, <2>4, <2>5, <2>6, <2>7, <2>8
<1>4. CASE ApiSelector \/ Executor \/ RelationshipResolver \/ JoinOne \/ JoinDone \/ Analytics
  <2>1. pc \in Calling /\ pc' \in Calling \cup {"context_builder"}
    BY <1>4 DEF ApiSelector, Executor, RelationshipResolver, JoinOne, JoinDone, Analytics, Goto
  <2>2. ch'.clarification = ch.clarification /\ ch'.resolved = ch.resolved
    BY <1>t, <1>4 DEF ApiSelector, Executor, RelationshipResolver, JoinOne, JoinDone, Analytics,
                      Channels
  <2> QED BY <2>1, <2>2 DEF IsAmbiguousIn
<1>5. CASE ContextBuilder \/ ResponseValidator \/ ResponseGenerator \/ MemoryManager
  <2>1. pc \in {"context_builder"} \cup Concluding /\ pc' \in Concluding
    BY <1>5 DEF ContextBuilder, ResponseValidator, ResponseGenerator, MemoryManager, Goto
  <2>2. /\ ch'.clarification = ch.clarification /\ ch'.resolved = ch.resolved
        /\ ch'.results = ch.results /\ ch'.plan = ch.plan /\ ch'.user_input = ch.user_input
    BY <1>t, <1>5 DEF ContextBuilder, ResponseValidator, ResponseGenerator, MemoryManager, Channels
  <2> QED BY <2>1, <2>2 DEF IsAmbiguousIn, Nothing
<1>6. CASE \/ EntityResolverRaises \/ ExecutorRaises \/ RelationshipResolverRaises
          \/ ResponseGeneratorRaises \/ EndTurn
  BY <1>6 DEF EntityResolverRaises, ExecutorRaises, RelationshipResolverRaises,
              ResponseGeneratorRaises, Raise, EndTurn
<1> QED BY <1>1, <1>2, <1>3, <1>4, <1>5, <1>6 DEF Node

(* An entry the executor makes is for a step of the plan, and holds rows   *)
(* or text when the call succeeded.                                        *)
LEMMA ExecutionSound ==
  ASSUME NEW p \in ExecutionPlan, NEW resolved \in [StepIds -> Entity],
         NEW o \in ExecutionOutcomes(p, Selections(p, resolved)), NEW t
  PROVE  Sound(p, ExecutionResults(p, Selections(p, resolved), o, t))
<1> DEFINE sel == Selections(p, resolved)
           res == ExecutionResults(p, sel, o, t)
<1> SUFFICES ASSUME NEW s \in StepIds, res[s] # AbsentEntry
             PROVE  /\ s \in DOMAIN p.steps
                    /\ res[s].kind # "none"
                    /\ res[s].status = "success" => res[s].rows # {} \/ res[s].shape = "text"
  BY DEF Sound
<1>1. s \in DOMAIN p.steps
  BY DEF Selections, NoSelection, ExecutionResults
<1>2. CASE sel[s].act = "call"
  <2>1. s \in CallSteps(sel)
    BY <1>2 DEF CallSteps
  <2>2. p.steps[s].kind \in {"get_by_id", "list", "api", "concept"}
    BY <2>1, CallOutcomesType
  <2>3. o[s] \in CallOutcomes(p.steps[s], sel[s].id)
    BY <2>1 DEF ExecutionOutcomes
  <2>4. o[s].status = "success" => o[s].rows # {} \/ o[s].shape = "text"
    <3> DEFINE step == p.steps[s]
               id == sel[s].id
    <3> HIDE DEF step, id
    <3>1. \A a \in CallOutcomes(step, id) :
            a.status = "success" => a.rows # {} \/ a.shape = "text"
      <4> DEFINE target == IF step.kind = "get_by_id" THEN {<<step.facet, id>>}
                           ELSE FacetRows(CalledFacet(step))
                 one    == {{r} : r \in target}
                 many   == (SUBSET target) \ {{}}
                 served == (IF step.kind = "get_by_id" THEN {} ELSE {"many"} \X many)
                             \cup (IF step.kind \in {"get_by_id",
                             "api"} THEN {"one"} \X one ELSE {})
                             \cup {<<"text", {}>>}
      <4> HIDE DEF target
      <4>1. ASSUME NEW d \in served PROVE d[2] # {} \/ d[1] = "text"
        <5>1. d \in {"many"} \X many \/ d \in {"one"} \X one \/ d = <<"text", {}>>
          OBVIOUS
        <5>2. CASE d \in {"many"} \X many
          BY <5>2
        <5>3. CASE d \in {"one"} \X one
          BY <5>3
        <5> QED BY <5>1, <5>2, <5>3
      <4>2. \A a \in CallOutcomes(step, id) : a.status = "success" =>
              \E d \in served : a.shape = d[1] /\ a.rows = d[2]
        BY DEF CallOutcomes, target
      <4> QED BY <4>1, <4>2
    <3> QED BY <2>3, <3>1 DEF step, id
  <2>5. /\ res[s].kind = p.steps[s].kind /\ res[s].status = o[s].status
        /\ res[s].rows = o[s].rows /\ res[s].shape = o[s].shape
    BY <1>2 DEF ExecutionResults
  <2> QED BY <1>1, <2>2, <2>4, <2>5
<1>3. CASE sel[s].act = "marker"
  <2>1. res[s] = [AbsentEntry EXCEPT !.kind = "concept_field", !.facet = p.steps[s].facet,
                                     !.turn = t]
    BY <1>3 DEF ExecutionResults
  <2>2. res[s].kind = "concept_field" /\ res[s].status = "none"
    BY <2>1 DEF AbsentEntry
  <2> QED BY <1>1, <2>2
<1>4. CASE sel[s].act \notin {"call", "marker"}
  BY <1>4 DEF ExecutionResults
<1> QED BY <1>2, <1>3, <1>4

(* Naming foreign keys changes no entry in what makes it sound.            *)
LEMMA NamingSound ==
  ASSUME NEW plan, NEW entries \in [StepIds -> Entry], NEW names \in SUBSET Succeeded(entries),
         Sound(plan, entries)
  PROVE  Sound(plan, ResolvedResults(entries, names))
<1> SUFFICES ASSUME NEW s \in names
             PROVE  LET e == [entries[s] EXCEPT !.named = TRUE]
                    IN /\ s \in DOMAIN plan.steps
                       /\ e.kind # "none"
                       /\ e.status = "success" => e.rows # {} \/ e.shape = "text"
  BY DEF Sound, ResolvedResults, Succeeded
<1>1. entries[s] \in Entry /\ entries[s] # AbsentEntry
  BY DEF Succeeded, AbsentEntry
<1> QED BY <1>1 DEF Sound, Entry, Succeeded

(* A join's entry is successful only with rows.                            *)
LEMMA JoinSound ==
  ASSUME NEW p, NEW s \in JoinSteps(p), NEW entries \in [StepIds -> Entry], NEW t,
         Sound(p, entries)
  PROVE  Sound(p, [entries EXCEPT ![s] = JoinEntry(p, s, entries, t)])
<1>1. s \in StepIds /\ s \in DOMAIN p.steps
  BY DEF JoinSteps, StepsOfKind
<1>2. /\ JoinEntry(p, s, entries, t).kind = "join"
      /\ JoinEntry(p, s, entries, t).status = "success" => JoinEntry(p, s, entries, t).rows # {}
  BY DEF JoinEntry
<1> QED BY <1>1, <1>2 DEF Sound

(* Every step of a turn keeps its entries sound.                           *)
LEMMA EntriesStep ==
  ASSUME TypeInv, TurnInv, Node, pc' # "idle"
  PROVE  EntriesInv'
<1>t. ch \in Channels /\ ch' \in Channels /\ ch.plan \in ExecutionPlan
  BY TypeBoth, PlanType DEF Next, Channels
<1> USE DEF TurnInv, EntriesInv, Calling, Concluding, Collecting
<1>1. CASE ClarificationResolver
  BY <1>1 DEF ClarificationResolver, Goto
<1>2. CASE Planner
  <2>1. /\ ch'.results = EmptyChannels.results /\ ch'.linked = EmptyChannels.linked
        /\ ch'.analytics = EmptyChannels.analytics
    BY <1>2, <1>t DEF Planner, ResetDerived, Channels
  <2>2. Nothing(ch'.results) /\ Nothing(ch'.linked) /\ NotComputed(ch')
    BY <2>1 DEF EmptyChannels, Nothing, NotComputed, NoAnalytic
  <2> QED BY <1>2, <2>2 DEF Planner, Goto, Nothing, Sound
<1>3. CASE EntityResolver \/ ApiSelector
  <2>1. /\ ch'.results = ch.results /\ ch'.linked = ch.linked
        /\ ch'.analytics = ch.analytics /\ ch'.plan = ch.plan
    BY <1>3, <1>t DEF EntityResolver, ApiSelector, Resolution, Channels
  <2>2. pc \in {"entity_resolver", "api_selector"}
        /\ pc' \in {"context_builder", "api_selector", "executor"}
    BY <1>3 DEF EntityResolver, ApiSelector, Goto, RouteAfterResolve
  <2> QED BY <2>1, <2>2 DEF Nothing, NotComputed, Sound
<1>4. CASE Executor
  <2>1. PICK o \in ExecutionOutcomes(ch.plan, ch.selected) :
          LET res == ExecutionResults(ch.plan, ch.selected, o, Now)
          IN ch' = [ch EXCEPT !.results = res, !.errors = @ \cup Failed(res)]
    BY <1>4 DEF Executor
  <2>2. /\ ch'.results = ExecutionResults(ch.plan, ch.selected, o, Now)
        /\ ch'.linked = ch.linked /\ ch'.analytics = ch.analytics /\ ch'.plan = ch.plan
    BY <2>1, <1>t DEF Channels
  <2>3. ch.selected = Selections(ch.plan, ch.resolved) /\ ch.resolved \in [StepIds -> Entity]
    BY <1>4, <1>t DEF Executor, TypeInv, SelectionMatches, Channels
  <2>4. Sound(ch'.plan, ch'.results)
    BY <1>t, <2>2, <2>3, ExecutionSound
  <2> QED BY <1>4, <2>2, <2>4 DEF Executor, Goto, Nothing, NotComputed, Sound
<1>5. CASE RelationshipResolver
  <2>1. PICK names \in SUBSET {s \in Succeeded(ch.results) : ch.results[s].rows # {}} :
          ch' = [ch EXCEPT !.linked = ResolvedResults(ch.results, names)]
    BY <1>5 DEF RelationshipResolver
  <2>2. /\ ch'.linked = ResolvedResults(ch.results, names)
        /\ ch'.results = ch.results /\ ch'.analytics = ch.analytics /\ ch'.plan = ch.plan
    BY <2>1, <1>t DEF Channels
  <2>3. Sound(ch.plan, ch.results) /\ ch.results \in [StepIds -> Entry]
    BY <1>5, <1>t DEF RelationshipResolver, Channels
  <2>4. Sound(ch'.plan, ch'.linked)
    BY <2>2, <2>3, NamingSound
  <2>5. loop'.out = ch'.linked
    BY <1>5 DEF RelationshipResolver
  <2> QED BY <1>5, <2>2, <2>3, <2>4, <2>5 DEF RelationshipResolver, Goto, NotComputed
<1>6. CASE JoinOne
  <2> DEFINE s == First(loop.todo)
  <2>1. s \in JoinSteps(ch.plan) /\ loop.out \in [StepIds -> Entry]
    <3>1. /\ pc = "join" /\ loop.todo # {} /\ loop.todo \subseteq JoinSteps(ch.plan)
          /\ loop.todo \in SUBSET Nat /\ loop.out \in [StepIds -> Entry]
      BY <1>6, BoundsAssumption DEF JoinOne, StepIds, TypeInv, TypeOK, LoopMatches
    <3> QED BY <3>1, FirstIsLeast
  <2>2. loop'.out = [loop.out EXCEPT ![s] = JoinEntry(ch.plan, s, loop.out, Now)]
    BY <1>6 DEF JoinOne
  <2>3. Sound(ch.plan, loop.out)
    BY <1>6 DEF JoinOne
  <2>4. Sound(ch.plan, loop'.out)
    BY <2>1, <2>2, <2>3, JoinSound
  <2>5. pc = "join" /\ pc' = "join" /\ ch' = ch
    BY <1>6 DEF JoinOne
  <2> QED BY <2>4, <2>5
<1>7. CASE JoinDone
  <2>1. /\ ch'.linked \in {ch.linked, loop.out} /\ ch'.results = ch.results
        /\ ch'.analytics = ch.analytics /\ ch'.plan = ch.plan
    BY <1>7, <1>t DEF JoinDone, Channels
  <2> QED BY <1>7, <2>1 DEF JoinDone, Goto, NotComputed
<1>8. CASE Analytics \/ ContextBuilder \/ ResponseValidator \/ ResponseGenerator \/ MemoryManager
  <2>1. ch'.linked = ch.linked /\ ch'.results = ch.results /\ ch'.plan = ch.plan
    BY <1>8, <1>t DEF Analytics, ContextBuilder, ResponseValidator, ResponseGenerator,
                      MemoryManager, Channels
  <2>2. /\ pc \in {"analytics", "context_builder"} \cup Concluding
        /\ pc' \in {"context_builder"} \cup Concluding
    BY <1>8 DEF Analytics, ContextBuilder, ResponseValidator, ResponseGenerator, MemoryManager, Goto
  <2> QED BY <2>1, <2>2
<1>9. CASE \/ EntityResolverRaises \/ ExecutorRaises \/ RelationshipResolverRaises
          \/ ResponseGeneratorRaises \/ EndTurn
  BY <1>9 DEF EntityResolverRaises, ExecutorRaises, RelationshipResolverRaises,
              ResponseGeneratorRaises, Raise, EndTurn
<1> QED BY <1>1, <1>2, <1>3, <1>4, <1>5, <1>6, <1>7, <1>8, <1>9 DEF Node

(* Every step of a turn keeps its answer what the nodes made of it.        *)
LEMMA AnswerStep ==
  ASSUME TypeInv, TurnInv, Node, pc' # "idle"
  PROVE  AnswerInv'
<1>t. ch \in Channels /\ ch' \in Channels
  BY TypeBoth DEF Next
<1> USE DEF TurnInv, AnswerInv, Concluding, Delivered
<1>1. CASE pc' \notin Concluding
  BY <1>1
<1>2. CASE ContextBuilder
  <2>1. /\ ch'.context = ContextOf(ch.plan, ch.clarification.needed, ch.analytics, Latest(ch))
        /\ ch'.plan = ch.plan /\ ch'.clarification = ch.clarification
        /\ ch'.analytics = ch.analytics /\ ch'.linked = ch.linked /\ ch'.results = ch.results
    BY <1>2, <1>t DEF ContextBuilder, Channels
  <2> QED BY <1>2, <2>1 DEF ContextBuilder, Goto, Latest
<1>3. CASE ResponseValidator \/ ResponseGenerator \/ MemoryManager
  <2>1. /\ ch'.context = ch.context
        /\ ch'.plan = ch.plan /\ ch'.clarification = ch.clarification
        /\ ch'.analytics = ch.analytics /\ ch'.linked = ch.linked /\ ch'.results = ch.results
        /\ ch'.user_input = ch.user_input
    BY <1>3, <1>t DEF ResponseValidator, ResponseGenerator, MemoryManager, Channels
  <2>2. Latest(ch') = Latest(ch)
    BY <2>1 DEF Latest
  <2>3. CASE ResponseValidator
    <3>1. ch'.verdict = VerdictOf(ch.context)
      BY <2>3, <1>t DEF ResponseValidator, Channels
    <3> QED BY <2>1, <2>2, <2>3, <3>1 DEF ResponseValidator, Goto
  <2>4. CASE ResponseGenerator
    <3>1. ch'.verdict = ch.verdict /\ ch'.response = Answer(ch)
      BY <2>4, <1>t DEF ResponseGenerator, Channels
    <3>2. AnswerKindOf(ch') = AnswerKindOf(ch)
      BY <2>1, <3>1 DEF AnswerKindOf
    <3> QED BY <2>1, <2>2, <2>4, <3>1, <3>2 DEF ResponseGenerator, Goto, Answer, Now
  <2>5. CASE MemoryManager
    BY <2>5 DEF MemoryManager, Goto, Now
  <2> QED BY <1>3, <2>3, <2>4, <2>5
<1> QED BY <1>1, <1>2, <1>3
        DEF Node, ClarificationResolver, Planner, EntityResolver, EntityResolverRaises, ApiSelector,
            Executor, ExecutorRaises, RelationshipResolver, RelationshipResolverRaises,
            ResponseGeneratorRaises, JoinOne,
            JoinDone, Analytics, EndTurn, Raise, Goto, RouteAfterResolve

(* Every step keeps the invariant of the turn.                             *)
LEMMA TurnStep == TypeInv /\ TurnInv /\ [Next]_vars => TurnInv'
<1> SUFFICES ASSUME TypeInv, TurnInv, [Next]_vars PROVE TurnInv'
  OBVIOUS
<1>1. CASE Node /\ pc' # "idle"
  BY <1>1, PendingStep, EntriesStep, AnswerStep DEF TurnInv
<1>2. CASE Ask \/ NewThread \/ Crash \/ pc' = "idle"
  BY <1>2, OutsideTurn DEF Ask, NewThread, Crash
<1>3. CASE Checkpoint \/ UNCHANGED vars
  <2>1. ch' = ch /\ pc' = pc /\ loop' = loop
    BY <1>3 DEF Checkpoint, vars
  <2> QED BY <2>1 DEF TurnInv, PendingInv, EntriesInv, AnswerInv, IsAmbiguousIn, Nothing,
                      NotComputed, Sound, Collecting, Delivered, Now, Latest, AnswerKindOf
<1> QED BY <1>1, <1>2, <1>3 DEF Next

(* The invariants of types, freshness and the turn hold together.          *)
LEMMA TurnAlways == Spec => [](TypeInv /\ FreshInv /\ TurnInv)
BY TypeInit, TypeStep, FreshInit, FreshStep, TurnInit, TurnStep, PTL DEF Spec

(* An ambiguous search is never resolved by guessing: the turn calls no    *)
(* further API, its answer asks which record was meant, and the pending    *)
(* clarification stands for the question being answered.                   *)
THEOREM AmbiguityAlwaysAsked == Spec => []AmbiguityIsAsked
<1>1. TurnInv => AmbiguityIsAsked
  <2> SUFFICES ASSUME TurnInv, Delivered, IsAmbiguousIn(ch)
               PROVE  /\ ch.response.kind = "clarification"
                      /\ ch.clarification = [needed |-> TRUE, origin |-> ch.user_input.origin]
                      /\ Nothing(ch.results)
    BY DEF AmbiguityIsAsked, IsAmbiguousIn, Nothing
  <2>1. pc \in Concluding \ {"response_validator"}
    BY DEF Delivered, Concluding
  <2>2. /\ ch.clarification.needed /\ Nothing(ch.results) /\ ch.plan.intent # "chat"
        /\ ch.clarification = [needed |-> TRUE, origin |-> ch.user_input.origin]
    BY <2>1 DEF TurnInv, PendingInv
  <2>3. ch.context.kind = "clarification"
    BY <2>1, <2>2 DEF TurnInv, AnswerInv, ContextOf, NoContext
  <2>4. ch.response.kind = "clarification"
    BY <2>2, <2>3 DEF TurnInv, AnswerInv, AnswerKindOf
  <2> QED BY <2>2, <2>4
<1> QED BY <1>1, TurnAlways, PTL

(* The LLM phrases an answer only when a call of this turn returned data:  *)
(* the verdict that lets it do so saw a block or a focus value, which only *)
(* a successful entry gives, and what is in the context is of this turn.   *)
THEOREM GeneratedAlwaysFromData == Spec => []GeneratedFromData
<1>1. TypeInv /\ FreshInv /\ TurnInv => GeneratedFromData
  <2> SUFFICES ASSUME TypeInv, FreshInv, TurnInv, Delivered, ch.response.kind = "generated"
               PROVE  \E s \in StepIds : /\ Latest(ch)[s].status = "success"
                                         /\ Latest(ch)[s].rows # {} \/ Latest(ch)[s].shape = "text"
                                         /\ Latest(ch)[s].turn = Now
    BY DEF GeneratedFromData
  <2> DEFINE entries == Latest(ch)
  <2>t. entries \in [StepIds -> Entry]
    BY DEF Latest, TypeInv, TypeOK, Channels
  <2>1. pc \in Concluding /\ pc \in Concluding \ {"response_validator"}
    BY DEF Delivered, Concluding
  <2>2. /\ ch.context = ContextOf(ch.plan, ch.clarification.needed, ch.analytics, entries)
        /\ ch.verdict = VerdictOf(ch.context)
        /\ AnswerKindOf(ch) = "generated"
    BY <2>1 DEF TurnInv, AnswerInv
  <2>3. ch.context.kind \notin {"clarification", "recall", "analytics"} /\ ch.verdict = "ok"
    BY <2>2 DEF AnswerKindOf, VerdictOf
  <2>4. ch.context = DataContext(ch.plan, entries)
    BY <2>2, <2>3 DEF ContextOf, NoContext
  <2>5. PICK s \in StepIds : ch.context.blocks[s] = "data" \/ ch.context.focus[s] = "value"
    BY <2>2, <2>3 DEF VerdictOf
  <2>6. PICK e \in StepIds : entries[e].status = "success"
    <3>1. CASE ch.context.blocks[s] = "data"
      <4>1. BlockOf(ch.plan, entries, s) = "data"
        BY <2>4, <3>1 DEF DataContext
      <4>2. entries[s].status = "success"
        BY <2>t, <4>1 DEF BlockOf, Entry
      <4> QED BY <4>2
    <3>2. CASE ch.context.focus[s] = "value"
      <4>1. FocusOf(ch.plan, entries, s) = "value"
        BY <2>4, <3>2 DEF DataContext
      <4>2. FocusSources(entries, s) # {}
        BY <4>1 DEF FocusOf
      <4> QED BY <4>2 DEF FocusSources, Succeeded
    <3> QED BY <2>5, <3>1, <3>2
  <2>7. entries \in {ch.linked, ch.results}
    BY DEF Latest
  <2>8. Sound(ch.plan, entries)
    BY <2>1, <2>7 DEF TurnInv, EntriesInv
  <2>9. entries[e] # AbsentEntry
    BY <2>6 DEF AbsentEntry
  <2>10. entries[e].turn \in ch.context.stamps
    BY <2>4, <2>8, <2>9 DEF DataContext, Sound
  <2>11. ch.context.stamps \subseteq {Now}
    BY <2>1 DEF FreshInv, ContextIsCurrent, Concluding
  <2> QED BY <2>6, <2>8, <2>9, <2>10, <2>11 DEF Sound
<1> QED BY <1>1, TurnAlways, PTL

-----------------------------------------------------------------------------
(* What a turn's data says of other data: records and their searches,      *)
(* members and their parents.  Channels carry it beyond the turn, so it is *)
(* stated of every copy of them.                                           *)

FoundFetched(c) ==
  \A s \in StepIds \cap DOMAIN c.plan.steps : \A d \in StepIds :
    (/\ c.plan.steps[s].kind = "get_by_id"
     /\ c.plan.steps[s].deps = <<d>>
     /\ c.resolved[d].state = "found" /\ c.resolved[d].id # NoKey
     /\ c.resolved[d].facet = c.plan.steps[s].facet
     /\ c.results[s].status = "success")
    => c.results[s].rows \subseteq {<<c.resolved[d].facet, c.resolved[d].id>>}

MembersLinked(c) ==
  \A s \in StepIds : c.analytics[s].present =>
    \A j \in JoinSteps(c.plan) :
      (/\ c.plan.steps[s].deps = <<j>>
       /\ c.plan.steps[j].emit = "right"
       /\ c.linked[j].status = "success")
      => \A r \in c.analytics[s].rows :
           \E l \in c.linked[c.plan.steps[j].left].rows : <<l, r>> \in Linked

Faithful(c) == FoundFetched(c) /\ MembersLinked(c)

(* A successful join of S that emits its right side holds matches only,    *)
(* and has some; its left side is then an entry that was there before it.  *)
Joined(p, entries, S) ==
  \A j \in S : p.steps[j].emit = "right" /\ entries[j].status = "success" =>
    /\ entries[j].kind = "join" /\ entries[j].shape = "many" /\ entries[j].rows # {}
    /\ \A r \in entries[j].rows :
         \E l \in entries[p.steps[j].left].rows : <<l, r>> \in Linked

(* No join has an entry before the loop reaches it.                        *)
JoinInv ==
  /\ pc = "relationship_resolver" => \A j \in JoinSteps(ch.plan) : ch.results[j] = AbsentEntry
  /\ pc = "join" => /\ \A j \in loop.todo : loop.out[j] = AbsentEntry
                    /\ Joined(ch.plan, loop.out, JoinSteps(ch.plan) \ loop.todo)
  /\ pc = "analytics" => Joined(ch.plan, ch.linked, JoinSteps(ch.plan))

DataInv == JoinInv /\ Faithful(ch) /\ \A t \in Threads : Faithful(ckpt[t])

(* Channels that agree on the data are equally faithful.                   *)
LEMMA SameData ==
  ASSUME NEW c, NEW d, c.plan = d.plan, c.resolved = d.resolved, c.results = d.results,
         c.linked = d.linked, c.analytics = d.analytics, Faithful(c)
  PROVE  Faithful(d)
BY DEF Faithful, FoundFetched, MembersLinked

(* Channels without results or analytics promise nothing.                  *)
LEMMA NoData ==
  ASSUME NEW c, Nothing(c.results), NotComputed(c)
  PROVE  Faithful(c)
<1>1. \A s \in StepIds : c.results[s].status # "success"
  BY DEF Nothing, AbsentEntry
<1> QED BY <1>1 DEF Faithful, FoundFetched, MembersLinked, NotComputed

(* The record a get_by_id step fetches is the one its search found, when   *)
(* that search is its dependency: the id is taken from it first.           *)
LEMMA FetchedIsFound ==
  ASSUME NEW p \in ExecutionPlan, NEW resolved \in [StepIds -> Entity],
         NEW o \in ExecutionOutcomes(p, Selections(p, resolved)), NEW t,
         NEW s \in StepIds \cap DOMAIN p.steps, NEW d \in StepIds,
         p.steps[s].kind = "get_by_id", p.steps[s].deps = <<d>>,
         resolved[d].id \in Keys, resolved[d].facet = p.steps[s].facet,
         ExecutionResults(p, Selections(p, resolved), o, t)[s].status = "success"
  PROVE  ExecutionResults(p, Selections(p, resolved), o, t)[s].rows
           \subseteq {<<resolved[d].facet, resolved[d].id>>}
<1> DEFINE step == p.steps[s]
           sel == Selections(p, resolved)
           id == ResolveId(step, resolved)
<1>1. id = resolved[d].id
  <2> DEFINE direct == {n \in DOMAIN step.deps : HasId(resolved, step.deps[n])}
  <2>1. direct = {1}
    BY NamesAssumption DEF HasId
  <2>2. First(direct) = 1
    BY <2>1, FirstIsLeast
  <2> QED BY <2>1, <2>2 DEF ResolveId
<1>2. sel[s] = SelectionOf(step, resolved)
  BY DEF Selections
<1>3. sel[s].act = "call" /\ sel[s].id = id
  <2>1. sel[s].act \in {"call", "error", "skip"} /\ (sel[s].act = "call" => sel[s].id = id)
    BY <1>2 DEF SelectionOf
  <2>2. sel[s].act = "call"
    BY <2>1 DEF ExecutionResults, AbsentEntry
  <2> QED BY <2>1, <2>2
<1>4. o[s] \in CallOutcomes(step, id)
  BY <1>3 DEF ExecutionOutcomes, CallSteps
<1>5. \A a \in CallOutcomes(step, id) : a.rows \subseteq {<<step.facet, id>>}
  <2> HIDE DEF id
  <2> QED BY DEF CallOutcomes
<1>6. ExecutionResults(p, sel, o, t)[s].rows = o[s].rows
  BY <1>3 DEF ExecutionResults
<1> QED BY <1>1, <1>4, <1>5, <1>6

(* Joining s, which had no entry, keeps the joins before it and adds one.  *)
LEMMA JoinedStep ==
  ASSUME NEW p \in ExecutionPlan, NEW entries \in [StepIds -> Entry], NEW t \in 0..MaxTurns,
         NEW S \in SUBSET JoinSteps(p), NEW s \in JoinSteps(p),
         entries[s] = AbsentEntry, Joined(p, entries, S)
  PROVE  Joined(p, [entries EXCEPT ![s] = JoinEntry(p, s, entries, t)], S \cup {s})
<1> DEFINE e == JoinEntry(p, s, entries, t)
           out == [entries EXCEPT ![s] = e]
           step == p.steps[s]
<1>1. /\ s \in StepIds /\ S \subseteq StepIds /\ \A j \in JoinSteps(p) : j \in DOMAIN p.steps
      /\ entries[s].rows = {} /\ entries[s].status # "success"
  BY DEF JoinSteps, StepsOfKind, AbsentEntry
<1>2. ASSUME NEW j \in JoinSteps(p) PROVE p.steps[j].left \in StepIds
  BY <1>1, StepType DEF PlanStep
<1> SUFFICES ASSUME NEW j \in S \cup {s}, p.steps[j].emit = "right", out[j].status = "success"
             PROVE  /\ out[j].kind = "join" /\ out[j].shape = "many" /\ out[j].rows # {}
                    /\ \A r \in out[j].rows :
                         \E l \in out[p.steps[j].left].rows : <<l, r>> \in Linked
  BY DEF Joined
<1>3. CASE j # s
  <2>1. out[j] = entries[j] /\ j \in S
    BY <1>1, <1>3
  <2>2. /\ out[j].kind = "join" /\ out[j].shape = "many" /\ out[j].rows # {}
        /\ \A r \in out[j].rows :
             \E l \in entries[p.steps[j].left].rows : <<l, r>> \in Linked
    BY <2>1 DEF Joined
  <2>3. p.steps[j].left # s
    BY <1>1, <2>2
  <2> QED BY <1>1, <1>2, <2>2, <2>3
<1>4. CASE j = s
  <2> DEFINE left == JoinRows(entries, step.left)
             right == JoinRows(entries, step.right)
  <2>1. out[j] = e
    BY <1>1, <1>4
  <2>2. e.kind = "join" /\ e.shape = "many" /\ e.status = "success" /\ e.rows # {}
    BY <1>4, <2>1 DEF JoinEntry
  <2>3. e.rows = {pair[2] : pair \in Matches(left, right)} /\ left # {}
    <3>1. e.rows = IF JoinMisses(step, entries) THEN {} ELSE Emitted(step, left, right)
      BY DEF JoinEntry
    <3> QED BY <1>4, <2>2, <3>1 DEF JoinMisses, Emitted
  <2>4. step.left # s /\ left = entries[step.left].rows
    BY <1>1, <2>3 DEF JoinRows
  <2>5. ASSUME NEW r \in e.rows PROVE \E l \in out[step.left].rows : <<l, r>> \in Linked
    <3>1. PICK pair \in Matches(left, right) : r = pair[2]
      BY <2>3
    <3>2. pair = <<pair[1], pair[2]>> /\ pair[1] \in left /\ pair \in Linked
      BY <3>1 DEF Matches
    <3>3. pair[1] \in out[step.left].rows
      BY <1>1, <1>2, <2>4, <3>2
    <3> QED BY <3>1, <3>2, <3>3
  <2> QED BY <1>4, <2>1, <2>2, <2>5
<1> QED BY <1>3, <1>4

(* Every step of a turn keeps what the join loop has done so far.          *)
LEMMA JoinStep ==
  ASSUME TypeInv, TurnInv, JoinInv, Node
  PROVE  JoinInv'
<1>t. ch \in Channels /\ ch' \in Channels /\ ch.plan \in ExecutionPlan /\ Now \in 0..MaxTurns
  BY TypeBoth, PlanType DEF Next, Channels
<1>1. CASE pc' \notin {"relationship_resolver", "join", "analytics"}
  BY <1>1 DEF JoinInv
<1>2. CASE Executor
  <2>1. PICK o \in ExecutionOutcomes(ch.plan, ch.selected) :
          LET res == ExecutionResults(ch.plan, ch.selected, o, Now)
          IN ch' = [ch EXCEPT !.results = res, !.errors = @ \cup Failed(res)]
    BY <1>2 DEF Executor
  <2>2. /\ ch'.results = ExecutionResults(ch.plan, ch.selected, o, Now)
        /\ ch'.plan = ch.plan
    BY <2>1, <1>t DEF Channels
  <2>3. ch.selected = Selections(ch.plan, ch.resolved)
    BY <1>2 DEF Executor, TypeInv, SelectionMatches
  <2>4. ASSUME NEW j \in JoinSteps(ch.plan) PROVE ch'.results[j] = AbsentEntry
    <3>1. j \in StepIds /\ j \in DOMAIN ch.plan.steps /\ ch.plan.steps[j].kind = "join"
      BY DEF JoinSteps, StepsOfKind
    <3>2. ch.selected[j].act = "skip"
      <4>1. \A step : step.kind = "join" => SelectionOf(step, ch.resolved).act = "skip"
        BY DEF SelectionOf
      <4> QED BY <2>3, <3>1, <4>1 DEF Selections
    <3> QED BY <2>2, <3>1, <3>2 DEF ExecutionResults
  <2> QED BY <1>2, <2>2, <2>4 DEF Executor, Goto, JoinInv
<1>3. CASE RelationshipResolver
  <2>1. PICK names \in SUBSET {s \in Succeeded(ch.results) : ch.results[s].rows # {}} :
          ch' = [ch EXCEPT !.linked = ResolvedResults(ch.results, names)]
    BY <1>3 DEF RelationshipResolver
  <2>2. ch'.linked = ResolvedResults(ch.results, names) /\ ch'.plan = ch.plan
    BY <2>1, <1>t DEF Channels
  <2>3. ASSUME NEW j \in JoinSteps(ch.plan) PROVE ch'.linked[j] = AbsentEntry
    <3>1. j \in StepIds /\ ch.results[j] = AbsentEntry
      BY <1>3 DEF RelationshipResolver, JoinInv, JoinSteps, StepsOfKind
    <3>2. j \notin names
      BY <3>1 DEF Succeeded, AbsentEntry
    <3> QED BY <2>2, <3>1, <3>2 DEF ResolvedResults
  <2>4. loop'.todo = JoinSteps(ch.plan) /\ loop'.out = ch'.linked
    BY <1>3 DEF RelationshipResolver
  <2> QED BY <1>3, <2>2, <2>3, <2>4 DEF RelationshipResolver, Goto, JoinInv, Joined
<1>4. CASE JoinOne
  <2> DEFINE s == First(loop.todo)
             done == JoinSteps(ch.plan) \ loop.todo
  <2>1. /\ pc = "join" /\ loop.todo # {} /\ loop.todo \subseteq JoinSteps(ch.plan)
        /\ loop.todo \in SUBSET StepIds /\ loop.todo \in SUBSET Nat
        /\ loop.out \in [StepIds -> Entry]
    BY <1>4, BoundsAssumption DEF JoinOne, StepIds, TypeInv, TypeOK, LoopMatches
  <2>2. s \in loop.todo
    BY <2>1, FirstIsLeast
  <2>3. /\ loop'.todo = loop.todo \ {s} /\ ch' = ch /\ pc' = "join"
        /\ loop'.out = [loop.out EXCEPT ![s] = JoinEntry(ch.plan, s, loop.out, Now)]
    BY <1>4 DEF JoinOne
  <2>4. /\ \A j \in loop.todo : loop.out[j] = AbsentEntry
        /\ Joined(ch.plan, loop.out, done)
    BY <2>1 DEF JoinInv
  <2> HIDE DEF s
  <2>5. Joined(ch.plan, loop'.out, done \cup {s})
    BY <1>t, <2>1, <2>2, <2>3, <2>4, JoinedStep
  <2>6. done \cup {s} = JoinSteps(ch.plan) \ loop'.todo
    BY <2>1, <2>2, <2>3
  <2>7. \A j \in loop'.todo : loop'.out[j] = AbsentEntry
    BY <2>1, <2>3, <2>4
  <2> QED BY <2>3, <2>5, <2>6, <2>7 DEF JoinInv
<1>5. CASE JoinDone
  <2>1. /\ ch'.linked = IF JoinSteps(ch.plan) = {} THEN ch.linked ELSE loop.out
        /\ ch'.plan = ch.plan
    BY <1>5, <1>t DEF JoinDone, Channels
  <2>2. Joined(ch.plan, loop.out, JoinSteps(ch.plan))
    <3>1. JoinSteps(ch.plan) \ loop.todo = JoinSteps(ch.plan)
      BY <1>5 DEF JoinDone
    <3> QED BY <1>5, <3>1 DEF JoinDone, JoinInv
  <2>3. Joined(ch'.plan, ch'.linked, JoinSteps(ch'.plan))
    BY <2>1, <2>2 DEF Joined
  <2> QED BY <1>5, <2>3 DEF JoinDone, Goto, JoinInv
<1> QED BY <1>1, <1>2, <1>3, <1>4, <1>5
        DEF Node, ClarificationResolver, Planner, EntityResolver, EntityResolverRaises, ApiSelector,
            ExecutorRaises, RelationshipResolverRaises, ResponseGeneratorRaises, Analytics,
            ContextBuilder,
            ResponseValidator, ResponseGenerator, MemoryManager, EndTurn, Raise, Goto,
            RouteAfterResolve

(* Computing the analytics over joined entries counts linked members only. *)
LEMMA MembersComputed ==
  ASSUME NEW c \in Channels, NEW d \in Channels, NEW t \in 0..MaxTurns,
         d.plan = c.plan, d.linked = c.linked,
         d.analytics = AnalyticsResults(c.plan, Latest(c), t),
         Joined(c.plan, c.linked, JoinSteps(c.plan))
  PROVE  MembersLinked(d)
<1> SUFFICES ASSUME NEW s \in StepIds, d.analytics[s].present,
                    NEW j \in JoinSteps(c.plan), c.plan.steps[s].deps = <<j>>,
                    c.plan.steps[j].emit = "right", c.linked[j].status = "success"
             PROVE  \A r \in d.analytics[s].rows :
                      \E l \in c.linked[c.plan.steps[j].left].rows : <<l, r>> \in Linked
  BY DEF MembersLinked
<1>1. /\ c.linked[j].kind = "join" /\ c.linked[j].shape = "many"
      /\ \A r \in c.linked[j].rows :
           \E l \in c.linked[c.plan.steps[j].left].rows : <<l, r>> \in Linked
  BY DEF Joined
<1>2. j \in StepIds /\ j # 0
  BY DEF JoinSteps, StepsOfKind, StepIds
<1>3. Latest(c) = c.linked
  BY <1>1, <1>2 DEF Latest
<1>4. SourceStep(c.plan.steps[s], c.linked) = j
  <2> DEFINE step == c.plan.steps[s]
             direct == {n \in DOMAIN step.deps : /\ c.linked[step.deps[n]].status = "success"
                                                 /\ c.linked[step.deps[n]].shape = "many"}
  <2>1. direct = {1}
    BY <1>1
  <2>2. First(direct) = 1
    BY <2>1, FirstIsLeast
  <2> QED BY <2>1, <2>2 DEF SourceStep
<1>5. s \in AggregateSteps(c.plan)
  BY DEF AnalyticsResults, NoAnalytic
<1>6. d.analytics[s].rows = c.linked[j].rows
  <2>1. d.analytics[s] = AnalyticOf(c.plan.steps[s], c.linked, t)
    BY <1>3, <1>5 DEF AnalyticsResults
  <2> QED BY <1>2, <1>4, <2>1 DEF AnalyticOf
<1> QED BY <1>1, <1>6

(* Every step leaves the channels in memory faithful.                      *)
LEMMA FaithfulStep ==
  ASSUME TypeInv, TurnInv, DataInv, [Next]_vars
  PROVE  Faithful(ch')
<1>t. ch \in Channels /\ ch' \in Channels /\ ch.plan \in ExecutionPlan /\ Now \in 0..MaxTurns
  BY TypeBoth, PlanType DEF Channels
<1>f. Faithful(ch) /\ (\A t \in Threads : Faithful(ckpt[t]) /\ ckpt[t] \in Channels)
      /\ thread \in Threads
  BY DEF DataInv, TypeInv, TypeOK
<1>1. CASE Ask
  <2>1. /\ ch'.plan = ckpt[thread].plan /\ ch'.resolved = ckpt[thread].resolved
        /\ ch'.results = ckpt[thread].results /\ ch'.linked = ckpt[thread].linked
        /\ ch'.analytics = ckpt[thread].analytics
    BY <1>1, <1>f DEF Ask, ResumedChannels, Channels
  <2> QED BY <1>f, <2>1, SameData
<1>2. CASE NewThread \/ Crash
  <2>1. \E t \in Threads : ch' = ckpt[t]
    BY <1>2, ThreadsAssumption DEF NewThread, Crash
  <2> QED BY <1>f, <2>1
<1>3. CASE ClarificationResolver
  <2>1. /\ ch'.plan = ch.plan /\ ch'.resolved = ch.resolved /\ ch'.results = ch.results
        /\ ch'.linked = ch.linked /\ ch'.analytics = ch.analytics
    BY <1>t, <1>3, ClarificationConsumed
  <2> QED BY <1>f, <2>1, SameData
<1>4. CASE Planner
  <2>1. ch'.results = EmptyChannels.results /\ ch'.analytics = EmptyChannels.analytics
    BY <1>4, <1>t DEF Planner, ResetDerived, Channels
  <2>2. Nothing(ch'.results) /\ NotComputed(ch')
    BY <2>1 DEF EmptyChannels, Nothing, NotComputed, NoAnalytic
  <2> QED BY <2>2, NoData
<1>5. CASE EntityResolver
  <2>1. PICK o \in [SearchSteps(ch.plan) -> SearchOutcome] : ch' = Resolution(ch, o)
    BY <1>5 DEF EntityResolver
  <2>2. ch'.results = ch.results /\ ch'.analytics = ch.analytics
    BY <1>t, <2>1 DEF Resolution, Channels
  <2>3. Nothing(ch'.results) /\ NotComputed(ch')
    BY <1>5, <2>2 DEF EntityResolver, TurnInv, EntriesInv, NotComputed
  <2> QED BY <2>3, NoData
<1>6. CASE Executor
  <2>1. PICK o \in ExecutionOutcomes(ch.plan, ch.selected) :
          LET res == ExecutionResults(ch.plan, ch.selected, o, Now)
          IN ch' = [ch EXCEPT !.results = res, !.errors = @ \cup Failed(res)]
    BY <1>6 DEF Executor
  <2>2. /\ ch'.results = ExecutionResults(ch.plan, ch.selected, o, Now)
        /\ ch'.plan = ch.plan /\ ch'.resolved = ch.resolved /\ ch'.analytics = ch.analytics
    BY <2>1, <1>t DEF Channels
  <2>3. ch.selected = Selections(ch.plan, ch.resolved) /\ ch.resolved \in [StepIds -> Entity]
    BY <1>6, <1>t DEF Executor, TypeInv, SelectionMatches, Channels
  <2>4. FoundFetched(ch')
    <3> SUFFICES ASSUME NEW s \in StepIds \cap DOMAIN ch.plan.steps, NEW d \in StepIds,
                        ch.plan.steps[s].kind = "get_by_id", ch.plan.steps[s].deps = <<d>>,
                        ch.resolved[d].state = "found", ch.resolved[d].id # NoKey,
                        ch.resolved[d].facet = ch.plan.steps[s].facet,
                        ch'.results[s].status = "success"
                 PROVE  ch'.results[s].rows \subseteq {<<ch.resolved[d].facet, ch.resolved[d].id>>}
      BY <2>2 DEF FoundFetched
    <3>1. ch.resolved[d].id \in Keys
      BY <2>3 DEF Entity
    <3> QED BY <1>t, <2>2, <2>3, <3>1, FetchedIsFound
  <2>5. MembersLinked(ch')
    BY <1>6, <2>2 DEF Executor, TurnInv, EntriesInv, Calling, NotComputed, MembersLinked
  <2> QED BY <2>4, <2>5 DEF Faithful
<1>7. CASE RelationshipResolver \/ JoinDone
  <2>1. /\ ch'.results = ch.results /\ ch'.plan = ch.plan /\ ch'.resolved = ch.resolved
        /\ ch'.analytics = ch.analytics
    BY <1>7, <1>t DEF RelationshipResolver, JoinDone, Channels
  <2>2. FoundFetched(ch')
    BY <1>f, <2>1 DEF Faithful, FoundFetched
  <2>3. MembersLinked(ch')
    BY <1>7, <2>1 DEF RelationshipResolver, JoinDone, TurnInv, EntriesInv, Calling, NotComputed,
                      MembersLinked
  <2> QED BY <2>2, <2>3 DEF Faithful
<1>8. CASE Analytics
  <2>1. /\ ch'.results = ch.results /\ ch'.plan = ch.plan /\ ch'.resolved = ch.resolved
        /\ ch'.linked = ch.linked
        /\ ch'.analytics \in {ch.analytics, AnalyticsResults(ch.plan, Latest(ch), Now)}
    BY <1>8, <1>t DEF Analytics, Channels
  <2>2. FoundFetched(ch')
    BY <1>f, <2>1 DEF Faithful, FoundFetched
  <2>3. CASE ch'.analytics = ch.analytics
    BY <1>f, <2>1, <2>3, SameData
  <2>4. CASE ch'.analytics = AnalyticsResults(ch.plan, Latest(ch), Now)
    <3>1. Joined(ch.plan, ch.linked, JoinSteps(ch.plan))
      BY <1>8 DEF Analytics, DataInv, JoinInv
    <3>2. MembersLinked(ch')
      BY <1>t, <2>1, <2>4, <3>1, MembersComputed
    <3> QED BY <2>2, <3>2 DEF Faithful
  <2> QED BY <2>1, <2>3, <2>4
<1>9. CASE ApiSelector \/ JoinOne \/ ContextBuilder \/ ResponseValidator \/ ResponseGenerator
           \/ MemoryManager
  <2>1. /\ ch'.plan = ch.plan /\ ch'.resolved = ch.resolved /\ ch'.results = ch.results
        /\ ch'.linked = ch.linked /\ ch'.analytics = ch.analytics
    BY <1>9, <1>t DEF ApiSelector, JoinOne, ContextBuilder, ResponseValidator, ResponseGenerator,
                      MemoryManager, Channels
  <2> QED BY <1>f, <2>1, SameData
<1>10. CASE Raise \/ EndTurn \/ Checkpoint \/ UNCHANGED vars
  BY <1>10, <1>f DEF Raise, EndTurn, Checkpoint, vars
<1> QED BY <1>1, <1>2, <1>3, <1>4, <1>5, <1>6, <1>7, <1>8, <1>9, <1>10
        DEF Next, Node, EntityResolverRaises, ExecutorRaises, RelationshipResolverRaises,
            ResponseGeneratorRaises

(* Initially there is no data.                                             *)
LEMMA DataInit == Init => DataInv
<1>1. Faithful(EmptyChannels)
  BY NoData DEF EmptyChannels, Nothing, NotComputed, NoAnalytic
<1> QED BY <1>1 DEF Init, DataInv, JoinInv

(* Every step keeps the data of every copy of the channels faithful.       *)
LEMMA DataStep == TypeInv /\ TurnInv /\ DataInv /\ [Next]_vars => DataInv'
<1> SUFFICES ASSUME TypeInv, TurnInv, DataInv, [Next]_vars PROVE DataInv'
  OBVIOUS
<1>1. Faithful(ch')
  BY FaithfulStep
<1>2. ckpt' = ckpt \/ ckpt' = [ckpt EXCEPT ![thread] = ch]
  BY DEF Next, Node, vars, Ask, NewThread, Crash, Checkpoint, ClarificationResolver, Planner,
         EntityResolver, EntityResolverRaises, ApiSelector, Executor, ExecutorRaises,
         RelationshipResolver, RelationshipResolverRaises, ResponseGeneratorRaises, JoinOne,
         JoinDone, Analytics,
         ContextBuilder, ResponseValidator, ResponseGenerator, MemoryManager, EndTurn, Raise,
         OnlyChannels
<1>3. \A t \in Threads : Faithful(ckpt'[t])
  <2>1. \A t \in Threads : ckpt'[t] \in {ckpt[t], ch}
    BY <1>2 DEF TypeInv, TypeOK
  <2> QED BY <2>1 DEF DataInv
<1>4. JoinInv'
  <2>1. CASE Node
    BY <2>1, JoinStep DEF DataInv
  <2>2. CASE Ask \/ NewThread \/ Crash
    BY <2>2 DEF Ask, NewThread, Crash, JoinInv
  <2>3. CASE Checkpoint \/ UNCHANGED vars
    <3>1. ch' = ch /\ pc' = pc /\ loop' = loop
      BY <2>3 DEF Checkpoint, vars
    <3> QED BY <3>1 DEF DataInv, JoinInv, Joined
  <2> QED BY <2>1, <2>2, <2>3 DEF Next
<1> QED BY <1>1, <1>3, <1>4 DEF DataInv

(* The invariants of types, the turn and its data hold together.           *)
LEMMA DataAlways == Spec => [](TypeInv /\ TurnInv /\ DataInv)
BY TypeInit, TypeStep, TurnInit, TurnStep, DataInit, DataStep, PTL DEF Spec

(* The record a question is answered about is the one its search found,    *)
(* whichever other searches its plan makes.                                *)
THEOREM FoundAlwaysFetched == Spec => []FoundIsFetched
<1>1. DataInv => FoundIsFetched
  BY DEF DataInv, Faithful, FoundFetched, FoundIsFetched
<1> QED BY <1>1, DataAlways, PTL

(* The members a count is made of are linked to a parent the join read.    *)
THEOREM MembersAlwaysLinked == Spec => []MembersAreLinked
<1>1. DataInv => MembersAreLinked
  BY DEF DataInv, Faithful, MembersLinked, MembersAreLinked
<1> QED BY <1>1, DataAlways, PTL

-----------------------------------------------------------------------------
(* What is kept of a conversation.                                         *)

(* A question is open exactly while its turn runs, and questions are asked *)
(* one after the other.                                                    *)
LogInv ==
  /\ pc # "idle" => Now = turn
  /\ \A n \in Turns : (log[n].fate = "running") <=> (pc # "idle" /\ n = turn)
  /\ \A n \in Turns : (log[n].fate = "unasked") <=> n > turn

(* How many messages of its exchange the running turn has appended.        *)
Upto ==
  CASE pc \in {"idle", "clarification_resolver", "planner"} -> 0
    [] pc \in {"memory_manager", "END"} -> 2
    [] OTHER -> 1

(* The number of messages before the running turn.                         *)
Before == Len(ch.messages) - Upto

IsPrefixUpTo(short, long, least) ==
  /\ Len(short) \in least..Len(long)
  /\ \A i \in 1..Len(short) : short[i] = long[i]

(* The history in memory is the past, in which every turn is over, and the *)
(* exchange of the running turn as far as it got; the durable history of   *)
(* the thread has all of the past, and may lag behind in the exchange.     *)
HistoryInv ==
  /\ pc = "idle" => ch = ckpt[thread]
  /\ pc # "idle" =>
       /\ Before \in Nat
       /\ \A i \in 1..Before : ch.messages[i].turn < Now
       /\ Upto >= 1 => ch.messages[Before + 1] = UserMessage(ch.user_input)
       /\ Upto = 2 => ch.messages[Before + 2] = AssistantMessage(ch.response)
       /\ IsPrefixUpTo(ckpt[thread].messages, ch.messages, Before)
  /\ DialogueWellFormed

(* Only the steps of a plan are aggregated.                                *)
ComputedInv ==
  pc \in {"context_builder"} \cup Concluding
    => \A s \in StepIds : ch.analytics[s].present => s \in AggregateSteps(ch.plan)

(* The row of the running turn is written by its last node.                *)
MemoryInv ==
  /\ MemoriesAreUsable
  /\ pc \notin {"idle", "END"} => \A m \in memory : m.question.turn # Now

(* The last message of a pending clarification is the question it asks.    *)
AskedLast(c) ==
  c.clarification.needed => /\ c.messages # <<>>
                            /\ c.messages[Len(c.messages)].kind = "clarification"
PendingAskedInv ==
  /\ crashes = 0
  /\ \A t \in Threads : pc = "idle" \/ t # thread => AskedLast(ckpt[t])

-----------------------------------------------------------------------------
(* What the steps do to the conversation, whatever they do to the data.    *)

(* A node that does not end the turn stays in it, and saves nothing but a  *)
(* memory.                                                                 *)
LEMMA NodeStays ==
  ASSUME TypeInv, Node, pc' # "idle"
  PROVE  /\ pc # "idle" /\ thread' = thread /\ turn' = turn /\ log' = log /\ ckpt' = ckpt
         /\ crashes' = crashes /\ Now' = Now
<1>t. ch \in Channels /\ ch' \in Channels
  BY TypeBoth DEF Next
<1>1. CASE ClarificationResolver
  <2>1. ch'.user_input.turn = ch.user_input.turn
    BY <1>t, <1>1, ClarificationConsumed
  <2> QED BY <1>1, <2>1 DEF ClarificationResolver, OnlyChannels, Now
<1>2. CASE Planner \/ EntityResolver \/ ApiSelector \/ Executor \/ RelationshipResolver
  BY <1>2, <1>t DEF Planner, ResetDerived, EntityResolver, Resolution, ApiSelector, Executor,
                    RelationshipResolver, Channels, OnlyChannels, Now
<1>3. CASE JoinOne \/ JoinDone \/ Analytics \/ ContextBuilder \/ ResponseValidator
           \/ ResponseGenerator \/ MemoryManager
  BY <1>3, <1>t DEF JoinOne, JoinDone, Analytics, ContextBuilder, ResponseValidator,
                    ResponseGenerator, MemoryManager, Channels, OnlyChannels, Now
<1> QED BY <1>1, <1>2, <1>3
        DEF Node, EntityResolverRaises, ExecutorRaises, RelationshipResolverRaises,
            ResponseGeneratorRaises, EndTurn, Raise

(* The nodes an exception can escape.                                      *)
Raising == {"entity_resolver", "executor", "relationship_resolver", "response_generator"}

(* A node that ends the turn makes its channels durable and settles it:    *)
(* answered after the last node, else reported before there is an answer.  *)
LEMMA NodeEnds ==
  ASSUME Node, pc' = "idle"
  PROVE  /\ thread' = thread /\ turn' = turn /\ ch' = ch /\ memory' = memory
         /\ crashes' = crashes /\ ckpt' = [ckpt EXCEPT ![thread] = ch]
         /\ \/ pc = "END" /\ Settle("answered")
            \/ /\ pc \in Raising /\ Settle("reported")
               /\ pc = "response_generator" => ch.plan.intent = "chat"
BY DEF Raising, Node, ClarificationResolver, Planner, EntityResolver, EntityResolverRaises,
       ApiSelector,
       Executor, ExecutorRaises, RelationshipResolver, RelationshipResolverRaises,
       ResponseGeneratorRaises, JoinOne,
       JoinDone, Analytics, ContextBuilder, ResponseValidator, ResponseGenerator, MemoryManager,
       EndTurn, Raise, Goto, RouteAfterResolve

(* Only the planner and the response generator say anything.               *)
LEMMA NodeSays ==
  ASSUME TypeInv, Node, pc' # "idle"
  PROVE  \/ /\ pc \in {"clarification_resolver", "planner"}
            /\ pc' = "planner"
            /\ ch'.messages = ch.messages
         \/ /\ pc = "planner" /\ pc' = "entity_resolver"
            /\ ch'.messages = Append(ch.messages, UserMessage(ch.user_input))
            /\ ch'.user_input = ch.user_input
         \/ /\ pc \notin {"idle", "clarification_resolver", "planner", "response_generator",
                          "memory_manager", "END"}
            /\ pc' \notin {"idle", "clarification_resolver", "planner", "memory_manager", "END"}
            /\ ch'.messages = ch.messages /\ ch'.user_input = ch.user_input
         \/ /\ pc = "response_generator" /\ pc' = "memory_manager"
            /\ ch'.response = Answer(ch)
            /\ ch'.messages = Append(ch.messages, AssistantMessage(Answer(ch)))
            /\ ch'.user_input = ch.user_input
         \/ pc = "memory_manager" /\ pc' = "END" /\ ch' = ch
<1>t. ch \in Channels /\ ch' \in Channels
  BY TypeBoth DEF Next
<1>1. CASE ClarificationResolver
  <2>1. ch'.messages = ch.messages
    BY <1>t, <1>1, ClarificationConsumed
  <2> QED BY <1>1, <2>1 DEF ClarificationResolver, Goto
<1>2. CASE Planner
  BY <1>2, <1>t DEF Planner, ResetDerived, AddMessage, Goto, Channels
<1>3. CASE EntityResolver \/ ApiSelector \/ Executor \/ RelationshipResolver
  BY <1>3, <1>t DEF EntityResolver, Resolution, RouteAfterResolve, ApiSelector, Executor,
                    RelationshipResolver, Goto, Channels
<1>4. CASE JoinOne \/ JoinDone \/ Analytics \/ ContextBuilder \/ ResponseValidator
  BY <1>4, <1>t DEF JoinOne, JoinDone, Analytics, ContextBuilder, ResponseValidator, Goto, Channels
<1>5. CASE ResponseGenerator
  BY <1>5, <1>t DEF ResponseGenerator, AddMessage, Goto, Channels
<1>6. CASE MemoryManager
  BY <1>6 DEF MemoryManager, Goto
<1> QED BY <1>1, <1>2, <1>3, <1>4, <1>5, <1>6
        DEF Node, EntityResolverRaises, ExecutorRaises, RelationshipResolverRaises,
            ResponseGeneratorRaises, EndTurn, Raise

(* Initially nothing was asked.                                            *)
LEMMA LogInit == Init => LogInv
BY BoundsAssumption DEF Init, LogInv, Turns

(* Every step keeps one question open at most, the last one asked.         *)
LEMMA LogStep == TypeInv /\ LogInv /\ [Next]_vars => LogInv'
<1> SUFFICES ASSUME TypeInv, LogInv, [Next]_vars PROVE LogInv'
  OBVIOUS
<1>t. /\ turn \in Nat /\ 1..turn \subseteq Turns /\ Turns \subseteq Nat
      /\ log \in [Turns -> [thread : Threads, fate : Fate]]
      /\ ch \in Channels /\ ch' \in Channels /\ \A t \in Threads : ckpt[t] \in Channels
      /\ thread \in Threads
  BY TypeBoth, BoundsAssumption DEF Turns, TypeInv, TypeOK
<1>1. CASE Node /\ pc' # "idle"
  BY <1>1, NodeStays DEF LogInv
<1>2. CASE Node /\ pc' = "idle"
  <2>1. PICK f \in {"answered", "reported"} : log' = [log EXCEPT ![Now].fate = f]
    BY <1>2, NodeEnds DEF Settle
  <2>2. turn' = turn /\ pc # "idle" /\ Now = turn
    BY <1>2, NodeEnds DEF LogInv, Raising
  <2>3. \A n \in Turns : log'[n].fate = IF n = turn THEN f ELSE log[n].fate
    BY <1>t, <2>1, <2>2
  <2> QED BY <1>t, <1>2, <2>2, <2>3 DEF LogInv
<1>3. CASE Ask
  <2>1. ch'.user_input.turn = turn + 1 /\ turn' = turn + 1 /\ pc = "idle" /\ pc' # "idle"
    BY <1>3, <1>t DEF Ask, ResumedChannels, Channels
  <2>2. \A n \in Turns : log'[n].fate = IF n = turn + 1 THEN "running" ELSE log[n].fate
    BY <1>3, <1>t DEF Ask
  <2> QED BY <1>t, <2>1, <2>2 DEF LogInv, Now
<1>4. CASE Crash
  <2>1. CASE pc = "idle"
    BY <1>4, <2>1 DEF Crash, LogInv
  <2>2. CASE pc # "idle"
    <3>1. log' = [log EXCEPT ![turn].fate = "lost"] /\ turn' = turn /\ pc' = "idle"
      BY <1>4, <2>2 DEF Crash, Settle, LogInv
    <3>2. \A n \in Turns : log'[n].fate = IF n = turn THEN "lost" ELSE log[n].fate
      BY <1>t, <3>1
    <3> QED BY <1>t, <2>2, <3>1, <3>2 DEF LogInv
  <2> QED BY <2>1, <2>2
<1>5. CASE NewThread \/ Checkpoint \/ UNCHANGED vars
  BY <1>5 DEF NewThread, Checkpoint, vars, LogInv, Now
<1> QED BY <1>1, <1>2, <1>3, <1>4, <1>5 DEF Next

-----------------------------------------------------------------------------
(* The history in memory and its durable copies.                           *)

(* A question later than every message may be appended to a dialogue.      *)
LEMMA QuestionAppended ==
  ASSUME NEW messages \in Seq(Message), IsDialogue(messages), NEW m \in Message,
         m.role = "user", \A i \in DOMAIN messages : messages[i].turn < m.turn
  PROVE  IsDialogue(Append(messages, m))
<1> DEFINE longer == Append(messages, m)
<1>1. /\ Len(longer) = Len(messages) + 1 /\ longer[Len(messages) + 1] = m
      /\ \A i \in 1..Len(messages) : longer[i] = messages[i]
      /\ DOMAIN longer = 1..(Len(messages) + 1) /\ DOMAIN messages = 1..Len(messages)
      /\ Len(messages) \in Nat
  OBVIOUS
<1> HIDE DEF longer
<1>2. ASSUME NEW i \in 1..Len(messages)
      PROVE  /\ longer[i].role = "user" => \A j \in 1..(i - 1) : longer[j].turn < longer[i].turn
             /\ longer[i].role = "assistant" =>
                  i > 1 /\ longer[i - 1] = [role |-> "user", turn |-> longer[i].turn,
                  kind |-> "none"]
  BY <1>1, <1>2 DEF IsDialogue
<1>3. \A j \in 1..Len(messages) : longer[j].turn < m.turn
  BY <1>1
<1> QED BY <1>1, <1>2, <1>3 DEF IsDialogue, longer

(* An answer may be appended to a dialogue that ends with its question.    *)
LEMMA AnswerAppended ==
  ASSUME NEW messages \in Seq(Message), IsDialogue(messages), NEW m \in Message,
         m.role = "assistant", messages # <<>>,
         messages[Len(messages)] = [role |-> "user", turn |-> m.turn, kind |-> "none"]
  PROVE  IsDialogue(Append(messages, m))
<1> DEFINE longer == Append(messages, m)
<1>1. /\ Len(longer) = Len(messages) + 1 /\ longer[Len(messages) + 1] = m
      /\ \A i \in 1..Len(messages) : longer[i] = messages[i]
      /\ DOMAIN longer = 1..(Len(messages) + 1) /\ DOMAIN messages = 1..Len(messages)
      /\ Len(messages) \in Nat /\ Len(messages) >= 1
  OBVIOUS
<1> HIDE DEF longer
<1>2. ASSUME NEW i \in 1..Len(messages)
      PROVE  /\ longer[i].role = "user" => \A j \in 1..(i - 1) : longer[j].turn < longer[i].turn
             /\ longer[i].role = "assistant" =>
                  i > 1 /\ longer[i - 1] = [role |-> "user", turn |-> longer[i].turn,
                  kind |-> "none"]
  BY <1>1, <1>2 DEF IsDialogue
<1> QED BY <1>1, <1>2 DEF IsDialogue, longer

(* A prefix stays one of a longer history.                                 *)
LEMMA PrefixKept ==
  ASSUME NEW short \in Seq(Message), NEW long \in Seq(Message), NEW m \in Message,
         NEW least \in Nat, IsPrefixUpTo(short, long, least)
  PROVE  IsPrefixUpTo(short, Append(long, m), least)
BY DEF IsPrefixUpTo

(* Initially every history is empty.                                       *)
LEMMA HistoryInit == Init => HistoryInv
BY ThreadsAssumption DEF Init, HistoryInv, DialogueWellFormed, IsDialogue, EmptyChannels

(* Every step keeps the histories what they are said to be.                *)
LEMMA HistoryStep ==
  TypeInv /\ IsolationInv /\ LogInv /\ HistoryInv /\ [Next]_vars => HistoryInv'
<1> SUFFICES ASSUME TypeInv, IsolationInv, LogInv, HistoryInv, [Next]_vars PROVE HistoryInv'
  OBVIOUS
<1>t. /\ ch \in Channels /\ ch' \in Channels /\ ch.messages \in Seq(Message)
      /\ Len(ch.messages) \in Nat /\ thread \in Threads /\ turn \in Nat
      /\ \A t \in Threads : ckpt[t] \in Channels /\ ckpt[t].messages \in Seq(Message)
  BY TypeBoth, BoundsAssumption DEF TypeInv, TypeOK, Channels
<1>d. IsDialogue(ch.messages) /\ \A t \in Threads : IsDialogue(ckpt[t].messages)
  BY DEF HistoryInv, DialogueWellFormed
<1>1. CASE Node /\ pc' # "idle"
  <2>1. /\ pc # "idle" /\ thread' = thread /\ ckpt' = ckpt /\ Now' = Now
    BY <1>1, NodeStays
  <2>2. /\ Before \in Nat
        /\ \A i \in 1..Before : ch.messages[i].turn < Now
        /\ Upto >= 1 => ch.messages[Before + 1] = UserMessage(ch.user_input)
        /\ Upto = 2 => ch.messages[Before + 2] = AssistantMessage(ch.response)
        /\ IsPrefixUpTo(ckpt[thread].messages, ch.messages, Before)
    BY <2>1 DEF HistoryInv
  <2>3. SUFFICES /\ Before' = Before
                 /\ \A i \in 1..Before : ch'.messages[i] = ch.messages[i]
                 /\ Upto' >= 1 => ch'.messages[Before + 1] = UserMessage(ch'.user_input)
                 /\ Upto' = 2 => ch'.messages[Before + 2] = AssistantMessage(ch'.response)
                 /\ IsPrefixUpTo(ckpt[thread].messages, ch'.messages, Before)
                 /\ IsDialogue(ch'.messages)
    BY <1>1, <1>d, <2>1, <2>2 DEF HistoryInv, DialogueWellFormed
  <2>4. CASE /\ pc \in {"clarification_resolver", "planner"}
             /\ pc' = "planner"
             /\ ch'.messages = ch.messages
    <3>1. Upto = 0 /\ Upto' = 0 /\ Before' = Before
      BY <2>4 DEF Upto, Before
    <3> QED BY <1>d, <2>2, <2>4, <3>1
  <2>5. CASE /\ pc = "planner" /\ pc' = "entity_resolver"
             /\ ch'.messages = Append(ch.messages, UserMessage(ch.user_input))
             /\ ch'.user_input = ch.user_input
    <3> DEFINE q == UserMessage(ch.user_input)
    <3>1. q \in Message /\ q.role = "user" /\ q.turn = Now
      BY <1>t DEF UserMessage, Message, Channels, Question, AnswerKind, Now
    <3>2. Upto = 0 /\ Upto' = 1 /\ Before = Len(ch.messages)
      BY <1>t, <2>5 DEF Upto, Before
    <3> HIDE DEF q
    <3>3. /\ Len(ch'.messages) = Len(ch.messages) + 1
          /\ \A i \in 1..Len(ch.messages) : ch'.messages[i] = ch.messages[i]
          /\ ch'.messages[Len(ch.messages) + 1] = q
      BY <1>t, <2>5, <3>1 DEF q
    <3>4. IsDialogue(ch'.messages)
      BY <1>t, <1>d, <2>2, <2>5, <3>1, <3>2, QuestionAppended DEF q
    <3>5. IsPrefixUpTo(ckpt[thread].messages, ch'.messages, Before)
      BY <1>t, <2>2, <2>5, <3>1, PrefixKept DEF q
    <3>6. Before' = Before
      BY <1>t, <3>2, <3>3 DEF Before
    <3> QED BY <2>5, <3>2, <3>3, <3>4, <3>5, <3>6 DEF q
  <2>6. CASE /\ pc \notin {"idle", "clarification_resolver", "planner", "response_generator",
                           "memory_manager", "END"}
             /\ pc' \notin {"idle", "clarification_resolver", "planner", "memory_manager", "END"}
             /\ ch'.messages = ch.messages /\ ch'.user_input = ch.user_input
    <3>1. Upto = 1 /\ Upto' = 1 /\ Before' = Before
      BY <2>6 DEF Upto, Before
    <3> QED BY <1>d, <2>2, <2>6, <3>1
  <2>7. CASE /\ pc = "response_generator" /\ pc' = "memory_manager"
             /\ ch'.response = Answer(ch)
             /\ ch'.messages = Append(ch.messages, AssistantMessage(Answer(ch)))
             /\ ch'.user_input = ch.user_input
    <3> DEFINE m == AssistantMessage(Answer(ch))
    <3>1. m \in Message /\ m.role = "assistant" /\ m.turn = Now
      BY <1>t, AnswerType DEF AssistantMessage, Answer, Now
    <3>2. Upto = 1 /\ Upto' = 2 /\ Len(ch.messages) = Before + 1
      BY <1>t, <2>7 DEF Upto, Before
    <3> HIDE DEF m
    <3>3. /\ Len(ch'.messages) = Len(ch.messages) + 1
          /\ \A i \in 1..Len(ch.messages) : ch'.messages[i] = ch.messages[i]
          /\ ch'.messages[Len(ch.messages) + 1] = m
      BY <1>t, <2>7, <3>1 DEF m
    <3>4. ch.messages[Len(ch.messages)] = [role |-> "user", turn |-> m.turn, kind |-> "none"]
      BY <2>2, <3>1, <3>2 DEF UserMessage, Now
    <3>5. IsDialogue(ch'.messages)
      BY <1>t, <1>d, <2>2, <2>7, <3>1, <3>2, <3>4, AnswerAppended DEF m
    <3>6. IsPrefixUpTo(ckpt[thread].messages, ch'.messages, Before)
      BY <1>t, <2>2, <2>7, <3>1, PrefixKept DEF m
    <3>7. Before' = Before
      BY <1>t, <3>2, <3>3 DEF Before
    <3> QED BY <2>2, <2>7, <3>2, <3>3, <3>5, <3>6, <3>7 DEF m
  <2>8. CASE pc = "memory_manager" /\ pc' = "END" /\ ch' = ch
    <3>1. Upto = 2 /\ Upto' = 2 /\ Before' = Before
      BY <2>8 DEF Upto, Before
    <3> QED BY <1>d, <2>2, <2>8, <3>1
  <2> QED BY <1>1, <2>4, <2>5, <2>6, <2>7, <2>8, NodeSays
<1>2. CASE Node /\ pc' = "idle"
  <2>1. thread' = thread /\ ch' = ch /\ ckpt' = [ckpt EXCEPT ![thread] = ch]
    BY <1>2, NodeEnds
  <2>2. \A t \in Threads : ckpt'[t] = IF t = thread THEN ch ELSE ckpt[t]
    BY <2>1 DEF TypeInv, TypeOK
  <2> QED BY <1>2, <1>t, <1>d, <2>1, <2>2 DEF HistoryInv, DialogueWellFormed
<1>3. CASE Ask
  <2>1. /\ ch'.messages = ckpt[thread].messages /\ Now' = turn + 1
        /\ thread' = thread /\ ckpt' = ckpt /\ pc' = "clarification_resolver"
    BY <1>3, <1>t DEF Ask, ResumedChannels, Channels, Now
  <2>2. \A i \in 1..Len(ckpt[thread].messages) : ckpt[thread].messages[i].turn \in 1..turn
    <3>1. \A i \in DOMAIN ckpt[thread].messages : ckpt[thread].messages[i].turn \in 1..turn
      BY <1>t DEF IsolationInv, OwnPast, Asked
    <3> QED BY <1>t, <3>1
  <2>3. Upto' = 0 /\ Before' = Len(ckpt[thread].messages) /\ Len(ckpt[thread].messages) \in Nat
    BY <1>t, <2>1 DEF Upto, Before
  <2>4. \A i \in 1..Before' : ch'.messages[i].turn < Now'
    BY <1>t, <2>1, <2>2, <2>3
  <2>5. IsPrefixUpTo(ckpt[thread].messages, ch'.messages, Before')
    BY <2>1, <2>3 DEF IsPrefixUpTo
  <2>6. DialogueWellFormed'
    BY <1>t, <1>d, <2>1 DEF DialogueWellFormed
  <2> QED BY <2>1, <2>3, <2>4, <2>5, <2>6 DEF HistoryInv
<1>4. CASE NewThread \/ Crash
  <2>1. pc' = "idle" /\ ckpt' = ckpt /\ thread' \in Threads /\ ch' = ckpt[thread']
    BY <1>4, ThreadsAssumption DEF NewThread, Crash
  <2> QED BY <1>d, <2>1 DEF HistoryInv, DialogueWellFormed
<1>5. CASE Checkpoint
  <2>1. /\ pc # "idle" /\ pc' = pc /\ ch' = ch /\ thread' = thread
        /\ ckpt' = [ckpt EXCEPT ![thread] = ch]
    BY <1>5 DEF Checkpoint
  <2>2. \A t \in Threads : ckpt'[t] = IF t = thread THEN ch ELSE ckpt[t]
    BY <2>1 DEF TypeInv, TypeOK
  <2>3. Upto' = Upto /\ Before' = Before /\ Now' = Now /\ Upto \in 0..2
    BY <2>1 DEF Upto, Before, Now
  <2>4. IsPrefixUpTo(ch.messages, ch.messages, Before)
    <3>1. Before \in Nat /\ Before <= Len(ch.messages)
      BY <1>t, <2>1, <2>3 DEF HistoryInv, Before
    <3> QED BY <1>t, <3>1 DEF IsPrefixUpTo
  <2> QED BY <1>t, <1>d, <2>1, <2>2, <2>3, <2>4 DEF HistoryInv, DialogueWellFormed
<1>6. CASE UNCHANGED vars
  BY <1>6 DEF vars, HistoryInv, DialogueWellFormed, IsDialogue, Before, Upto, Now, IsPrefixUpTo
<1> QED BY <1>1, <1>2, <1>3, <1>4, <1>5, <1>6 DEF Next

(* The invariants of the conversation hold together.                       *)
LEMMA HistoryAlways == Spec => [](TypeInv /\ IsolationInv /\ LogInv /\ HistoryInv)
BY TypeInit, TypeStep, IsolationInit, IsolationStep, LogInit, LogStep, HistoryInit, HistoryStep,
   PTL DEF Spec

(* Questions appear once and in order, and an answer directly follows its  *)
(* question, in memory and in every durable copy, wherever a crash or an   *)
(* escaped exception cut a turn.                                           *)
THEOREM AlwaysADialogue == Spec => []DialogueWellFormed
<1>1. HistoryInv => DialogueWellFormed
  BY DEF HistoryInv
<1> QED BY <1>1, HistoryAlways, PTL

-----------------------------------------------------------------------------
(* Recall.                                                                 *)

(* What a recall answer quotes is not the question being answered, when    *)
(* that is the last message and every other is older: a quoted question    *)
(* has one after it, and a quoted answer is no question.                   *)
LEMMA QuotesAreOlder ==
  ASSUME NEW messages \in Seq(Message), NEW topic, NEW q \in RecallQuotes(messages, topic),
         messages[Len(messages)].role = "user"
  PROVE  \E i \in DOMAIN messages : i # Len(messages) /\ q = messages[i].turn
<1> DEFINE asked == PositionsOf(messages, "user")
           prior == {i \in asked : \E j \in asked : j > i}
           given == PositionsOf(messages, "assistant")
           older == DOMAIN messages \ {Len(messages)}
<1>1. prior \subseteq older
  <2>1. ASSUME NEW i \in asked, NEW j \in asked, j > i PROVE i # Len(messages)
    BY <2>1 DEF PositionsOf
  <2> QED BY <2>1 DEF PositionsOf
<1>2. given \subseteq older
  BY DEF PositionsOf
<1>3. ASSUME NEW S \in SUBSET older, NEW n
      PROVE  TurnsOfLast(messages, S, n) \subseteq {messages[i].turn : i \in older}
  BY DEF TurnsOfLast
<1>4. q \in {messages[i].turn : i \in older}
  <2>1. \/ q \in TurnsOfLast(messages, prior, 1)
        \/ q \in TurnsOfLast(messages, given, 1)
        \/ q \in TurnsOfLast(messages, prior, 5)
    <3> HIDE DEF asked, given
    <3> QED BY DEF RecallQuotes, asked, given
  <2> HIDE DEF prior, given, older
  <2> QED BY <1>1, <1>2, <1>3, <2>1
<1> QED BY <1>4

(* Every step keeps what a delivered recall quotes in the past.            *)
LEMMA RecallStep ==
  TypeInv /\ IsolationInv /\ LogInv /\ HistoryInv /\ RecallQuotesThePast /\ [Next]_vars
    => RecallQuotesThePast'
<1> SUFFICES ASSUME TypeInv, IsolationInv, LogInv, HistoryInv, RecallQuotesThePast, [Next]_vars,
                    Delivered', ch'.response.kind = "recall",
                    NEW q \in ch'.response.quotes
             PROVE  q \in 1..(Now' - 1) /\ log'[q].thread = thread'
  BY DEF RecallQuotesThePast
<1>1. CASE Node /\ pc' # "idle"
  <2>1. /\ pc # "idle" /\ thread' = thread /\ log' = log /\ Now' = Now
    BY <1>1, NodeStays
  <2>2. CASE pc = "memory_manager" /\ ch' = ch
    BY <2>1, <2>2 DEF Delivered, RecallQuotesThePast
  <2>3. CASE pc = "response_generator" /\ ch'.response = Answer(ch)
    <3>1. q \in RecallQuotes(ch.messages, ch.plan.topic)
      BY <2>3 DEF Answer
    <3>2. /\ Upto = 1 /\ Len(ch.messages) = Before + 1 /\ Before \in Nat
          /\ ch.messages[Len(ch.messages)].role = "user" /\ ch.messages \in Seq(Message)
      <4>1. Upto = 1 /\ ch.messages \in Seq(Message)
        BY <2>3 DEF Upto, TypeInv, TypeOK, Channels
      <4>2. Len(ch.messages) = Before + 1
        BY <4>1 DEF Before
      <4> QED BY <2>1, <4>1, <4>2 DEF HistoryInv, UserMessage
    <3>3. PICK i \in DOMAIN ch.messages : i # Len(ch.messages) /\ q = ch.messages[i].turn
      BY <3>1, <3>2, QuotesAreOlder
    <3>4. q < Now
      <4>1. i \in 1..Before
        BY <3>2, <3>3
      <4> QED BY <2>1, <3>3, <4>1 DEF HistoryInv
    <3>5. Asked(q, thread)
      BY <3>3 DEF IsolationInv, OwnPast
    <3>6. Now = turn /\ turn \in Nat
      BY <2>1 DEF LogInv, TypeInv, TypeOK
    <3> QED BY <2>1, <3>4, <3>5, <3>6 DEF Asked
  <2> QED BY <1>1, <2>2, <2>3, NodeSays DEF Delivered
<1>2. CASE Ask \/ NewThread \/ Crash \/ pc' = "idle"
  BY <1>2 DEF Ask, NewThread, Crash, Delivered
<1>3. CASE Checkpoint \/ UNCHANGED vars
  BY <1>3 DEF Checkpoint, vars, Delivered, RecallQuotesThePast, Now
<1> QED BY <1>1, <1>2, <1>3 DEF Next

(* A recall answer quotes turns before its own, of its own thread.         *)
THEOREM RecallAlwaysQuotesThePast == Spec => []RecallQuotesThePast
<1>1. Init => RecallQuotesThePast
  BY DEF Init, RecallQuotesThePast, Delivered
<1> QED BY <1>1, RecallStep, HistoryAlways, PTL DEF Spec

-----------------------------------------------------------------------------
(* The long-term memory.                                                   *)

(* Initially nothing is computed or remembered.                            *)
LEMMA MemoryInit == Init => ComputedInv /\ MemoryInv
BY DEF Init, ComputedInv, Concluding, MemoryInv, MemoriesAreUsable

(* Every step aggregates steps of the plan only.                           *)
LEMMA ComputedStep ==
  TypeInv /\ TurnInv /\ ComputedInv /\ [Next]_vars => ComputedInv'
<1> SUFFICES ASSUME TypeInv, TurnInv, ComputedInv, [Next]_vars PROVE ComputedInv'
  OBVIOUS
<1>t. ch \in Channels /\ ch' \in Channels
  BY TypeBoth
<1>1. CASE pc' \notin {"context_builder"} \cup Concluding
  BY <1>1 DEF ComputedInv
<1>2. CASE EntityResolver
  <2>1. ch'.analytics = ch.analytics
    BY <1>2, <1>t DEF EntityResolver, Resolution, Channels
  <2>2. NotComputed(ch)
    BY <1>2 DEF EntityResolver, TurnInv, EntriesInv
  <2> QED BY <2>1, <2>2 DEF NotComputed, ComputedInv
<1>3. CASE Analytics
  <2>1. NotComputed(ch)
    BY <1>3 DEF Analytics, TurnInv, EntriesInv, Calling
  <2>2. /\ ch'.plan = ch.plan
        /\ ch'.analytics \in {ch.analytics, AnalyticsResults(ch.plan, Latest(ch), Now)}
    BY <1>3, <1>t DEF Analytics, Channels
  <2>3. \A s \in StepIds : ~AnalyticsResults(ch.plan, Latest(ch), Now)[s].present
                             \/ s \in AggregateSteps(ch.plan)
    BY DEF AnalyticsResults, NoAnalytic
  <2> QED BY <2>1, <2>2, <2>3 DEF NotComputed, ComputedInv
<1>4. CASE ContextBuilder \/ ResponseValidator \/ ResponseGenerator \/ MemoryManager
  <2>1. ch'.plan = ch.plan /\ ch'.analytics = ch.analytics
        /\ pc \in {"context_builder"} \cup Concluding
    BY <1>4, <1>t DEF ContextBuilder, ResponseValidator, ResponseGenerator, MemoryManager,
                      Channels, Concluding
  <2> QED BY <2>1 DEF ComputedInv
<1>5. CASE Checkpoint \/ UNCHANGED vars
  BY <1>5 DEF Checkpoint, vars, ComputedInv
<1> QED BY <1>1, <1>2, <1>3, <1>4, <1>5
        DEF Next, Node, Ask, NewThread, Crash, ClarificationResolver, Planner,
            EntityResolverRaises, ApiSelector, Executor, ExecutorRaises, RelationshipResolver,
            RelationshipResolverRaises, ResponseGeneratorRaises, JoinOne, JoinDone, EndTurn,
            Raise, Goto, Concluding

(* Small talk calls nothing and shows nothing, so its verdict is no_plan:  *)
(* only an answer with something to it has the verdict "ok".               *)
LEMMA UsableAnswer ==
  ASSUME TypeInv, TurnInv, ComputedInv, Delivered, ch.verdict = "ok"
  PROVE  ch.response.kind \in {"clarification", "recall", "analytics", "generated"}
<1>1. /\ ch.response.kind = AnswerKindOf(ch) /\ ch.verdict = VerdictOf(ch.context)
      /\ ch.context = ContextOf(ch.plan, ch.clarification.needed, ch.analytics, Latest(ch))
      /\ Sound(ch.plan, ch.results) /\ Sound(ch.plan, ch.linked)
      /\ ch.clarification.needed => ch.plan.intent # "chat"
  BY DEF Delivered, TurnInv, PendingInv, EntriesInv, AnswerInv, Concluding
<1>2. ch.plan.intent # "chat"
  <2> SUFFICES ASSUME ch.plan.intent = "chat" PROVE FALSE
    OBVIOUS
  <2>1. ch.plan.steps = <<>>
    BY PlansAssumption DEF TypeInv, TypeOK, Channels, NoPlan
  <2>2. Computed(ch.analytics) = {}
    <3>1. AggregateSteps(ch.plan) = {}
      BY <2>1 DEF AggregateSteps, StepsOfKind
    <3> QED BY <3>1 DEF Computed, ComputedInv, Delivered, Concluding
  <2>3. ch.context = DataContext(ch.plan, Latest(ch))
    BY <1>1, <2>2 DEF ContextOf
  <2>4. \A s \in StepIds : Latest(ch)[s] = AbsentEntry
    BY <1>1, <2>1 DEF Latest, Sound
  <2>5. ASSUME NEW s \in StepIds
        PROVE  ch.context.blocks[s] = "hidden" /\ ch.context.focus[s] = "none"
    BY <2>3, <2>4 DEF DataContext, BlockOf, FocusOf, AbsentEntry
  <2>6. ch.context.kind = "data"
    BY <2>3 DEF DataContext
  <2>7. VerdictOf(ch.context) = "no_plan"
    BY <2>5, <2>6 DEF VerdictOf
  <2> QED BY <1>1, <2>7
<1> QED BY <1>1, <1>2 DEF AnswerKindOf

(* Every step keeps the memories usable.                                   *)
LEMMA MemoryStep ==
  TypeInv /\ IsolationInv /\ LogInv /\ TurnInv /\ ComputedInv /\ MemoryInv /\ [Next]_vars
    => MemoryInv'
<1> SUFFICES ASSUME TypeInv, IsolationInv, LogInv, TurnInv, ComputedInv, MemoryInv, [Next]_vars
             PROVE  MemoryInv'
  OBVIOUS
<1>t. ch \in Channels /\ ch' \in Channels
  BY TypeBoth
<1>1. CASE memory' = memory /\ (pc' \in {"idle", "END"} \/ (pc \notin {"idle",
"END"} /\ Now' = Now))
  BY <1>1 DEF MemoryInv, MemoriesAreUsable
<1>2. CASE MemoryManager
  <2> DEFINE m == MemoryOf(ch, thread)
  <2>1. memory' = memory \/ (memory' = memory \cup {m} /\ ch.verdict = "ok")
    BY <1>2 DEF MemoryManager, ShouldSave
  <2>2. m.question.turn = Now /\ m.kind = ch.response.kind /\ m.answer = ch.response.turn
    BY DEF MemoryOf, Now
  <2>3. ch.response.turn = Now /\ Delivered
    BY <1>2 DEF MemoryManager, Delivered, TurnInv, AnswerInv
  <2>4. pc = "memory_manager" /\ pc' = "END"
    BY <1>2 DEF MemoryManager, Goto
  <2>5. \A n \in memory : n.question.turn # Now
    BY <2>4 DEF MemoryInv
  <2>6. CASE memory' = memory \cup {m} /\ ch.verdict = "ok"
    <3>1. m.kind \in {"clarification", "recall", "analytics", "generated"}
      BY <2>2, <2>3, <2>6, UsableAnswer
    <3> HIDE DEF m
    <3> QED BY <2>2, <2>3, <2>4, <2>5, <2>6, <3>1 DEF MemoryInv, MemoriesAreUsable
  <2> QED BY <1>1, <2>1, <2>4, <2>6
<1>3. CASE Ask
  <2>1. Now' = turn + 1 /\ memory' = memory /\ turn \in Nat
    BY <1>3 DEF Ask, ResumedChannels, Channels, Now, TypeInv, TypeOK
  <2>2. \A m \in memory : m.question.turn \in 1..turn
    BY DEF IsolationInv, Asked
  <2>3. \A m \in memory : m.question.turn # Now'
    BY <2>1, <2>2
  <2> QED BY <2>1, <2>3 DEF MemoryInv, MemoriesAreUsable
<1>4. CASE Node /\ pc' # "idle" /\ ~MemoryManager
  <2>1. Now' = Now /\ pc # "idle"
    BY <1>4, NodeStays
  <2>2. memory' = memory /\ pc # "END"
    BY <1>4 DEF Node, ClarificationResolver, Planner, EntityResolver, EntityResolverRaises,
                ApiSelector, Executor, ExecutorRaises, RelationshipResolver,
                RelationshipResolverRaises, ResponseGeneratorRaises, JoinOne, JoinDone,
                Analytics, ContextBuilder,
                ResponseValidator, ResponseGenerator, EndTurn, Raise, OnlyChannels
  <2> QED BY <1>1, <2>1, <2>2
<1>5. CASE Node /\ pc' = "idle"
  BY <1>1, <1>5, NodeEnds
<1>6. CASE NewThread \/ Crash
  BY <1>1, <1>6 DEF NewThread, Crash
<1>7. CASE Checkpoint \/ UNCHANGED vars
  BY <1>7 DEF Checkpoint, vars, MemoryInv, MemoriesAreUsable, Now
<1> QED BY <1>2, <1>3, <1>4, <1>5, <1>6, <1>7 DEF Next

(* The long-term memory holds one row per question, with the answer to     *)
(* that question, and only of turns that had something to answer.          *)
THEOREM MemoriesAlwaysUsable == Spec => []MemoriesAreUsable
<1>1. MemoryInv => MemoriesAreUsable
  BY DEF MemoryInv
<1> QED BY <1>1, HistoryAlways, TurnAlways, MemoryInit, ComputedStep, MemoryStep, PTL DEF Spec

-----------------------------------------------------------------------------
(* The pending clarification.                                              *)

(* A turn that ends keeps a clarification pending only when its last       *)
(* message asks for it.                                                    *)
LEMMA EndsAsking ==
  ASSUME TypeInv, TurnInv, HistoryInv, Node, pc' = "idle"
  PROVE  AskedLast(ch)
<1>1. CASE pc = "END"
  <2>1. ch.clarification.needed => ch.response.kind = "clarification"
    BY <1>1 DEF TurnInv, PendingInv, AnswerInv, Concluding, Delivered, ContextOf, NoContext,
                AnswerKindOf
  <2>2. /\ Upto = 2 /\ Before \in Nat /\ ch.messages \in Seq(Message)
        /\ ch.messages[Before + 2] = AssistantMessage(ch.response)
    BY <1>1 DEF Upto, HistoryInv, TypeInv, TypeOK, Channels
  <2>3. Len(ch.messages) = Before + 2
    BY <2>2 DEF Before
  <2> QED BY <2>1, <2>2, <2>3 DEF AskedLast, AssistantMessage
<1>2. CASE pc \in Raising /\ (pc = "response_generator" => ch.plan.intent = "chat")
  BY <1>2 DEF Raising, TurnInv, PendingInv, Calling, Concluding, AskedLast
<1> QED BY <1>1, <1>2, NodeEnds

(* Without a crash, every step keeps a pending clarification the last      *)
(* thing said in its thread.                                               *)
LEMMA PendingAskedStep ==
  ASSUME MaxCrashes = 0
  PROVE  TypeInv /\ TurnInv /\ HistoryInv /\ PendingAskedInv /\ [Next]_vars => PendingAskedInv'
<1> SUFFICES ASSUME TypeInv, TurnInv, HistoryInv, PendingAskedInv, [Next]_vars
             PROVE  PendingAskedInv'
  OBVIOUS
<1>1. CASE Node /\ pc' # "idle"
  BY <1>1, NodeStays DEF PendingAskedInv
<1>2. CASE Node /\ pc' = "idle"
  <2>1. /\ thread' = thread /\ crashes' = crashes
        /\ \A t \in Threads : ckpt'[t] = IF t = thread THEN ch ELSE ckpt[t]
    BY <1>2, NodeEnds DEF TypeInv, TypeOK
  <2>2. AskedLast(ch)
    BY <1>2, EndsAsking
  <2> QED BY <2>1, <2>2 DEF PendingAskedInv
<1>3. CASE Ask \/ NewThread
  BY <1>3 DEF Ask, NewThread, PendingAskedInv
<1>4. CASE Checkpoint
  <2>1. /\ pc # "idle" /\ pc' = pc /\ thread' = thread /\ crashes' = crashes
        /\ \A t \in Threads : ckpt'[t] = IF t = thread THEN ch ELSE ckpt[t]
    BY <1>4 DEF Checkpoint, TypeInv, TypeOK
  <2> QED BY <2>1 DEF PendingAskedInv
<1>5. CASE UNCHANGED vars
  BY <1>5 DEF vars, PendingAskedInv
<1>6. CASE Crash
  BY <1>6 DEF Crash, PendingAskedInv
<1> QED BY <1>1, <1>2, <1>3, <1>4, <1>5, <1>6 DEF Next

(* As long as the process does not die, a clarification pending between    *)
(* turns is the last thing the agent said in the thread.  (A crash before  *)
(* the answer is saved breaks it: the run unasked shows how.)              *)
THEOREM PendingAlwaysAsked ==
  ASSUME MaxCrashes = 0
  PROVE  Spec => []PendingWasAsked
<1>1. Init => PendingAskedInv
  BY DEF Init, PendingAskedInv, AskedLast, EmptyChannels, NotNeeded
<1>2. TypeInv /\ HistoryInv /\ PendingAskedInv => PendingWasAsked
  BY DEF TypeInv, TypeOK, HistoryInv, PendingAskedInv, AskedLast, PendingWasAsked
<1>3. TypeInv /\ TurnInv /\ HistoryInv /\ PendingAskedInv /\ [Next]_vars => PendingAskedInv'
  BY PendingAskedStep
<1> QED BY <1>1, <1>2, <1>3, HistoryAlways, TurnAlways, PTL DEF Spec

-----------------------------------------------------------------------------
(* The refinement of Conversation.                                         *)

History == [t \in Threads |-> Talk(ckpt[t].messages)]
Uttered == [role : {"user", "assistant"}, turn : 0..MaxTurns]

(* A history, without what its messages say, is as long as it was.         *)
LEMMA TalkType ==
  ASSUME NEW messages \in Seq(Message)
  PROVE  /\ Talk(messages) \in Seq(Uttered) /\ Len(Talk(messages)) = Len(messages)
         /\ DOMAIN Talk(messages) = 1..Len(messages)
         /\ \A i \in 1..Len(messages) :
              Talk(messages)[i] = [role |-> messages[i].role, turn |-> messages[i].turn]
<1> DEFINE said(i) == [role |-> messages[i].role, turn |-> messages[i].turn]
<1>1. /\ Len(messages) \in Nat /\ DOMAIN messages = 1..Len(messages)
      /\ \A i \in 1..Len(messages) : messages[i] \in Message
  OBVIOUS
<1>2. \A i \in 1..Len(messages) : said(i) \in Uttered
  BY <1>1 DEF Message, Uttered
<1> HIDE DEF said
<1>3. Talk(messages) = [i \in 1..Len(messages) |-> said(i)]
  BY <1>1 DEF Talk, said
<1>4. [i \in 1..Len(messages) |-> said(i)] \in Seq(Uttered)
  BY <1>1, <1>2
<1>5. Len([i \in 1..Len(messages) |-> said(i)]) = Len(messages)
  BY <1>1
<1> QED BY <1>3, <1>4, <1>5 DEF said

(* What is durable of the exchange of the running turn is what of it the   *)
(* durable history has beyond the past.                                    *)
LEMMA RecordedSoFar ==
  ASSUME TypeInv, IsolationInv, LogInv, HistoryInv, TurnInv, pc # "idle"
  PROVE  /\ log[Now].thread = thread /\ thread \in Threads /\ Now \in Turns
         /\ Abstract!Recorded(Now) = Len(ckpt[thread].messages) - Before
         /\ Abstract!Recorded(Now) \in 0..Upto /\ Upto \in 0..2
         /\ \A i \in 1..Upto : [role |-> ch.messages[Before + i].role,
                                turn |-> ch.messages[Before + i].turn] = Abstract!Exchange(Now)[i]
<1> DEFINE saved == ckpt[thread].messages
           said == Talk(saved)
<1>1. /\ thread \in Threads /\ Now = turn /\ turn \in Nat
      /\ log[Now].thread = thread /\ Now \in 1..turn /\ 1..turn \subseteq Turns
      /\ ch.messages \in Seq(Message) /\ saved \in Seq(Message) /\ Upto \in 0..2
  BY BoundsAssumption DEF IsolationInv, LogInv, TypeInv, TypeOK, Channels, Asked, Now, Upto, Turns
<1>2. /\ Before \in Nat /\ Len(ch.messages) = Before + Upto
      /\ Len(saved) \in Before..Len(ch.messages)
      /\ \A i \in 1..Len(saved) : saved[i] = ch.messages[i]
      /\ \A i \in 1..Before : ch.messages[i].turn < Now
      /\ Upto >= 1 => ch.messages[Before + 1] = UserMessage(ch.user_input)
      /\ Upto = 2 => ch.messages[Before + 2] = AssistantMessage(ch.response)
  <2>1. Len(ch.messages) = Before + Upto
    BY <1>1 DEF Before
  <2> QED BY <2>1 DEF HistoryInv, IsPrefixUpTo
<1>3. ASSUME NEW i \in 1..Upto
      PROVE  [role |-> ch.messages[Before + i].role, turn |-> ch.messages[Before + i].turn]
               = Abstract!Exchange(Now)[i]
  <2>1. CASE i = 1
    BY <1>2, <2>1 DEF UserMessage, Now, Abstract!Exchange, Abstract!Said
  <2>2. CASE i = 2
    <3>1. Upto = 2 /\ Delivered
      BY <1>1, <2>2 DEF Upto, Delivered
    <3>2. ch.response.turn = Now
      BY <3>1 DEF TurnInv, AnswerInv
    <3> QED BY <1>2, <2>2, <3>1, <3>2 DEF AssistantMessage, Abstract!Exchange, Abstract!Said
  <2> QED BY <1>1, <2>1, <2>2
<1>4. Len(saved) - Before \in 0..Upto
  <2>1. Before \in Nat /\ Upto \in Nat /\ Len(saved) \in Before..(Before + Upto)
    BY <1>1, <1>2
  <2> HIDE DEF saved
  <2> QED BY <2>1
<1>5. /\ DOMAIN said = 1..Len(saved)
      /\ \A i \in 1..Before :
           i \in 1..Len(saved) => said[i] # Abstract!Exchange(Now)[1]
                                  /\ said[i] # Abstract!Exchange(Now)[2]
      /\ \A i \in 1..Upto : Before + i \in 1..Len(saved)
                              => said[Before + i] = Abstract!Exchange(Now)[i]
  <2>1. /\ DOMAIN said = 1..Len(saved)
        /\ \A i \in 1..Len(saved) : said[i] = [role |-> saved[i].role, turn |-> saved[i].turn]
    <3> HIDE DEF saved
    <3> QED BY <1>1, TalkType
  <2> HIDE DEF saved, said
  <2>2. ASSUME NEW i \in 1..Before, i \in 1..Len(saved)
        PROVE  said[i] # Abstract!Exchange(Now)[1] /\ said[i] # Abstract!Exchange(Now)[2]
    <3>1. said[i].turn < Now
      <4>1. ch.messages[i].turn < Now /\ saved[i] = ch.messages[i]
        BY <1>2, <2>2
      <4>2. said[i].turn = saved[i].turn
        BY <2>1, <2>2
      <4> QED BY <4>1, <4>2
    <3> QED BY <1>1, <3>1 DEF Abstract!Exchange, Abstract!Said
  <2>3. ASSUME NEW i \in 1..Upto, Before + i \in 1..Len(saved)
        PROVE  said[Before + i] = Abstract!Exchange(Now)[i]
    <3>1. saved[Before + i] = ch.messages[Before + i]
      BY <1>2, <2>3
    <3> QED BY <1>3, <2>1, <2>3, <3>1
  <2> QED BY <2>1, <2>2, <2>3
<1>6. Abstract!Recorded(Now) = Len(saved) - Before
  <2>1. History[log[Now].thread] = said
    BY <1>1 DEF History
  <2>2. \A m : Abstract!IsDurable(m, Now) <=> \E i \in DOMAIN said : said[i] = m
    BY <2>1 DEF Abstract!IsDurable, History
  <2>3. Abstract!Exchange(Now)[1] # Abstract!Exchange(Now)[2]
    BY DEF Abstract!Exchange, Abstract!Said
  <2> DEFINE first == Abstract!Exchange(Now)[1]
             second == Abstract!Exchange(Now)[2]
  <2> HIDE DEF saved, said, first, second
  <2>4. Abstract!Recorded(Now) = IF \E i \in DOMAIN said : said[i] = second THEN 2
                                 ELSE IF \E i \in DOMAIN said : said[i] = first THEN 1 ELSE 0
    BY <2>2 DEF Abstract!Recorded, first, second
  <2>5. CASE Len(saved) = Before
    <3>1. \A i \in DOMAIN said : i \in 1..Before /\ i \in 1..Len(saved)
      BY <1>5, <2>5
    <3>2. \A i \in DOMAIN said : said[i] # second /\ said[i] # first
      BY <1>5, <3>1 DEF first, second
    <3> QED BY <1>2, <2>4, <2>5, <3>2
  <2>6. CASE Len(saved) = Before + 1
    <3>1. 1 \in 1..Upto /\ Before + 1 \in DOMAIN said /\ said[Before + 1] = first
      BY <1>2, <1>4, <1>5, <2>6 DEF first
    <3>2. \A i \in DOMAIN said : i = Before + 1 \/ (i \in 1..Before /\ i \in 1..Len(saved))
      BY <1>2, <1>5, <2>6
    <3>3. \A i \in DOMAIN said : said[i] # second
      BY <1>5, <2>3, <3>1, <3>2 DEF first, second
    <3> QED BY <1>2, <2>4, <2>6, <3>1, <3>3
  <2>7. CASE Len(saved) = Before + 2
    <3>1. 2 \in 1..Upto /\ Before + 2 \in DOMAIN said /\ said[Before + 2] = second
      BY <1>2, <1>4, <1>5, <2>7 DEF second
    <3> QED BY <1>2, <2>4, <2>7, <3>1
  <2> QED BY <1>1, <1>2, <1>4, <2>5, <2>6, <2>7
<1> QED BY <1>1, <1>3, <1>4, <1>6


(* Saving the channels of a running turn appends to the durable history    *)
(* what it lacked of the exchange, and nothing else.                       *)
LEMMA ExchangeSaved ==
  ASSUME TypeInv, IsolationInv, LogInv, HistoryInv, TurnInv, pc # "idle",
         ckpt' = [ckpt EXCEPT ![thread] = ch]
  PROVE  /\ Abstract!Record(Now, Upto)
         /\ Abstract!Recorded(Now) = Upto => History' = History
<1> DEFINE saved == ckpt[thread].messages
           said == Talk(saved)
           long == Talk(ch.messages)
           E == Abstract!Exchange(Now)
           r == Abstract!Recorded(Now)
           add == SubSeq(E, r + 1, Upto)
<1>1. /\ log[Now].thread = thread /\ thread \in Threads /\ Now \in Turns
      /\ r = Len(saved) - Before /\ r \in 0..Upto /\ Upto \in 0..2
      /\ \A i \in 1..Upto : [role |-> ch.messages[Before + i].role,
                             turn |-> ch.messages[Before + i].turn] = E[i]
  BY RecordedSoFar
<1>2. /\ ch.messages \in Seq(Message) /\ saved \in Seq(Message)
      /\ Len(saved) \in Nat /\ Len(ch.messages) \in Nat
  BY <1>1 DEF TypeInv, TypeOK, Channels
<1>3. /\ Len(ch.messages) = Before + Upto /\ Before \in Nat
      /\ \A i \in 1..Len(saved) : saved[i] = ch.messages[i]
  <2>1. Len(ch.messages) = Before + Upto
    BY <1>1, <1>2 DEF Before
  <2> QED BY <2>1 DEF HistoryInv, IsPrefixUpTo
<1>4. /\ said \in Seq(Uttered) /\ Len(said) = Len(saved)
      /\ long \in Seq(Uttered) /\ Len(long) = Len(ch.messages)
      /\ \A i \in 1..Len(saved) : said[i] = [role |-> saved[i].role, turn |-> saved[i].turn]
      /\ \A i \in 1..Len(ch.messages) :
           long[i] = [role |-> ch.messages[i].role, turn |-> ch.messages[i].turn]
  <2> HIDE DEF saved
  <2> QED BY <1>2, TalkType
<1>5. E[1] \in Uttered /\ E[2] \in Uttered
  BY <1>1, BoundsAssumption DEF Abstract!Exchange, Abstract!Said, Uttered, Turns
<1>6. /\ add \in Seq(Uttered) /\ Len(add) = Upto - r
      /\ \A i \in 1..(Upto - r) : add[i] = E[r + i]
  <2> HIDE DEF E, r
  <2>1. r + 1 \in Int /\ Upto \in Int /\ \A i \in (r + 1)..Upto : E[i] \in Uttered
    <3>1. \A i \in (r + 1)..Upto : i \in {1, 2}
      BY <1>1
    <3> QED BY <1>1, <1>5, <3>1
  <2>2. /\ add \in Seq(Uttered)
        /\ Len(add) = IF r + 1 <= Upto THEN Upto - (r + 1) + 1 ELSE 0
        /\ \A i \in 1..(Upto - (r + 1) + 1) : add[i] = E[(r + 1) + i - 1]
    BY <2>1, SubSeqProperties
  <2> HIDE DEF add
  <2>3. /\ Upto - (r + 1) + 1 = Upto - r
        /\ \A i \in 1..(Upto - r) : (r + 1) + i - 1 = r + i
    BY <1>1
  <2>4. Len(add) = Upto - r
    BY <1>1, <2>2
  <2> QED BY <2>2, <2>3, <2>4
<1> HIDE DEF saved, said, long, E, r, add
<1>7. long = said \o add
  <2>1. /\ said \o add \in Seq(Uttered)
        /\ Len(said \o add) = Len(said) + Len(add)
        /\ \A i \in 1..(Len(said) + Len(add)) :
             (said \o add)[i] = IF i <= Len(said) THEN said[i] ELSE add[i - Len(said)]
    <3>1. said \in Seq(Uttered) /\ add \in Seq(Uttered)
      BY <1>4, <1>6
    <3> QED BY <3>1, ConcatProperties
  <2>2. Len(said) + Len(add) = Len(long)
    BY <1>1, <1>2, <1>3, <1>4, <1>6
  <2>3. ASSUME NEW i \in 1..Len(long) PROVE long[i] = (said \o add)[i]
    <3>1. long[i] = [role |-> ch.messages[i].role, turn |-> ch.messages[i].turn]
      BY <1>4, <2>3
    <3>2. CASE i <= Len(said)
      <4>1. i \in 1..Len(saved) /\ (said \o add)[i] = said[i]
        BY <1>2, <1>4, <2>1, <2>2, <2>3, <3>2
      <4>2. said[i] = [role |-> saved[i].role, turn |-> saved[i].turn] /\ saved[i] = ch.messages[i]
        BY <1>3, <1>4, <4>1
      <4> QED BY <3>1, <4>1, <4>2
    <3>3. CASE ~(i <= Len(said))
      <4>1. /\ i - Len(said) \in 1..(Upto - r) /\ r + (i - Len(said)) = i - Before
            /\ i - Before \in 1..Upto /\ Before + (i - Before) = i
        BY <1>1, <1>2, <1>3, <1>4, <2>3, <3>3
      <4>2. (said \o add)[i] = add[i - Len(said)]
        BY <2>1, <2>2, <2>3, <3>3
      <4>3. add[i - Len(said)] = E[i - Before]
        BY <1>6, <4>1
      <4>4. [role |-> ch.messages[i].role, turn |-> ch.messages[i].turn] = E[i - Before]
        BY <1>1, <4>1
      <4> QED BY <3>1, <4>2, <4>3, <4>4
    <3> QED BY <3>2, <3>3
  <2> QED BY <1>4, <2>1, <2>2, <2>3, SeqEqual
<1>8. \A t \in Threads : ckpt'[t] = IF t = thread THEN ch ELSE ckpt[t]
  BY DEF TypeInv, TypeOK
<1>9. History' = [History EXCEPT ![log[Now].thread] = said \o add]
  <2>1. History' = [t \in Threads |-> IF t = thread THEN long ELSE Talk(ckpt[t].messages)]
    BY <1>8 DEF History, long
  <2> QED BY <1>1, <1>7, <2>1 DEF History
<1>10. History[log[Now].thread] = said
  BY <1>1 DEF History, said, saved
<1>11. Abstract!Record(Now, Upto)
  BY <1>9, <1>10 DEF Abstract!Record, History, add, E, r
<1>12. ASSUME r = Upto PROVE History' = History
  <2>1. Len(add) = 0 /\ Len(said \o add) = Len(said)
    BY <1>1, <1>4, <1>6, <1>12, ConcatProperties
  <2>2. said \o add = said
    BY <1>1, <1>4, <1>6, <2>1, ConcatEmptySeq
  <2> QED BY <1>9, <1>10, <2>2 DEF History
<1> QED BY <1>11, <1>12 DEF r

(* Initially the conversation is empty.                                    *)
LEMMA ConversationInit == Init => Abstract!Init
<1> SUFFICES ASSUME Init PROVE Abstract!Init
  OBVIOUS
<1>1. Talk(EmptyChannels.messages) = <<>>
  BY DEF Talk, EmptyChannels
<1> QED BY <1>1 DEF Init, Abstract!Init, Turns

(* Every step of the pipeline is a step of the conversation, or changes    *)
(* nothing of it.                                                          *)
LEMMA ConversationStep ==
  TypeInv /\ IsolationInv /\ LogInv /\ HistoryInv /\ TurnInv /\ [Next]_vars
    => Abstract!Next \/ (History' = History /\ log' = log)
<1> SUFFICES ASSUME TypeInv, IsolationInv, LogInv, HistoryInv, TurnInv, [Next]_vars
             PROVE  Abstract!Next \/ (History' = History /\ log' = log)
  OBVIOUS
<1>t. /\ turn \in Nat /\ thread \in Threads /\ Turns = 1..MaxTurns /\ MaxTurns \in Nat
      /\ log \in [Turns -> [thread : Threads, fate : Fate]]
  BY BoundsAssumption DEF TypeInv, TypeOK, Turns
<1>r. ASSUME pc # "idle"
      PROVE  /\ Now \in 1..MaxTurns /\ Abstract!IsOpen(Now)
             /\ Abstract!Recorded(Now) \in 0..Upto /\ Upto \in 0..2
  <2>1. Now \in Turns /\ Abstract!Recorded(Now) \in 0..Upto /\ Upto \in 0..2
    BY <1>r, RecordedSoFar
  <2>2. log[Now].fate = "running"
    BY <1>r, <2>1 DEF LogInv
  <2> QED BY <1>t, <2>1, <2>2 DEF Abstract!IsOpen
<1>n. \A n \in 1..MaxTurns :
        (\E t \in Threads : Abstract!Ask(n, t)) \/ Abstract!Save(n) \/ Abstract!Answer(n)
          \/ Abstract!Report(n) \/ Abstract!Lose(n) => Abstract!Next
  BY DEF Abstract!Next
<1>1. CASE Ask
  <2>1. turn + 1 \in 1..MaxTurns /\ pc = "idle" /\ ckpt' = ckpt
        /\ log' = [log EXCEPT ![turn + 1] = [thread |-> thread, fate |-> "running"]]
    BY <1>1, <1>t DEF Ask
  <2>2. \A m \in 1..((turn + 1) - 1) : log[m].fate \notin {"unasked", "running"}
    <3>1. ASSUME NEW m \in 1..((turn + 1) - 1) PROVE m \in Turns /\ ~(m > turn)
      BY <1>t, <2>1
    <3> QED BY <2>1, <3>1 DEF LogInv
  <2>3. log[turn + 1].fate = "unasked"
    BY <1>t, <2>1 DEF LogInv
  <2>4. Abstract!Ask(turn + 1, thread)
    BY <2>1, <2>2, <2>3 DEF Abstract!Ask
  <2> QED BY <1>t, <1>n, <2>1, <2>4
<1>2. CASE NewThread \/ UNCHANGED vars
  BY <1>2 DEF NewThread, vars, History
<1>3. CASE Node /\ pc' # "idle"
  BY <1>3, NodeStays DEF History
<1>4. CASE Node /\ pc' = "idle"
  <2>1. /\ pc # "idle" /\ ckpt' = [ckpt EXCEPT ![thread] = ch]
        /\ \/ pc = "END" /\ Settle("answered")
           \/ pc \in Raising /\ Settle("reported")
    BY <1>4, NodeEnds DEF Raising
  <2>2. Abstract!Record(Now, Upto)
    BY <2>1, ExchangeSaved
  <2>3. CASE pc = "END" /\ Settle("answered")
    <3>1. Upto = 2
      BY <2>3 DEF Upto
    <3>2. Abstract!Settle(Now, "answered")
      BY <2>3 DEF Settle, Abstract!Settle
    <3>3. Abstract!Record(Now, 2)
      BY <2>2, <3>1
    <3>4. Abstract!Answer(Now)
      BY <1>r, <2>1, <3>2, <3>3 DEF Abstract!Answer
    <3> QED BY <1>n, <1>r, <2>1, <3>4
  <2>4. CASE pc \in Raising /\ Settle("reported")
    <3>1. Upto = 1
      BY <2>4 DEF Upto, Raising
    <3>2. Abstract!Settle(Now, "reported")
      BY <2>4 DEF Settle, Abstract!Settle
    <3>3. Abstract!Record(Now, 1) /\ 1 \in Abstract!Recorded(Now)..1
      BY <1>r, <2>1, <2>2, <3>1
    <3>4. Abstract!Report(Now)
      BY <1>r, <2>1, <3>2, <3>3 DEF Abstract!Report
    <3> QED BY <1>n, <1>r, <2>1, <3>4
  <2> QED BY <2>1, <2>3, <2>4
<1>5. CASE Checkpoint
  <2>1. pc # "idle" /\ ckpt' = [ckpt EXCEPT ![thread] = ch] /\ log' = log
    BY <1>5 DEF Checkpoint
  <2>2. /\ Abstract!Record(Now, Upto)
        /\ Abstract!Recorded(Now) = Upto => History' = History
    BY <2>1, ExchangeSaved
  <2>3. CASE Abstract!Recorded(Now) = Upto
    BY <2>1, <2>2, <2>3
  <2>4. CASE Abstract!Recorded(Now) # Upto
    <3>1. Upto \in (Abstract!Recorded(Now) + 1)..2
      BY <1>r, <2>1, <2>4
    <3>2. Abstract!Save(Now)
      BY <1>r, <2>1, <2>2, <3>1 DEF Abstract!Save
    <3> QED BY <1>n, <1>r, <2>1, <3>2
  <2> QED BY <2>3, <2>4
<1>6. CASE Crash
  <2>1. ckpt' = ckpt
    BY <1>6 DEF Crash
  <2>2. CASE pc = "idle"
    BY <1>6, <2>1, <2>2 DEF Crash, History
  <2>3. CASE pc # "idle"
    <3>1. Abstract!Settle(Now, "lost")
      BY <1>6, <2>3 DEF Crash, Settle, Abstract!Settle
    <3>2. Abstract!Lose(Now)
      BY <1>r, <2>1, <2>3, <3>1 DEF Abstract!Lose
    <3> QED BY <1>n, <1>r, <2>3, <3>2
  <2> QED BY <2>2, <2>3
<1> QED BY <1>1, <1>2, <1>3, <1>4, <1>5, <1>6 DEF Next

(* The pipeline implements the conversation: seen through its durable      *)
(* histories and the fates of its questions, whatever the nodes, the       *)
(* background checkpoints, escaped exceptions and crashes do, exchanges    *)
(* are appended whole or cut short by an error or a crash, never rewritten.*)
THEOREM ImplementsConversation == Spec => KeepsConversation
<1>1. TypeInv /\ IsolationInv /\ LogInv /\ HistoryInv /\ TurnInv /\ [Next]_vars
        => [Abstract!Next]_<<History, log>>
  BY ConversationStep
<1>2. Init => Abstract!Init
  BY ConversationInit
<1>3. Spec => Abstract!Init /\ [][Abstract!Next]_<<History, log>>
  BY <1>1, <1>2, HistoryAlways, TurnAlways, PTL DEF Spec
<1>4. KeepsConversation <=> Abstract!Init /\ [][Abstract!Next]_<<History, log>>
  BY DEF KeepsConversation, Abstract!Spec, History
<1> QED BY <1>3, <1>4
=============================================================================
