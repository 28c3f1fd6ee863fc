------------------------------ MODULE AgentPlan ------------------------------
(***************************************************************************)
(* The data the agent pipeline works on, and the pure part of its nodes.   *)
(*                                                                         *)
(* A plan is a sequence of steps; the id of a step is its position (the    *)
(* planner prompt numbers steps from 1).  A list of entries keyed by step  *)
(* id in the code ("resolved_entities", "selected_apis", "*_results",      *)
(* "analytics") is a function from step ids, with an "absent" value for    *)
(* the steps that have no entry.  A record of the ERP is the pair of its   *)
(* facet and its primary key.                                              *)
(***************************************************************************)
EXTENDS Integers, Sequences, FiniteSetsExt

CONSTANTS
  Facets,     \* the facets the registry knows
  Keys,       \* primary keys; every facet numbers its records independently
  NoKey,      \* Python's None where an id is expected
  Linked,     \* pairs of rows whose join keys match (JoinEngine)
  MaxSteps,   \* bound: longest plan considered
  MaxTurns    \* bound: number of questions asked

NoFacet      == "no facet"       \* step.facet is None
UnknownFacet == "unknown facet"  \* a facet the registry does not define

Row     == Facets \X Keys
StepIds == 1..MaxSteps
Turns   == 1..MaxTurns

ASSUME BoundsAssumption == MaxSteps \in Nat /\ MaxTurns \in Nat
ASSUME NamesAssumption  == /\ NoKey \notin Keys
                           /\ Facets \cap {NoFacet, UnknownFacet} = {}
ASSUME LinkedAssumption == Linked \subseteq Row \X Row

-----------------------------------------------------------------------------
(* Execution plans.                                                        *)

StepKind == {"search", "get_by_id", "list", "api", "concept", "aggregate", "join"}

(* What the registry or the semantic catalog says of step.action: nothing, *)
(* an unknown name, an endpoint, a foreign-key field, or a reverse-only    *)
(* concept (whose catalog entry has no field).                             *)
Backing == {"none", "unknown", "api", "field", "reverse"}

PlanStep == [kind    : StepKind,
             facet   : Facets \cup {NoFacet, UnknownFacet},
             deps    : Seq(StepIds),
             backing : Backing,
             needsId : BOOLEAN,              \* the endpoint has a path parameter
             serves  : Facets \cup {NoFacet}, \* endpoint.facet
             spec    : SUBSET {"join", "aggregate"}, \* which of the two specs is present
             left    : StepIds, right : StepIds,
             how     : {"inner", "left"}, emit : {"left", "right", "both"}]

PlanIntent  == {"data", "recall", "chat"}
RecallTopic == {"none", "history", "previous_question", "previous_answer", "explanation"}

ExecutionPlan == [intent : PlanIntent, topic : RecallTopic, steps : Seq(PlanStep)]

(* The ids of the steps of plan p of the given kinds, and of those with    *)
(* one of the specs, whatever their kind.                                  *)
StepsOfKind(p, kinds) == {s \in StepIds \cap DOMAIN p.steps : p.steps[s].kind \in kinds}
Specified(p, spec)    == {s \in StepIds \cap DOMAIN p.steps : spec \in p.steps[s].spec}

SearchSteps(p)    == {s \in StepsOfKind(p, {"search"}) : p.steps[s].facet # NoFacet}
JoinSteps(p)      == StepsOfKind(p, {"join"}) \cap Specified(p, "join")
AggregateSteps(p) == StepsOfKind(p, {"aggregate"}) \cap Specified(p, "aggregate")

(* The first element, in list order, of a set of step ids.                 *)
First(S) == CHOOSE s \in S : \A t \in S : s <= t

-----------------------------------------------------------------------------
(* Entity resolution.  The outcome of one search is what facets.search and *)
(* disambiguate return for it: a record (which may lack its primary key),  *)
(* ambiguity, nothing, or an error.                                        *)

SearchOutcome == [state : {"found"}, id : Keys \cup {NoKey}]
                   \cup [state : {"ambiguous", "empty", "error"}, id : {NoKey}]

AbsentEntity == [state |-> "absent", facet |-> NoFacet, id |-> NoKey]
Entity == [state : {"absent", "found", "ambiguous", "empty", "error"},
           facet : Facets \cup {NoFacet, UnknownFacet},
           id    : Keys \cup {NoKey}]

(* The searches that run: the loop breaks after the first ambiguous one.   *)
SearchesRun(p, o) ==
  {s \in SearchSteps(p) : \A t \in SearchSteps(p) : o[t].state = "ambiguous" => s <= t}

(* FacetService._require_facet raises KeyError on an unknown facet.        *)
SearchRaises(p, o) == \E s \in SearchesRun(p, o) : p.steps[s].facet = UnknownFacet

ResolvedEntities(p, o) ==
  [s \in StepIds |->
     IF s \in SearchesRun(p, o)
     THEN [state |-> o[s].state, facet |-> p.steps[s].facet, id |-> o[s].id]
     ELSE AbsentEntity]

SearchErrors(p, o) == {s \in SearchesRun(p, o) : o[s].state = "error"}
IsAmbiguous(p, o)  == \E s \in SearchesRun(p, o) : o[s].state = "ambiguous"

-----------------------------------------------------------------------------
(* API selection.                                                          *)

HasId(resolved, s) == s \in StepIds /\ resolved[s].id # NoKey

(* The first dependency with a resolved id, else the sole resolved id of   *)
(* the plan, else none.                                                    *)
ResolveId_FirstFound(step, resolved) ==
  LET known == {s \in StepIds : HasId(resolved, s)}
  IN IF known = {} THEN NoKey ELSE resolved[First(known)].id
ResolveId(step, resolved) ==
  LET direct == {n \in DOMAIN step.deps : HasId(resolved, step.deps[n])}
      known  == {s \in StepIds : HasId(resolved, s)}
  IN IF direct # {} THEN resolved[step.deps[First(direct)]].id
     ELSE IF \E s \in StepIds : known = {s}
          THEN resolved[CHOOSE s \in StepIds : known = {s}].id
          ELSE NoKey

(* What api_selector does with one step: select a call, leave a marker for *)
(* a field-backed concept, skip it, or record a ValueError.                *)
SelectionOf(step, resolved) ==
  LET id   == ResolveId(step, resolved)
      Call == [act |-> "call", id |-> id]
      No(what) == [act |-> what, id |-> NoKey]
      Endpoint == IF step.needsId /\ id = NoKey THEN No("error") ELSE Call
  IN CASE step.kind = "get_by_id" ->
            IF step.facet \notin Facets THEN No("error")
            ELSE IF id = NoKey THEN No("skip") ELSE Call
       [] step.kind = "list" ->
            IF step.facet \notin Facets THEN No("error") ELSE Call
       [] step.kind = "api" ->
            IF step.backing # "api" THEN No("error") ELSE Endpoint
       [] step.kind = "concept" ->
            IF step.facet \notin Facets \/ step.backing \in {"none", "unknown"}
            THEN No("error")
            ELSE IF step.backing = "api" THEN Endpoint ELSE No("marker")
       [] OTHER -> No("skip")

Selection == [act : {"skip", "error", "call", "marker"}, id : Keys \cup {NoKey}]
NoSelection == [act |-> "skip", id |-> NoKey]

Selections(p, resolved) ==
  [s \in StepIds |-> IF s \in DOMAIN p.steps THEN SelectionOf(p.steps[s], resolved)
                     ELSE NoSelection]

CallSteps(selected) == {s \in StepIds : selected[s].act = "call"}

(* The facet a call is labelled with: the endpoint's, if it has one.       *)
CalledFacet(step) ==
  IF step.kind \in {"api", "concept"} /\ step.serves # NoFacet THEN step.serves ELSE step.facet

-----------------------------------------------------------------------------
(* Execution.  An entry keeps what later nodes tell apart in an ApiResult: *)
(* its status, whether data is a record ("one"), a list ("many"), the text *)
(* of a body that is not JSON, or None, the rows, whether the readable     *)
(* name of the concept's foreign key is on the record, and the turn in     *)
(* which it was produced.                                                  *)

EntryKind == {"none", "get_by_id", "list", "api", "concept", "concept_field", "join"}
Entry == [kind : EntryKind, facet : Facets \cup {NoFacet, UnknownFacet},
          status : {"none", "success", "empty", "error"},
          shape : {"none", "one", "many", "text"}, rows : SUBSET Row,
          named : BOOLEAN, turn : 0..MaxTurns]
AbsentEntry == [kind |-> "none", facet |-> NoFacet, status |-> "none",
                shape |-> "none", rows |-> {}, named |-> FALSE, turn |-> 0]

CallOutcome == [status : {"success", "empty", "error"},
                shape : {"none", "one", "many", "text"}, rows : SUBSET Row]

(* Everything ApiClient.call may return for a step: data of the shape the  *)
(* endpoint serves, text, an empty list, a 404 (data None), or an error.   *)
FacetRows(f) == {r \in Row : r[1] = f}
CallOutcomes(step, id) ==
  LET target == IF step.kind = "get_by_id" THEN {<<step.facet, id>>}
                ELSE FacetRows(CalledFacet(step))
      one    == {{r} : r \in target}
      many   == (SUBSET target) \ {{}}
      success == (IF step.kind = "get_by_id" THEN {} ELSE {"many"} \X many)
                   \cup (IF step.kind \in {"get_by_id", "api"} THEN {"one"} \X one ELSE {})
                   \cup {<<"text", {}>>}
  IN {[status |-> "success", shape |-> d[1], rows |-> d[2]] : d \in success}
       \cup {[status |-> "error", shape |-> "none", rows |-> {}],
             [status |-> "empty", shape |-> "none", rows |-> {}]}
       \cup (IF step.kind = "get_by_id" THEN {}
             ELSE {[status |-> "empty", shape |-> "many", rows |-> {}]})

(* One outcome for each selected call.                                     *)
ExecutionOutcomes(p, selected) ==
  LET Of(s) == CallOutcomes(p.steps[s], selected[s].id)
  IN {o \in [CallSteps(selected) -> UNION {Of(s) : s \in CallSteps(selected)}] :
        \A s \in CallSteps(selected) : o[s] \in Of(s)}

(* The executor's results: one entry per selected call, and the markers.   *)
ExecutionResults(p, selected, o, t) ==
  [s \in StepIds |->
     CASE selected[s].act = "call" ->
            [kind |-> p.steps[s].kind, facet |-> CalledFacet(p.steps[s]),
             status |-> o[s].status, shape |-> o[s].shape, rows |-> o[s].rows,
             named |-> FALSE, turn |-> t]
       [] selected[s].act = "marker" ->
            [AbsentEntry EXCEPT !.kind = "concept_field", !.facet = p.steps[s].facet,
                                !.turn = t]
       [] OTHER -> AbsentEntry]

Succeeded(entries) == {s \in StepIds : entries[s].status = "success"}
Failed(entries)    == {s \in StepIds : entries[s].status = "error"}

(* The relationship resolver copies the entries and names the foreign keys *)
(* it could resolve, in the records of the successful ones only.           *)
ResolvedResults(entries, names) ==
  [s \in StepIds |-> IF s \in names THEN [entries[s] EXCEPT !.named = TRUE] ELSE entries[s]]

-----------------------------------------------------------------------------
(* Joins.                                                                  *)

JoinRows(entries, s) == IF entries[s].status = "success" THEN entries[s].rows ELSE {}

(* Which side's facet a join entry carries when the step names none.       *)
EmitFacet(p, step) ==
  LET side == IF step.emit = "left" THEN step.left ELSE step.right
  IN IF step.facet # NoFacet THEN step.facet
     ELSE IF side \in DOMAIN p.steps THEN p.steps[side].facet ELSE NoFacet

(* NestedLoopJoin: the pairs of rows whose keys match.                      *)
Matches(left, right) == {pair \in left \X right : pair \in Linked}

Emitted_Unmatched(step, left, right) == IF step.emit = "right" THEN right ELSE left
Emitted(step, left, right) ==
  IF step.emit = "right" THEN {pair[2] : pair \in Matches(left, right)}
  ELSE IF step.how = "left" THEN left ELSE {pair[1] : pair \in Matches(left, right)}

JoinMisses(step, entries) ==
  JoinRows(entries, step.left) = {} \/ JoinRows(entries, step.right) = {}

(* Rows keep the names their side's records were given.                    *)
KeepsNames(step, entries) ==
  \/ step.emit # "left" /\ entries[step.right].named
  \/ step.emit # "right" /\ entries[step.left].named

JoinEntry(p, s, entries, t) ==
  LET step == p.steps[s]
      rows == IF JoinMisses(step, entries) THEN {}
              ELSE Emitted(step, JoinRows(entries, step.left), JoinRows(entries, step.right))
  IN [kind |-> "join", facet |-> EmitFacet(p, step),
      status |-> IF rows = {} THEN "empty" ELSE "success",
      shape |-> "many", rows |-> rows,
      named |-> rows # {} /\ KeepsNames(step, entries), turn |-> t]

-----------------------------------------------------------------------------
(* Analytics.                                                              *)

Analytic == [present : BOOLEAN, source : 0..MaxSteps, rows : SUBSET Row, turn : 0..MaxTurns]
NoAnalytic == [present |-> FALSE, source |-> 0, rows |-> {}, turn |-> 0]

(* Position of an entry in resolved_results: join outputs come last.       *)
ListOrder(entries, s) == IF entries[s].kind = "join" THEN MaxSteps + s ELSE s
FirstEntry(entries, S) ==
  CHOOSE s \in S : \A t \in S : ListOrder(entries, s) <= ListOrder(entries, t)

(* The step whose rows an aggregate computes over: the first dependency    *)
(* with a successful list, else the first entry of its facet whose data is *)
(* a list, whatever its status, else none (0).                             *)
SourceStep(step, entries) ==
  LET direct == {n \in DOMAIN step.deps :
                   /\ entries[step.deps[n]].status = "success"
                   /\ entries[step.deps[n]].shape = "many"}
      same   == {s \in StepIds : /\ entries[s].kind # "none" /\ step.facet # NoFacet
                                 /\ entries[s].facet = step.facet
                                 /\ entries[s].shape = "many"}
  IN IF direct # {} THEN step.deps[First(direct)]
     ELSE IF same # {} THEN FirstEntry(entries, same) ELSE 0

AnalyticOf(step, entries, t) ==
  LET src == SourceStep(step, entries)
  IN [present |-> TRUE, source |-> src, turn |-> IF src = 0 THEN t ELSE entries[src].turn,
      rows |-> IF src = 0 THEN {} ELSE entries[src].rows]

AnalyticsResults(p, entries, t) ==
  [s \in StepIds |-> IF s \in AggregateSteps(p) THEN AnalyticOf(p.steps[s], entries, t)
                     ELSE NoAnalytic]

Computed(analytics) == {s \in StepIds : analytics[s].present}

-----------------------------------------------------------------------------
(* The context, and the verdict on it.                                     *)

Block == {"hidden", "data", "empty", "error"}
FocusState == {"none", "unset", "value"}
Context == [kind    : {"none", "clarification", "recall", "analytics", "data"},
            blocks  : [StepIds -> Block],
            focus   : [StepIds -> FocusState],
            from    : [StepIds -> 0..MaxSteps],  \* whose record the focus value is
            stamps  : SUBSET (0..MaxTurns)]      \* turns whose data is in it
NoContext == [kind |-> "none", blocks |-> [s \in StepIds |-> "hidden"],
              focus |-> [s \in StepIds |-> "none"], from |-> [s \in StepIds |-> 0],
              stamps |-> {}]

(* Raw results a join or an aggregate consumes; the specs of steps of any  *)
(* kind count.                                                             *)
ConsumedSteps(p) ==
  UNION {{p.steps[s].left, p.steps[s].right} : s \in Specified(p, "join")}
    \cup {d \in StepIds : \E s \in Specified(p, "aggregate") :
                            \E n \in DOMAIN p.steps[s].deps : p.steps[s].deps[n] = d}

BlockOf(p, entries, s) ==
  IF \/ entries[s].status = "none"
     \/ entries[s].kind = "list" /\ s \in ConsumedSteps(p)
  THEN "hidden"
  ELSE IF entries[s].status = "success" THEN "data" ELSE entries[s].status

(* The entries a field-backed concept may read its value from.             *)
FocusSources(entries, s) ==
  {e \in Succeeded(entries) : entries[e].facet = entries[s].facet /\ entries[e].named}

FocusOf(p, entries, s) ==
  IF entries[s].kind = "concept_field"
  THEN IF p.steps[s].backing = "reverse" THEN "none"
       ELSE IF FocusSources(entries, s) # {} THEN "value" ELSE "unset"
  ELSE IF entries[s].kind = "concept" THEN "unset" ELSE "none"

FocusFrom(p, entries, s) ==
  IF entries[s].kind = "concept_field" /\ FocusOf(p, entries, s) = "value"
  THEN FirstEntry(entries, FocusSources(entries, s)) ELSE 0

DataContext(p, entries) ==
  [kind |-> "data", blocks |-> [s \in StepIds |-> BlockOf(p, entries, s)],
   focus |-> [s \in StepIds |-> FocusOf(p, entries, s)],
   from  |-> [s \in StepIds |-> FocusFrom(p, entries, s)],
   stamps |-> {entries[s].turn : s \in {e \in StepIds : entries[e].kind # "none"}}]

(* The context builder's order of precedence.                              *)
ContextOf(p, pending, analytics, entries) ==
  IF pending THEN [NoContext EXCEPT !.kind = "clarification"]
  ELSE IF p.intent = "recall" THEN [NoContext EXCEPT !.kind = "recall"]
  ELSE IF Computed(analytics) # {}
       THEN [NoContext EXCEPT !.kind = "analytics",
                              !.stamps = {analytics[s].turn : s \in Computed(analytics)}]
  ELSE DataContext(p, entries)

VerdictStatus == {"none", "ok", "empty", "error", "no_plan"}

VerdictOf_AnyCall(c) == IF \E s \in StepIds : c.blocks[s] # "hidden" THEN "ok" ELSE "no_plan"
VerdictOf(c) ==
  LET shown == {s \in StepIds : c.blocks[s] # "hidden"}
      asked == {s \in StepIds : c.focus[s] # "none"}
  IN IF \/ c.kind \in {"clarification", "recall", "analytics"}
        \/ \E s \in StepIds : c.blocks[s] = "data" \/ c.focus[s] = "value"
     THEN "ok"
     ELSE IF shown \cup asked = {} THEN "no_plan"
     ELSE IF \E s \in shown : c.blocks[s] = "error" THEN "error"
     ELSE "empty"
=============================================================================
