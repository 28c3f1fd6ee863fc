-------------------------------- MODULE LlmTurn --------------------------------
(***************************************************************************)
(* What one turn asks of the language model and of the web, and what it    *)
(* does when they fail: the planner (src/planner/llm_planner.py) and the   *)
(* response generator (src/nodes/response_generator.py), over the repair   *)
(* loop of OllamaLLM.structured and the retries of WebSearchService.       *)
(* Each call to the model or to the web is a step; the nodes between the   *)
(* planner and the generator, which AgentGraph models, are one step.       *)
(***************************************************************************)
EXTENDS FallbackPlanner

CONSTANTS
  Questions,         \* the questions asked, as Words
  LlmPlans,          \* the plans the model may propose
  MaxRepair,         \* corrections a structured call asks for (1 in both callers)
  MaxSearchRetries   \* web_search_max_retries

(* The facet of a question is one of those it mentions (_detect_facet).    *)
ASSUME QuestionsAssumption ==
  /\ Questions \subseteq Words
  /\ \A w \in Questions : w.facet = NoFacet \/ w.facet \in w.mentions
ASSUME LlmPlansAssumption  == LlmPlans \subseteq ExecutionPlan
ASSUME RetriesAssumption   == MaxRepair \in Nat /\ MaxSearchRetries \in Nat

VARIABLES
  pc,        \* what the turn does next
  topic,     \* what detect_recall_topic says of the question
  words,     \* the words of the question, once the keyword planner reads them
  webOn,     \* the generator finds web search configured
  plan,      \* the plan of the turn
  model,     \* whether the model's plan could be used
  calls,     \* calls to the model so far
  tries,     \* corrections asked for in the running structured call
  searches,  \* attempts of the running web search
  answer     \* where the answer's text comes from

vars == <<pc, topic, words, webOn, plan, model, calls, tries, searches, answer>>

Unread == [facet |-> NoFacet, mentions |-> {}, triggers |-> {}, team |-> FALSE,
           number |-> FALSE, name |-> FALSE, ownerLink |-> FALSE, sysName |-> FALSE,
           count |-> FALSE, op |-> FALSE, metric |-> NoMetric, slice |-> FALSE]
ChatPlan == [intent |-> "chat", topic |-> "none", steps |-> <<>>]

Init ==
  /\ pc = "plan"
  /\ topic \in RecallTopic
  /\ words = Unread
  /\ webOn = FALSE
  /\ plan = ChatPlan
  /\ model = "unasked"
  /\ calls = 0
  /\ tries = 0
  /\ searches = 0
  /\ answer = "none"

-----------------------------------------------------------------------------
(* One attempt of a structured call.  Output that does not validate is     *)
(* sent back for correction while the budget lasts; an exception of the    *)
(* model, or the last invalid output, ends the call without a result.      *)
MayRepair_Always(n) == TRUE
MayRepair(n) == n < MaxRepair

Repair ==
  /\ MayRepair(tries)
  /\ tries' = tries + 1
  /\ calls' = calls + 1
StructuredEnds == tries' = 0 /\ calls' = calls + 1

Planned(p) == plan' = p /\ pc' = "pipeline"
NoWeb      == UNCHANGED <<topic, webOn, searches, answer>>

(* A question about the conversation skips the model.                      *)
PlanRecall ==
  /\ pc = "plan" /\ topic # "none"
  /\ Planned(FallbackPlan(topic, words))
  /\ UNCHANGED <<words, model, calls, tries>> /\ NoWeb

PlanRepair ==
  /\ pc = "plan" /\ topic = "none"
  /\ Repair
  /\ UNCHANGED <<pc, words, plan, model>> /\ NoWeb

(* The keyword net: the question's words are read, and a question in which *)
(* they recognise nothing is a chat turn.                                  *)
NetPlan_ChatsAnyway(w) == ChatPlan
NetPlan(w) == IF NothingToDo(FallbackPlan("none", w)) THEN ChatPlan ELSE FallbackPlan("none", w)
Net == \E w \in Questions : words' = w /\ Planned(NetPlan(w))

(* The model proposed p: a chat turn loses its steps, a data turn without  *)
(* steps goes to the keyword net, anything else is taken as it is.         *)
PlanProposed ==
  /\ pc = "plan" /\ topic = "none"
  /\ StructuredEnds
  /\ model' = "proposed"
  /\ \E p \in LlmPlans :
       IF NothingToDo(p) THEN Net
       ELSE Planned(IF p.intent = "chat" THEN ChatPlan ELSE p) /\ UNCHANGED words
  /\ NoWeb

PlanFails ==
  /\ pc = "plan" /\ topic = "none"
  /\ StructuredEnds
  /\ model' = "failed"
  /\ Net
  /\ NoWeb

-----------------------------------------------------------------------------
(* From the planner to the generator: AgentGraph's nodes leave a verbatim  *)
(* answer, a verdict's message or data to phrase.  A recall answer is      *)
(* computed from the history, without the model.                           *)
OnlyPhase == UNCHANGED <<topic, words, plan, model, tries>>

Answered(source) == answer' = source /\ pc' = "answered"

Pipeline ==
  /\ pc = "pipeline"
  /\ webOn' \in (IF plan.intent = "chat" THEN BOOLEAN ELSE {FALSE})
  /\ CASE plan.intent = "chat"   -> /\ pc' = IF webOn' THEN "decide" ELSE "chat"
                                    /\ UNCHANGED answer
       [] plan.intent = "recall" -> Answered("verbatim")
       [] OTHER -> \/ \E source \in {"verbatim", "verdict"} : Answered(source)
                   \/ pc' = "generate" /\ UNCHANGED answer
  /\ UNCHANGED <<calls, searches>> /\ OnlyPhase

(* Does the question need the web?  A failed decision means no.            *)
DecideRepair ==
  /\ pc = "decide"
  /\ Repair
  /\ UNCHANGED <<pc, topic, words, webOn, plan, model, searches, answer>>

Decide ==
  /\ pc = "decide"
  /\ StructuredEnds
  /\ pc' \in {"search", "chat"}
  /\ UNCHANGED <<topic, words, webOn, plan, model, searches, answer>>

(* One attempt of the search: it fails and is retried while the budget     *)
(* lasts, or ends with usable results or none; a payload that cannot be    *)
(* normalised raises outside of the retried call, and escapes the node.    *)
MaySearchAgain_OneMore(n) == n <= MaxSearchRetries
MaySearchAgain(n) == n < MaxSearchRetries

WebAgain ==
  /\ pc = "search"
  /\ MaySearchAgain(searches)
  /\ searches' = searches + 1
  /\ UNCHANGED <<pc, webOn, calls, answer>> /\ OnlyPhase

WebEnds ==
  /\ pc = "search"
  /\ searches' = searches + 1
  /\ pc' = "chat"
  /\ UNCHANGED <<webOn, calls, answer>> /\ OnlyPhase

WebRaises ==
  /\ pc = "search"
  /\ searches' = searches + 1
  /\ pc' = "reported"
  /\ UNCHANGED <<webOn, calls, answer>> /\ OnlyPhase

(* The model writes the answer; without its text, a canned one is given.   *)
Write ==
  /\ pc \in {"chat", "generate"}
  /\ calls' = calls + 1
  /\ \E source \in {"model", "canned"} : Answered(source)
  /\ UNCHANGED <<webOn, searches>> /\ OnlyPhase

Next ==
  \/ PlanRecall \/ PlanRepair \/ PlanProposed \/ PlanFails \/ Pipeline
  \/ DecideRepair \/ Decide \/ WebAgain \/ WebEnds \/ WebRaises \/ Write

Spec == Init /\ [][Next]_vars

-----------------------------------------------------------------------------
(* Every variable keeps its shape, and attempts and searches their bounds. *)
TurnTypeOK ==
  /\ pc \in {"plan", "pipeline", "decide", "search", "chat", "generate", "answered", "reported"}
  /\ topic \in RecallTopic
  /\ words \in Words
  /\ plan \in ExecutionPlan
  /\ model \in {"unasked", "proposed", "failed"}
  /\ calls \in Nat /\ tries \in 0..MaxRepair
  /\ searches \in 0..(MaxSearchRetries + 1)
  /\ webOn \in BOOLEAN
  /\ answer \in {"none", "verbatim", "verdict", "model", "canned"}

(* A plan made from keywords runs from end to end when its searches find   *)
(* a record: api_selector finds an endpoint or a field for each step, with *)
(* the id of that record, also for a concept that depends on the step that *)
(* fetched it; no step is a concept that only a join can answer.           *)
KeywordPlanRuns == pc # "plan" /\ words # Unread => IsExecutable(plan)

(* Without the model, a question that names a facet is still answered from *)
(* the ERP, not by the canned greeting of a chat turn.                     *)
DataSurvivesOutage ==
  pc # "plan" /\ model = "failed" /\ words.facet # NoFacet => plan.intent = "data"

(* A turn calls the model a bounded number of times, and not at all when   *)
(* it is answered from the history.                                        *)
ModelCallsBound ==
  CASE topic # "none"           -> 0
    [] plan.intent # "chat"     -> MaxRepair + 2
    [] webOn                    -> 2 * MaxRepair + 3
    [] OTHER                    -> MaxRepair + 2
ModelCallsAreBounded == calls <= ModelCallsBound
=============================================================================
