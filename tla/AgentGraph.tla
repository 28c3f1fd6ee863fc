------------------------------ MODULE AgentGraph ------------------------------
(***************************************************************************)
(* The agent's LangGraph pipeline, its checkpointed state and the CLI loop *)
(* that drives it.                                                         *)
(*                                                                         *)
(* One action per node of src/graph/builder.py.  A node reads the channels *)
(* of AgentState, awaits what it awaits (ERP calls, the LLM: their results *)
(* are chosen nondeterministically) and returns a partial update that the  *)
(* graph merges into the channels: `messages' is appended to (its reducer  *)
(* is operator.add), every other channel is replaced.  The checkpointer    *)
(* saves the channels of a thread after a node, in the background: the     *)
(* durable copy may lag behind until the run returns.                      *)
(***************************************************************************)
EXTENDS AgentPlan

CONSTANTS
  Plans,       \* the plans the planner may return
  Threads,     \* conversation threads
  Default,     \* the CLI's stable thread, "cli-default"
  MaxCrashes   \* bound: number of process crashes

(* A chat plan is the stepless plan LLMPlanner._chat_plan builds.           *)
ASSUME PlansAssumption   == \A p \in Plans : /\ p \in ExecutionPlan
                                             /\ Len(p.steps) <= MaxSteps
                                             /\ p.intent = "chat" => p.steps = <<>>
ASSUME ThreadsAssumption == Default \in Threads
ASSUME CrashAssumption   == MaxCrashes \in Nat

VARIABLES
  pc,        \* the node about to run, or "idle" when the CLI waits for input
  thread,    \* the CLI's current thread
  ch,        \* the channels of the running turn
  ckpt,      \* the durable channels of each thread (SQLite checkpointer)
  memory,    \* the durable long-term memory rows
  loop,      \* what the join node's loop has done so far
  turn,      \* number of questions asked so far
  crashes,   \* number of crashes so far
  log        \* history: the thread and the fate of each question

vars == <<pc, thread, ch, ckpt, memory, loop, turn, crashes, log>>

Nodes == {"clarification_resolver", "planner", "entity_resolver", "api_selector",
          "executor", "relationship_resolver", "join", "analytics",
          "context_builder", "response_validator", "response_generator",
          "memory_manager", "END"}

-----------------------------------------------------------------------------
(* Channels.  A question is the turn in which it was typed and the turn of *)
(* the question it stands for: the two differ when it was a selection that *)
(* the clarification resolver rewrote into the original question.          *)

AnswerKind == {"none", "chat", "clarification", "recall", "analytics", "generated",
               "empty", "error", "no_plan"}

Question == [turn : 0..MaxTurns, origin : 0..MaxTurns]
Message  == [role : {"user", "assistant"}, turn : 0..MaxTurns, kind : AnswerKind]
Response == [kind : AnswerKind, turn : 0..MaxTurns, quotes : SUBSET (0..MaxTurns)]
MemoryRow == [thread : Threads, question : Question, kind : AnswerKind, answer : 0..MaxTurns]
Clarification == [needed : BOOLEAN, origin : 0..MaxTurns]

NotNeeded  == [needed |-> FALSE, origin |-> 0]
NoPlan     == [intent |-> "chat", topic |-> "none", steps |-> <<>>]
NoResponse == [kind |-> "none", turn |-> 0, quotes |-> {}]

Channels ==
  [user_input : Question, messages : Seq(Message), retrieved : SUBSET MemoryRow,
   plan : Plans \cup {NoPlan}, resolved : [StepIds -> Entity],
   clarification : Clarification, selected : [StepIds -> Selection],
   results : [StepIds -> Entry], linked : [StepIds -> Entry],
   analytics : [StepIds -> Analytic], context : Context, verdict : VerdictStatus,
   response : Response, errors : SUBSET StepIds]

EmptyChannels ==
  [user_input |-> [turn |-> 0, origin |-> 0], messages |-> <<>>, retrieved |-> {},
   plan |-> NoPlan, resolved |-> [s \in StepIds |-> AbsentEntity],
   clarification |-> NotNeeded, selected |-> [s \in StepIds |-> NoSelection],
   results |-> [s \in StepIds |-> AbsentEntry], linked |-> [s \in StepIds |-> AbsentEntry],
   analytics |-> [s \in StepIds |-> NoAnalytic], context |-> NoContext,
   verdict |-> "none", response |-> NoResponse, errors |-> {}]

(* The turn being answered.                                                *)
Now == ch.user_input.turn

(* state.get("resolved_results") or state.get("execution_results")          *)
Latest(c) == IF \E s \in StepIds : c.linked[s].kind # "none" THEN c.linked ELSE c.results

Fate == {"unasked", "running", "answered", "reported", "lost"}
NoLoop == [todo |-> {}, out |-> [s \in StepIds |-> AbsentEntry], errors |-> {}]

Init ==
  /\ pc = "idle"
  /\ thread = Default
  /\ ch = EmptyChannels
  /\ ckpt = [t \in Threads |-> EmptyChannels]
  /\ memory = {}
  /\ loop = NoLoop
  /\ turn = 0
  /\ crashes = 0
  /\ log = [n \in Turns |-> [thread |-> Default, fate |-> "unasked"]]

Settle(fate) == log' = [log EXCEPT ![Now].fate = fate]

-----------------------------------------------------------------------------
(* The CLI.                                                                *)

(* The user types a question: ainvoke starts the graph at START on the     *)
(* thread's checkpointed channels, with the new user_input.                *)
ResumedChannels(t) == ckpt[t]

Ask ==
  /\ pc = "idle"
  /\ turn < MaxTurns
  /\ turn' = turn + 1
  /\ log' = [log EXCEPT ![turn + 1] = [thread |-> thread, fate |-> "running"]]
  /\ ch' = [ResumedChannels(thread) EXCEPT
              !.user_input = [turn |-> turn + 1, origin |-> turn + 1]]
  /\ pc' = "clarification_resolver"
  /\ UNCHANGED <<thread, ckpt, memory, loop, crashes>>

(* "/new": a fresh thread id, never used before.                           *)
NewThread ==
  /\ pc = "idle"
  /\ \E t \in Threads \ {Default, thread} :
       /\ \A n \in 1..turn : log[n].thread # t
       /\ thread' = t
       /\ ch' = ckpt[t]
  /\ UNCHANGED <<pc, ckpt, memory, loop, turn, crashes, log>>

(* An exception escapes a node that calls the ERP or searches the web: a   *)
(* search of an unknown facet, a link to one, a missing path parameter, a  *)
(* login answer that is not JSON, a web answer of another shape.  The      *)
(* node's update is lost, the channels before it stay checkpointed, and    *)
(* the CLI prints the error and asks again.                                *)
Raise ==
  /\ ckpt' = [ckpt EXCEPT ![thread] = ch]
  /\ pc' = "idle"
  /\ Settle("reported")
  /\ UNCHANGED <<thread, ch, memory, turn, crashes>>

-----------------------------------------------------------------------------
(* The nodes.                                                              *)

Goto(node) == pc' = node
OnlyChannels == UNCHANGED <<thread, ckpt, memory, loop, turn, crashes, log>>

(* A pending clarification is consumed by the next message, whether it is  *)
(* a selection or not.                                                     *)
Selected(c)  == [c EXCEPT !.user_input.origin = c.clarification.origin,
                          !.clarification = NotNeeded]
Abandoned_Keeps(c) == c
Abandoned(c) == [c EXCEPT !.clarification = NotNeeded]

ClarificationResolver ==
  /\ pc = "clarification_resolver"
  /\ IF ch.clarification.needed
     THEN ch' = Selected(ch) \/ ch' = Abandoned(ch)
     ELSE ch' = ch
  /\ Goto("planner")
  /\ OnlyChannels

(* The planner node clears everything derived in the previous turn.        *)
ResetDerived_NoAnalytics(c) ==
  [c EXCEPT !.errors = {}, !.resolved = EmptyChannels.resolved,
            !.selected = EmptyChannels.selected, !.results = EmptyChannels.results,
            !.linked = EmptyChannels.linked,
            !.context = NoContext, !.verdict = "none"]
ResetDerived(c) ==
  [c EXCEPT !.errors = {}, !.resolved = EmptyChannels.resolved,
            !.selected = EmptyChannels.selected, !.results = EmptyChannels.results,
            !.linked = EmptyChannels.linked, !.analytics = EmptyChannels.analytics,
            !.context = NoContext, !.verdict = "none"]

(* The memories a search may return: rows of the thread, or nothing when   *)
(* the repository fails.                                                   *)
Retrievable_AnyThread(t) == memory
Retrievable(t) == {m \in memory : m.thread = t}

UserMessage(q) == [role |-> "user", turn |-> q.turn, kind |-> "none"]
AssistantMessage(r) == [role |-> "assistant", turn |-> r.turn, kind |-> r.kind]

(* The operator.add reducer of the messages channel.                       *)
AddMessage_Replaces(messages, m) == <<m>>
AddMessage(messages, m) == Append(messages, m)

Planner ==
  /\ pc = "planner"
  /\ \E p \in Plans, found \in SUBSET Retrievable(thread) :
       ch' = [ResetDerived(ch) EXCEPT
                !.plan = p, !.retrieved = found,
                !.messages = AddMessage(ch.messages, UserMessage(ch.user_input))]
  /\ Goto("entity_resolver")
  /\ OnlyChannels

(* Conditional edge after the entity resolver.                             *)
RouteAfterResolve_RawLabel(needed) == IF needed THEN "clarify" ELSE "continue"
RouteAfterResolve(needed) == IF needed THEN "context_builder" ELSE "api_selector"

(* The state update of the entity resolver for the search outcomes o.      *)
Resolution_Guesses(c, o) ==
  [c EXCEPT !.resolved = ResolvedEntities(c.plan, o),
            !.errors = c.errors \cup SearchErrors(c.plan, o)]
Resolution(c, o) ==
  [c EXCEPT !.resolved = ResolvedEntities(c.plan, o),
            !.errors = c.errors \cup SearchErrors(c.plan, o),
            !.clarification = IF IsAmbiguous(c.plan, o)
                              THEN [needed |-> TRUE, origin |-> c.user_input.origin]
                              ELSE c.clarification]

EntityResolver ==
  /\ pc = "entity_resolver"
  /\ \E o \in [SearchSteps(ch.plan) -> SearchOutcome] :
       /\ ~SearchRaises(ch.plan, o)
       /\ ch' = Resolution(ch, o)
       /\ Goto(RouteAfterResolve(ch'.clarification.needed))
  /\ OnlyChannels

EntityResolverRaises ==
  /\ pc = "entity_resolver"
  /\ SearchSteps(ch.plan) # {}
  /\ Raise
  /\ UNCHANGED loop

ApiSelector ==
  /\ pc = "api_selector"
  /\ LET sel == Selections(ch.plan, ch.resolved)
     IN ch' = [ch EXCEPT !.selected = sel,
                         !.errors = @ \cup {s \in StepIds : sel[s].act = "error"}]
  /\ Goto("executor")
  /\ OnlyChannels

Executor ==
  /\ pc = "executor"
  /\ \E o \in ExecutionOutcomes(ch.plan, ch.selected) :
       LET res == ExecutionResults(ch.plan, ch.selected, o, Now)
       IN ch' = [ch EXCEPT !.results = res, !.errors = @ \cup Failed(res)]
  /\ Goto("relationship_resolver")
  /\ OnlyChannels

ExecutorRaises ==
  /\ pc = "executor"
  /\ CallSteps(ch.selected) # {}
  /\ Raise
  /\ UNCHANGED loop

RelationshipResolver ==
  /\ pc = "relationship_resolver"
  /\ \E names \in SUBSET {s \in Succeeded(ch.results) : ch.results[s].rows # {}} :
       ch' = [ch EXCEPT !.linked = ResolvedResults(ch.results, names)]
  /\ loop' = [todo |-> JoinSteps(ch.plan), out |-> ch'.linked, errors |-> {}]
  /\ Goto("join")
  /\ UNCHANGED <<thread, ckpt, memory, turn, crashes, log>>

RelationshipResolverRaises ==
  /\ pc = "relationship_resolver"
  /\ Succeeded(ch.results) # {}
  /\ Raise
  /\ UNCHANGED loop

(* One iteration of the join node's loop: each join sees the outputs of    *)
(* the joins before it.                                                    *)
JoinOne ==
  /\ pc = "join"
  /\ loop.todo # {}
  /\ LET s == First(loop.todo)
     IN loop' = [todo |-> loop.todo \ {s},
                 out |-> [loop.out EXCEPT ![s] = JoinEntry(ch.plan, s, loop.out, Now)],
                 errors |-> IF JoinMisses(ch.plan.steps[s], loop.out)
                            THEN loop.errors \cup {s} ELSE loop.errors]
  /\ UNCHANGED <<pc, thread, ch, ckpt, memory, turn, crashes, log>>

(* The node returns: {} when the plan has no join step.                    *)
JoinDone ==
  /\ pc = "join"
  /\ loop.todo = {}
  /\ ch' = IF JoinSteps(ch.plan) = {} THEN ch
           ELSE [ch EXCEPT !.linked = loop.out, !.errors = @ \cup loop.errors]
  /\ loop' = NoLoop
  /\ Goto("analytics")
  /\ UNCHANGED <<thread, ckpt, memory, turn, crashes, log>>

Analytics ==
  /\ pc = "analytics"
  /\ ch' = IF AggregateSteps(ch.plan) = {} THEN ch
           ELSE [ch EXCEPT !.analytics = AnalyticsResults(ch.plan, Latest(ch), Now)]
  /\ Goto("context_builder")
  /\ OnlyChannels

ContextBuilder ==
  /\ pc = "context_builder"
  /\ ch' = [ch EXCEPT !.context = ContextOf(ch.plan, ch.clarification.needed,
                                            ch.analytics, Latest(ch))]
  /\ Goto("response_validator")
  /\ OnlyChannels

ResponseValidator ==
  /\ pc = "response_validator"
  /\ ch' = [ch EXCEPT !.verdict = VerdictOf(ch.context)]
  /\ Goto("response_generator")
  /\ OnlyChannels

(* What answer_recall quotes of the conversation so far (whose last user   *)
(* message is the current question): turns of questions or of answers.     *)
PositionsOf(messages, role) == {i \in DOMAIN messages : messages[i].role = role}
TurnsOfLast(messages, S, n) ==
  {messages[i].turn : i \in {j \in S : Cardinality({k \in S : k > j}) < n}}

RecallQuotes_WithCurrent(messages, topic) ==
  LET asked == PositionsOf(messages, "user")
      given == PositionsOf(messages, "assistant")
  IN CASE topic = "previous_question" -> TurnsOfLast(messages, asked, 1)
       [] topic \in {"previous_answer", "explanation"} -> TurnsOfLast(messages, given, 1)
       [] OTHER -> TurnsOfLast(messages, asked, 5)
RecallQuotes(messages, topic) ==
  LET asked == PositionsOf(messages, "user")
      prior == {i \in asked : \E j \in asked : j > i}
      given == PositionsOf(messages, "assistant")
  IN CASE topic = "previous_question" -> TurnsOfLast(messages, prior, 1)
       [] topic \in {"previous_answer", "explanation"} -> TurnsOfLast(messages, given, 1)
       [] OTHER -> TurnsOfLast(messages, prior, 5)

(* The generator's routing by intent, context and verdict.                 *)
AnswerKindOf(c) ==
  IF c.plan.intent = "chat" THEN "chat"
  ELSE IF c.context.kind \in {"clarification", "recall", "analytics"} THEN c.context.kind
  ELSE IF c.verdict # "ok" THEN c.verdict
  ELSE "generated"

Answer(c) ==
  [kind |-> AnswerKindOf(c), turn |-> c.user_input.turn,
   quotes |-> IF AnswerKindOf(c) = "recall" THEN RecallQuotes(c.messages, c.plan.topic) ELSE {}]

ResponseGenerator ==
  /\ pc = "response_generator"
  /\ ch' = [ch EXCEPT !.response = Answer(ch),
                      !.messages = AddMessage(ch.messages, AssistantMessage(Answer(ch)))]
  /\ Goto("memory_manager")
  /\ OnlyChannels

(* A chat turn may search the web, whose answer may not be of the expected *)
(* shape.                                                                  *)
ResponseGeneratorRaises ==
  /\ pc = "response_generator"
  /\ ch.plan.intent = "chat"
  /\ Raise
  /\ UNCHANGED loop

(* Only a verdict "ok" is remembered.                                      *)
ShouldSave_Always(c) == TRUE
ShouldSave(c) == c.verdict = "ok"

MemoryOf(c, t) == [thread |-> t, question |-> c.user_input, kind |-> c.response.kind,
                   answer |-> c.response.turn]

(* The row is committed before the node returns.  An answer of less than   *)
(* eight characters is not saved, and a failure to save is swallowed.      *)
MemoryManager ==
  /\ pc = "memory_manager"
  /\ \/ ShouldSave(ch) /\ memory' = memory \cup {MemoryOf(ch, thread)}
     \/ UNCHANGED memory
  /\ Goto("END")
  /\ UNCHANGED <<thread, ch, ckpt, loop, turn, crashes, log>>

(* ainvoke returns: the last checkpoint is durable, the answer is printed. *)
EndTurn ==
  /\ pc = "END"
  /\ ckpt' = [ckpt EXCEPT ![thread] = ch]
  /\ pc' = "idle"
  /\ Settle("answered")
  /\ UNCHANGED <<thread, ch, memory, loop, turn, crashes>>

-----------------------------------------------------------------------------
(* The environment.                                                        *)

(* A background checkpoint write completes.                                *)
Checkpoint ==
  /\ pc # "idle"
  /\ ckpt[thread] # ch
  /\ ckpt' = [ckpt EXCEPT ![thread] = ch]
  /\ UNCHANGED <<pc, thread, ch, memory, loop, turn, crashes, log>>

(* The process dies (or the user presses Ctrl-C) and is started again: the *)
(* CLI is back on its default thread, with what was durable.               *)
Crash ==
  /\ crashes < MaxCrashes
  /\ crashes' = crashes + 1
  /\ thread' = Default
  /\ ch' = ckpt[Default]
  /\ loop' = NoLoop
  /\ IF pc = "idle" THEN UNCHANGED log ELSE Settle("lost")
  /\ pc' = "idle"
  /\ UNCHANGED <<ckpt, memory, turn>>

Node ==
  \/ ClarificationResolver \/ Planner \/ EntityResolver \/ EntityResolverRaises
  \/ ApiSelector \/ Executor \/ ExecutorRaises \/ RelationshipResolver
  \/ RelationshipResolverRaises \/ JoinOne \/ JoinDone \/ Analytics \/ ContextBuilder
  \/ ResponseValidator \/ ResponseGenerator \/ ResponseGeneratorRaises \/ MemoryManager \/ EndTurn

Next == Node \/ Ask \/ NewThread \/ Checkpoint \/ Crash

Spec == Init /\ [][Next]_vars
=============================================================================
