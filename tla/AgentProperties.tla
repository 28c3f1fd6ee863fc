--------------------------- MODULE AgentProperties ---------------------------
(***************************************************************************)
(* What the agent pipeline promises.                                       *)
(***************************************************************************)
EXTENDS AgentGraph

(* Every channel, in memory and in every durable checkpoint, has the shape *)
(* AgentState declares, and control is at a node of the graph.             *)
TypeOK ==
  /\ pc \in Nodes \cup {"idle"}
  /\ thread \in Threads
  /\ ch \in Channels
  /\ ckpt \in [Threads -> Channels]
  /\ memory \in SUBSET MemoryRow
  /\ loop \in [todo : SUBSET StepIds, out : [StepIds -> Entry], errors : SUBSET StepIds]
  /\ turn \in 0..MaxTurns
  /\ crashes \in 0..MaxCrashes
  /\ log \in [Turns -> [thread : Threads, fate : Fate]]

Delivered == pc \in {"memory_manager", "END"}

-----------------------------------------------------------------------------
(* The context an answer is made from holds data of this turn only: the    *)
(* channels survive in the checkpoint from one question to the next, and   *)
(* the join, analytics and skipped nodes leave theirs alone, so this rests *)
(* on the planner's reset (src/nodes/planner.py, "stale-state guard").     *)
ContextIsCurrent ==
  pc \in {"response_validator", "response_generator", "memory_manager", "END"}
    => ch.context.stamps \subseteq {Now}

(* An ambiguous search is never resolved by guessing: the turn calls no    *)
(* further API, its answer is the question which record was meant, and the *)
(* pending clarification it leaves stands for the question being answered. *)
AmbiguityIsAsked ==
  Delivered /\ (\E s \in StepIds : ch.resolved[s].state = "ambiguous")
    => /\ ch.response.kind = "clarification"
       /\ ch.clarification = [needed |-> TRUE, origin |-> ch.user_input.origin]
       /\ \A s \in StepIds : ch.results[s] = AbsentEntry

(* The LLM is asked to phrase an answer only when a call of this turn      *)
(* returned data: neither an empty or failed turn nor an earlier turn's    *)
(* data gets there, through context builder, validator and generator.      *)
GeneratedFromData ==
  Delivered /\ ch.response.kind = "generated"
    => \E s \in StepIds : /\ Latest(ch)[s].status = "success"
                          /\ Latest(ch)[s].rows # {} \/ Latest(ch)[s].shape = "text"
                          /\ Latest(ch)[s].turn = Now

(* A recall answer quotes the past of the same conversation: never the     *)
(* question being answered, whose message is already in the history.       *)
RecallQuotesThePast ==
  Delivered /\ ch.response.kind = "recall"
    => \A n \in ch.response.quotes : n \in 1..(Now - 1) /\ log[n].thread = thread

(* A count over the members found by a join counts only rows linked to the *)
(* parent record: the list the join read never leaks into the aggregate    *)
(* while the join has a match.                                             *)
MembersAreLinked ==
  \A s \in StepIds : ch.analytics[s].present =>
    \A j \in JoinSteps(ch.plan) :
      (/\ ch.plan.steps[s].deps = <<j>>
       /\ ch.plan.steps[j].emit = "right"
       /\ ch.linked[j].status = "success")
      => \A r \in ch.analytics[s].rows :
           \E l \in ch.linked[ch.plan.steps[j].left].rows : <<l, r>> \in Linked

(* A record is fetched for the question it was found for: when a get_by_id *)
(* names a search of its own facet, and that search found one record with  *)
(* an id, the data fetched is that record, whichever other searches the    *)
(* plan makes.                                                             *)
FoundIsFetched ==
  \A s \in StepIds \cap DOMAIN ch.plan.steps : \A d \in StepIds :
    (/\ ch.plan.steps[s].kind = "get_by_id"
     /\ ch.plan.steps[s].deps = <<d>>
     /\ ch.resolved[d].state = "found" /\ ch.resolved[d].id # NoKey
     /\ ch.resolved[d].facet = ch.plan.steps[s].facet
     /\ ch.results[s].status = "success")
    => ch.results[s].rows \subseteq {<<ch.resolved[d].facet, ch.resolved[d].id>>}

(* The past that channels carry stems from questions asked in thread t.    *)
OwnHistory(c, t) ==
  /\ \A i \in DOMAIN c.messages : log[c.messages[i].turn].thread = t
  /\ \A m \in c.retrieved : m.thread = t /\ log[m.question.turn].thread = t
  /\ c.clarification.needed => log[c.clarification.origin].thread = t

(* What a turn sees of the past (messages, memories, a pending             *)
(* clarification) belongs to its own thread, across "/new" and restarts.   *)
ThreadIsolation ==
  OwnHistory(ch, thread) /\ \A t \in Threads : OwnHistory(ckpt[t], t)

(* Each answer directly follows its question; questions are in order.      *)
IsDialogue(messages) ==
  \A i \in DOMAIN messages :
    /\ messages[i].role = "user" => \A j \in 1..(i - 1) : messages[j].turn < messages[i].turn
    /\ messages[i].role = "assistant" =>
         i > 1 /\ messages[i - 1] = [role |-> "user", turn |-> messages[i].turn, kind |-> "none"]

(* The conversation is a dialogue: questions appear once and in order, and *)
(* an answer directly follows the question it answers, although a crash or *)
(* an escaped exception may cut a turn anywhere.                           *)
DialogueWellFormed ==
  IsDialogue(ch.messages) /\ \A t \in Threads : IsDialogue(ckpt[t].messages)

(* Seen through its durable history and the fate of its questions alone,   *)
(* the pipeline is a Conversation: nodes, checkpoints written in the       *)
(* background, escaped exceptions and crashes are steps of that module, or *)
(* change nothing it sees.                                                 *)
Talk(messages) == [i \in DOMAIN messages |->
                     [role |-> messages[i].role, turn |-> messages[i].turn]]
Abstract == INSTANCE Conversation
              WITH history <- [t \in Threads |-> Talk(ckpt[t].messages)]
KeepsConversation == Abstract!Spec

(* The long-term memory holds only the answer to its own question, of a    *)
(* turn that produced something usable, and one row per question.          *)
MemoriesAreUsable ==
  \A m \in memory :
    /\ m.kind \in {"clarification", "recall", "analytics", "generated"}
    /\ m.answer = m.question.turn
    /\ \A n \in memory : n.question.turn = m.question.turn => n = m

(* Between turns, a pending clarification is the last thing the agent said *)
(* in this thread: a later message is never matched against older options. *)
PendingWasAsked ==
  pc = "idle" /\ ch.clarification.needed
    => /\ ch.messages # <<>>
       /\ ch.messages[Len(ch.messages)].kind = "clarification"
=============================================================================
