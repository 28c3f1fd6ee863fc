# Verification of the ERP agent

TLA+ models, TLC configurations and TLAPS proofs about the agent of this
repository: a LangGraph pipeline that turns a user's question into a plan, runs
the plan against an ERP's HTTP API, and answers from what came back, keeping the
conversation in a checkpointed thread.

Paths in this file are relative to the repository root.

## 1. Inventory

| Component | State | Operations | Talks to |
|---|---|---|---|
| CLI loop (`src/cli.py`) | current thread id | question, `/new`, restart | runtime |
| Pipeline graph, agent runtime (`src/graph/builder.py`, `src/models/state.py`) | channels of `AgentState`; one checkpoint per thread in SQLite | run the nodes, merge their updates, checkpoint after a node | every node |
| Clarification resolver (`src/nodes/clarification.py`) | channel `clarification` | match the message against the options, rewrite the question, or drop them | - |
| Planner node (`src/nodes/planner.py`) | resets the derived channels, appends the user message | retrieve memories, plan | memory, LLM planner |
| Entity resolver (`src/nodes/entity_resolver.py`) | `resolved_entities`, `clarification` | one search per step, stop at an ambiguous one | facet service |
| API selector (`src/nodes/api_selector.py`) | `selected_apis` | choose endpoint and id of each step | registry |
| Executor (`src/nodes/executor.py`) | `execution_results` | one call per selection, in order | API client |
| Relationship resolver (`src/nodes/relationship_resolver.py`) | `resolved_results`; a cycle guard per record | name foreign keys on records, depth first | facet service, and through it the cached records |
| Join, analytics (`src/nodes/join.py`, `src/nodes/analytics.py`) | `resolved_results`, `analytics` | relate rows, compute over rows | join engine, analytics service |
| Context builder, validator, generator | `context`, `verdict`, `response`, `messages` | what the answer is made from, whether it is usable, the answer | LLM |
| Memory manager, SQLite memory (`src/nodes/memory_manager.py`, `src/memory/`) | memory rows with a thread id | search, save | SQLite |
| Auth manager (`src/auth/auth_manager.py`) | token, its expiry, a lock | valid token, login, invalidate | ERP |
| HTTP adapter (`src/adapters/http_adapter.py`) | per call: attempts, `reauthed` | send with retry | auth manager, ERP |
| Analytics service (`src/services/analytics_service.py`) | none | filter, group, aggregate, sort, limit | - |
| API client, TTL cache (`src/services/api_client.py`, `src/cache/memory_cache.py`) | ordered store with expiries | cached call | adapter |
| Join engine (`src/services/joins/`) | per join: the loops, `matched` | pair the rows of two steps | - |
| Planner, keyword planner (`src/planner/`) | none | propose a plan, correct it, fall back to keywords | LLM client, registry |
| LLM client, web search (`src/llm/`, `src/services/web_search_service.py`) | per call: attempts | structured call with corrections, search with retries | model, search provider |
| Discovery, tools, registry, mock server | none that lasts | pure functions, a fixture | - |

(All `src/...` of the table and of the rest of this file lie in the package
directory, `src/src/...` seen from outside the repository.)

What is hard here, and what correctness means, component by component:

- **Channels that outlive a turn.** Every channel is in the thread's checkpoint,
  so the next question starts with the previous one's data. Join, analytics and
  skipped nodes return `{}` and leave their channel alone: only the planner's
  reset keeps old data out of a new answer. *An answer's context is of its turn.*
- **A turn can be cut anywhere.** A crash, Ctrl-C or an exception out of a node
  ends a turn between any two nodes, with the checkpoint at or before that point.
  *The history stays a dialogue, printed answers are durable, and nothing crosses
  from one thread to another.*
- **Ambiguity.** The question "which one?" spans two turns and a checkpoint.
  *An ambiguous search is asked about and not guessed; a selection is only
  matched against options that were shown; the record the user meant is answered.*
- **Partial failure.** One of several calls fails or finds nothing while the rest
  of the plan goes on. *An answer is phrased from data of this turn; a count over
  a join counts linked rows.*
- **Planning without a reliable model.** The model's output may not validate, may have
  no steps, or the model may be down. *What reaches the nodes is a plan they can run; a
  question about the ERP still reaches it; the model is called a bounded number of times.*
- **Records that point at each other.** Foreign keys form cycles, and the resolver writes
  into records the cache holds. *Every walk ends, its requests grow with the links, and
  the names shown are the right ones and recent.*
- **Keys of mixed types.** *A join pairs exactly the matching rows, each once.*
- **Honest numbers.** Rows lack fields, hold None or texts. *A number is the
  aggregate of exactly the rows it speaks of; groups add up; a cut keeps the best.*
- **Concurrency in the transport.** The pipeline runs its calls one after the
  other, but the auth manager, the adapter and the cache are written, and
  documented, for concurrent callers. *One login at a time; the newest token
  stays; a call gives up only after a fresh token was refused; every call ends; a
  cached reply is a recent answer to the same request.*

## 2. Modules

| Module | What it is |
|---|---|
| `AgentPlan` | plans, entities, selections, entries, contexts, and the pure part of each node as operators |
| `AgentGraph` | the pipeline: the channels, the CLI, one action per node, checkpoints, crashes (extends `AgentPlan`) |
| `AgentProperties` | the type invariant and the properties of the pipeline |
| `MCAgent` | plans after the examples of `prompts/planner.md`, facets and links for TLC |
| `AgentProofs` | theorems: type correctness of the pipeline, with lemmas on every operator that builds a channel; freshness of the context; isolation of threads; about a turn: ambiguity, what answers rest on, records found and members joined; about a thread: dialogue, recall, memories, pending clarification, refinement of `Conversation` |
| `Orders` | sorting and filtering of lists, by the places of the elements |
| `Conversation` | abstract specification: questions, durable exchanges, the fate of each question; `AgentGraph` implements it |
| `ClarificationDialogue`, `MCDialogue` | search, candidates, reply and rewritten question over records with names |
| `ClarificationDialogueProofs` | theorems: what a pending clarification offers, which option a reply selects, which record the rewritten question finds |
| `RelationshipResolver`, `MCLinks` | the depth-first walk over foreign keys, and the cached objects it labels |
| `RelationshipResolverProofs` | theorems: names and ages of labels, calls of a walk |
| `JoinEngine`, `MCJoins` | one join step: nested loop, projection, entry |
| `JoinEngineProofs` | theorems: the pairs are the matches, and those of a hash join; a count of members counts each once |
| `FallbackPlanner` | the keyword planner, as operators from the words of a question to a plan (extends `AgentPlan`) |
| `LlmTurn`, `MCPlanning` | the calls of one turn to the model and the web: corrections, fallbacks, retries (extends `FallbackPlanner`) |
| `LlmTurnProofs` | theorems: plans from keywords run and read the ERP, calls to the model are bounded |
| `ErpTransport` | auth manager and HTTP adapter: concurrent calls, one token, one lock |
| `ErpTransportProofs` | theorems: one login, the newest token, the lock's queue, two tokens before a 401 |
| `ErpCache` | API client and TTL cache with requests in flight |
| `ErpCacheProofs` | theorems: the store's bound and keys, refinement of `ErpReads` |
| `AnalyticsService`, `MCAnalytics` | the analytics service over lists of rows with missing, None and text fields |
| `AnalyticsServiceProofs` | theorems: every number is that of its rows, groups add up, a ranking of rows or of groups lists the best |
| `ErpReads` | abstract specification of cached reads; `ErpCache` implements it |

### The pipeline (`AgentPlan`, `AgentGraph`)

`pc` names the node about to run; `ch` is the record of the channels; `ckpt[t]`
is the durable copy for thread `t`; `memory` the set of memory rows; `loop` the
progress of the join node's loop, the only node with several steps; `log` is a
history variable with the thread and the fate of each question. Each action reads
`ch`, chooses what the outside world returns (`\E` over search outcomes, call
outcomes, plans, memories) and writes the node's partial update.

| Code | TLA+ |
|---|---|
| `cli._chat_loop` | `Ask`, `NewThread`, `EndTurn`, `Raise`, `Crash` |
| `build_graph`, `_needs_clarification` | `pc`, `RouteAfterResolve` |
| `AgentState.messages` (reducer `operator.add`) | `AddMessage` |
| checkpointer, durability "async" | `Checkpoint` at any moment, `EndTurn` and `Raise` flush |
| each node class | the action of its name |
| `SqliteMemoryRepository.search` | `Retrievable`: any subset of the thread's rows |

Abstractions, and why the properties do not see them:

- a list of entries keyed by step id is a function from step ids; step ids are
  positions in the plan, as the planner prompt numbers them. The order of
  entries matters in two places (`FirstEntry`) and is kept there;
- a record is a pair of facet and primary key, and the data of a result is a set
  of records with its shape. Duplicated rows are seen by `JoinEngine` only;
- a message is its role, its turn and its kind of answer; wording is left out;
- a question is the turn it was typed in and the turn it stands for, which differ
  after a clarification was answered;
- which foreign keys the relationship resolver could name, and which join keys
  match, are arbitrary (`RelationshipResolver` and `JoinEngine` say which);
- the planner returns any plan of a set (`LlmTurn` says which plans it makes);
- `errors` is the set of steps that failed; trace entries are left out;
- what the registry says of a step's endpoint or concept is part of the step (`backing`,
  `needsId`, `serves`), as is which of the two specs, join and aggregate, the step carries
  (`spec`): the context builder goes by the specs, whatever the kind of the step.

Exceptions escape from four nodes: `EntityResolverRaises` (an unknown facet),
`ExecutorRaises` (a URL that cannot be built), `RelationshipResolverRaises` (a look-up) and
`ResponseGeneratorRaises` (a chat turn whose web search returns an unexpected shape). Each
ends the turn with an error shown and the channels of the nodes before it kept.

`Conversation` is the same system seen from outside: `history`, the durable messages of
a thread without their wording, and `log`. Its steps are `Ask`, `Save` (more of the open
exchange became durable), `Answer`, `Report` (an error was shown) and `Lose` (the process
died). The refinement mapping takes `ckpt[t].messages` for the history: checkpoints that
change no message, and all nodes, are stuttering steps.

### The dialogue of clarifications (`ClarificationDialogue`)

`AgentGraph` knows that a search was ambiguous and that a message selected an option;
this module knows which. A text is a sequence of pieces, which are characters or runs of
them that nothing divides, blanks included; "a in b" says that the pieces of a stand
together in b, be it inside a longer word, as Python's `in` does. `Say` is the clarification
resolver (`parse_selection`, `rewrite_question`): the digits a reply begins with, an ordinal
word anywhere in it, the one label it is part of, the one label that is part of it; and the
first occurrence of the searched name replaced by the label. `Resolve` is the search step of
the planned question followed by `disambiguate`; a bare number is looked up as an id first,
and searched as text when that look-up yields no record. `Rename` is a change in the ERP
between or within turns. What the LLM planner searches for a question is external: the
constants `Forms` and `Entity` say which texts it takes for a name and in which question
forms, and `PlannerAssumption` that a name in such a form is searched as it stands. `typed`
and `chosen` are history.

### The relationship resolver (`RelationshipResolver`)

`walk` is the stack of `_resolve_record` calls, each with the record, the field it is at
and its depth; `visited` the cycle guard of one entry. `cached` holds the record objects:
the client's cache hands out the object itself, the walk labels it, and a later snapshot
of the executor (`model_dump`) copies the labels. An object is its record and the time it
was fetched, so a label tells how old the name is. Records of one facet have the same
links; a `None` key, a missing target, a failing lookup and an exception are steps.
An unknown target facet raises `KeyError` (`facet_service.py:79`), which is one of the
exceptions of `Raise`. Eviction by size is left out: it only makes objects younger.

### One join (`JoinEngine`)

The two loops, `matched`, the projection and the entry of `JoinNode`, over sequences of
key values. A value is what `keys_match` tells apart: its class under `==`, the number it
reads as, its text stripped and in lower case. "nan", which is a number unequal to itself,
is excluded.

### Planning and the model (`FallbackPlanner`, `LlmTurn`)

A question is abstracted to what the word lists and regular expressions of the keyword
planner recognise in it (`Words`, one field per recogniser); the rules from there to the
steps are kept in their order. `IsExecutable` runs the API selector of `AgentPlan` on the
result. In `LlmTurn` each call to the model and each attempt of the web search is a step;
the nodes between the planner and the generator are one (`Pipeline`).

### The transport (`ErpTransport`)

A call is a record: where it is (`auth`, waiting for the `lock`, in the `login`,
`granted` when the login answer is under way, in the `request`, `refused` when a
401 is under way, `invalidate`), its attempts, whether it re-authenticated, the
token in its header. The lock is the queue of its holder and waiters, as
`asyncio.Lock` serves them. A token is the number of the login that issued it;
`accepted` is what the ERP still accepts. Between two awaits a coroutine is not
interrupted, so every action is a stretch between awaits. `refused` and `outcome` are
history. `logout`, anonymous access and the translation of bodies are left out.

### The cache (`ErpCache`, `ErpReads`)

`store` is the `OrderedDict` as a sequence of entries with key, expiry and value.
`TTLCache.get` and `set` await nothing but their uncontended lock, so each is one step;
between a miss and the matching `set` the request is in flight and the ERP's data
may change. `ErpReads` knows nothing of stores: a reply is an answer of the ERP to
that very request, arrived now or less than the time-to-live ago, or an error.
`told` and `reply` are the history both share.

### The analytics service (`AnalyticsService`)

Rows are listed one by one in any order, then one request is computed over them.
The code's own steps are operators over the sequence of positions (buckets in order of
appearance, a stable sort, a cut after the sort); the properties speak of sets of rows
only. A fraction stands for a float, so rounding to four decimals is not seen; a
text stands for all texts equal up to case and blanks; the key of a ranked row is
its position, not its label. `Includes` says which texts contain which. The metric and the
group-by field may be None, an empty text or a field: an empty group-by field groups nothing
(line 63) and prevents a ranking of rows too (line 80). Limits are any integers: a negative
one asks for a ranking and cuts nothing.

## 3. Runs

Runs that pass:

| Run | Checks | Shows |
|---|---|---|
| `talk` | `DialogueWellFormed RecallQuotesThePast MemoriesAreUsable AmbiguityIsAsked PendingWasAsked` | three questions over two threads, look-ups, chat and recall, escaped exceptions and checkpoints at any moment |
| `restart` | `ContextIsCurrent ThreadIsolation KeepsConversation` | two questions over two threads with every pair of plan shapes (look-up, count, join, chat), an escaped exception or a crash at any step: no old data in an answer, no threads mixed, and the pipeline implements `Conversation` |
| `data` | `TypeOK GeneratedFromData MembersAreLinked FoundIsFetched` | every plan shape and malformed plans, every outcome of each search and call, one crash |
| `dialogue` | `DialogueTypeOK MeantIsResolved NamedIsNotAnother` | three messages about three records whose names are parts of each other or have an ordinal word in them, one renamed at any moment, in questions that have the name's characters inside an earlier word or not: the record the user meant is the one answered |
| `links` | `LinksTypeOK EveryKeyIsNamed LabelsAreRecent CallsAreBounded WalksEnd` | two entries over links with a cycle and a record met twice, look-ups that fail, are cached or expire; deadlock is checked |
| `joins` | `JoinTypeOK PairsAreTheMatches HashJoinAgrees MembersCountedOnce` | every two lists of up to two rows, every kind of join and emitted side: the loop against the set of matches, a hash join and a count of members |
| `planning` | `TurnTypeOK KeywordPlanRuns DataSurvivesOutage ModelCallsAreBounded` | every combination of recognised words with every way the model and the web can fail |
| `analytics` | `AnalyticsTypeOK NumbersAreExact GroupsAddUp BestAreListed BestGroupsAreListed` | every list of up to three rows against every request: operation, grouping, filters, order, limit |
| `transport` | `TransportTypeOK LoginIsShared TokenIsNewest RefusedWithTwoTokens CallsEnd` | two concurrent callers, two attempts, tokens that expire and are revoked, failing logins and requests; deadlock is checked |
| `cache` | `CacheTypeOK CacheIsTransparent` | two tasks, two requests, room for one entry, changing data: the cache implements `ErpReads` |

Bounds and why they suffice:

- `MaxTurns`: three questions are the fewest in which an unanswered question lies
  between two others; two suffice for what one turn leaves to the next, including a
  question in a new thread, a crash, and one in the default thread.
- Two facets and two keys: enough for a wrong id, a wrong facet and an unlinked
  row. `restart` and `talk` use one key, since their properties speak of turns.
- Plan shapes are those the planner prompt teaches, up to five steps (search, get,
  list, join, aggregate), and plans with an unknown facet or concept, which pydantic accepts.
- One crash: a crash leaves nothing behind but the checkpoint it restarts from, so
  a second one starts from a state of the same kind.
- `Attempts = 2`: the first 401 and the attempt after it, the smallest bound with
  a re-login. `MaxTokens = 3`: a stale token, its replacement and one more that
  another caller obtained. The safety invariants were also checked for three
  tasks with `MaxTokens = 2`.
- `MaxRows = 3` with the numbers -1 and 2, a text, None and a missing field: two groups of
  which one has two rows, a group without numbers next to one with, ties, and limits (-1 to 2)
  that are negative, absent, below, at and above the number of groups.
- `dialogue`: three records and `MaxCandidates = 2` (the code's bound is larger), so that
  a record may be ambiguous and not listed; four names of which three are nested ("al", "al
  smith", "al smith jr") and one has an ordinal word in it; questions that name one as it is,
  by a part, by an id, spelled differently, after an ordinal word and after a word that
  contains it ("s-al-ary of al"); three messages, the fewest in which a reply is asked back and replied to again.
- `links`: a project whose owner belongs to a unit it manages, with the owner as sponsor
  too: a cycle, a record met twice, a `None` key; `MaxDepth = 2`, the smallest depth with
  a recursive call; two entries, so that one finds the labels the other left; `Ttl = 2` and
  `MaxClock = 3`, so that an object outlives the name it carries.
- `joins`: two rows a side are the fewest with a duplicate on either side and a row after
  an unmatched one; ten values cover every case of `keys_match`.
- `planning`: the facets and concepts of the shipped catalog that a rule distinguishes, at
  most two facets in a question, `max_repair = 1` as both callers pass, two search retries (the default).
- `Ttl = 2` and `MaxClock = 2` (`cache`): entries of different ages, and one that is just over.

The pipeline's configurations and `dialogue` say `CHECK_DEADLOCK FALSE`: after the last
question the user stops. So do `analytics` and `planning`: the service returned, the turn is over.

Runs that TLC refutes: each states what a comment says and the code does not do.

| Run | Statement | What happens |
|---|---|---|
| `unasked` | a selection answers the question the previous turn asked (`PendingWasAsked`, `clarification.py:178-180`) | a crash after the entity resolver's checkpoint leaves options nobody saw; the next message is matched against them |
| `same_label` | a valid selection rewrites the question "so the normal pipeline answers it" (`ChosenIsAnswered`, `clarification.py:178-180`) | two records bear one label; choosing one by number rewrites the question with the label only, which is as ambiguous as before and is asked back, every time |

`PendingWasAsked` passes in `talk`, without crashes, and fails in `unasked`, with one:
the pair locates the cause.

Disagreements seen while modelling for which no run is kept, since each is one
step of one node or function:

- a failed list is counted as "0" and the verdict is "ok" (`analytics.py:92`), although the
  validator "prevents the agent from reporting a misleading "0"" (`response_validator.py:5-6`);
- an aggregate whose join has no match falls back to the whole list the join read
  (`analytics.py:87`), although it computes "over a join's output by depending on it" (`join.py:10-11`, also `planner.md:119`);
- of two searches one finds nothing, and its step uses the other's id, of another facet
  (`api_selector.py:166`, against lines 158-159). `FoundIsFetched` is what does hold: a step
  that names a search of its facet gets the record found by it;
- with two records of a facet both field concepts read the first (`context_builder.py:324`,
  against lines 5-6);
- one number anywhere lets the validation pass; the average of a group without numbers is 0
  and is ranked above a negative one (`analytics_service.py:96` and 182, against lines 8-9).
  `NumbersAreExact` says so: a group's number is the aggregate of its rows, and 0 when none of
  them has a number. A number reported alone is missing then;
- an unknown facet in a search step raises `KeyError` out of the entity resolver
  (`facet_service.py:79`), although "no exceptions escape into the graph"
  (`builder.py:15`); the model has it as `EntityResolverRaises`;
- the failed list of a join is hidden (`context_builder.py:81`), so the verdict is
  `empty`, defined as "queries succeeded but returned nothing" (`response_validator.py:3-4`);
- a failed search leaves nothing to call, and the verdict is `no_plan`, not `error`;
- after a chat answer, "how did you compute that" is answered "directly from the
  system's records" (`conversation.py:148`, against lines 149-150);
- `WebSearchService.search` "never raises" (line 86), but `_normalise` is called outside of
  the `try` (line 99); the model has it as `WebRaises`. Its retries are for "transient
  errors only" (module docstring), but every exception is retried (line 108);
- a "how many" adds a count to the members of a unit (`fallback_planner.py:186-187`); so
  do "list all" and "all the", which are among `_COUNT_WORDS` (line 27);
- the searched name is replaced where its characters stand first in the question
  (`clarification.py:132-134`), although the chosen label is to "replace the ambiguous term"
  (line 130): in "salary of Al" that is inside "salary", which becomes "sAl Smithary of Al", and
  the choice is not settled. `MeantIsResolved` speaks of questions that do not have the name's
  characters earlier (`NamesOnce`);
- the name in a question is replaced through `pattern.sub` (`clarification.py:134`), which
  reads a backslash in the label as an escape;
- the cache evicts by last use (`memory_cache.py:44`), its docstring says FIFO (line 5).

Statements that looked right and are not, which the properties reflect; the last three were
found by attempts to prove the stronger ones, and TLC confirmed the counterexamples:

- a label on an answered record is not always younger than the time-to-live: the name is
  read from an object up to `Ttl - 1` old and lives on an object that is up to `Ttl - 1`
  old when a look-up fails, hence the bound of `LabelsAreRecent`;
- a reply that is part of one label only is taken for it, so a message that is a new
  question of one word ("ali") may select an option: `MeantIsResolved` speaks of replies
  that are a number or a whole label;
- a whole label is not always taken for its option: "first ali" has an ordinal word in it and
  is read as option 1 (`parse_selection` tries the number first), hence
  `ParseOrdinal(typed.text) = 0` in `NamedIsNotAnother` and in `Meant`;
- choosing an option does not always settle a question that names the entity: when the planner
  searched another spelling of the name, the label is appended in parentheses, the question
  then has both names, and may be asked again. Hence `NamesOnce`, which also asks that the
  searched name stands in the question where it names the entity;
- an inner join may emit a member twice although the parents' keys differ, when a child's key
  is the text "None": `keys_match` compares texts, so it matches a parent that has no key.
  `MembersCountedOnce` speaks of the keys that are there.

## 4. Fairness

`FairTransport`: weak fairness of each task's `Progress`. A request is answered or
times out, and the event loop resumes every coroutine that can run. The lock needs
no strong fairness because `asyncio.Lock` serves in order of arrival. Nothing is
assumed of the ERP: it may refuse everything.

`LinksSpec`: weak fairness of `Resolve`, the steps of the node while look-ups return. The
node is a coroutine whose only awaits are look-ups, which end. Nothing obliges a look-up
to raise, the executor to run or the clock to tick.

The other modules, the pipeline among them, have no liveness property and no fairness;
where a loop could run for ever, a bound on its steps is an invariant (`ModelCallsAreBounded`,
`TurnTypeOK` for the search's attempts, `CallsAreBounded`).

## 5. Proofs

The theorems hold for all values of the constants that satisfy the assumptions named
in the modules: for all sets of plans, facets, records, links, threads, tasks, requests
and questions, and all bounds. Most assumptions only say of which kind a constant is.
Those with content:

| Assumption | Why the code justifies it |
|---|---|
| `PlansAssumption` | plans have at most `MaxSteps` steps, and a chat plan has none |
| `NamesAssumption`, `LinksAssumption`, ... | the names of special values (no key, no record) are not those of data |
| `StepsAssumption` | plans with the five steps of the keyword planner's longest rule are within the bound |
| `ReverseConceptsAssumption` | a facet with a concept that counts its members has a facet of members: `is_reverse` requires a `reverse_facet` (`semantic.py:42`) |
| `QuestionsAssumption` | the facet of a question is one that it mentions (`_detect_facet`) |
| `DialogueAssumption` | the ERP has finitely many records; names, messages and what surrounds them are texts of `Pieces`, among which are the blank and the parentheses the rewriting adds; names are not empty (a record without one is labelled by its facet and key, `api.py:113-117`) and neither is a message (the CLI skips blank ones, `cli.py:84-85`) |
| `PlannerAssumption` | about the LLM planner, which is external: a name that stands in one of the question forms, the bare name among them, is what it searches. What it makes of any other text is free |
| `AnalyticsAssumption` | a missing field and None are neither numbers nor texts, None is no result of a computation either nor the name of a field, limits are integers, and the numbers in rows are integers (fractions come from averages only) |
| `ScalarAssumption` | keys of rows are scalars: equal ones that are no bools are the same number or the same text |
| `MaxCrashes = 0` | only for `PendingAlwaysAsked`: the process does not die. With a crash the property is false, and run `unasked` shows it |

Each theorem rests on an invariant that is inductive together with type correctness,
and that is seldom the property itself; the tables say what it adds. The proof that a
step keeps it has one case per action of `Next`.

### The pipeline

| Theorem | Property | Argument |
|---|---|---|
| `AgentProofs!TypeCorrect` | `TypeOK` | `TypeInv` = `TypeOK` and two facts TLC does not need: before the executor the selections are those of the plan (the outcomes of calls are typed by the step they belong to), and the join loop only has join steps to do. One lemma per operator that builds a channel |
| `AgentProofs!ContextAlwaysCurrent` | `ContextIsCurrent` | `FreshInv`: from the planner on, every entry of `results`, `linked`, `loop.out` and `analytics` is stamped with the current turn. It holds at the planner because of the reset and is kept by each node because it stamps or copies |
| `AgentProofs!ThreadsStayApart` | `ThreadIsolation` | `IsolationInv`: what the channels of a thread, its checkpoint and its memory rows refer to are turns *asked in that thread*. `ThreadIsolation` alone is not inductive: it does not say that the turn being answered is one of them, nor bound the turns by those already asked |
| `AgentProofs!AmbiguityAlwaysAsked` | `AmbiguityIsAsked` | `PendingInv`: no clarification is pending while a turn calls the ERP; from the context builder on, ambiguity means a pending clarification of this question, with nothing called and a plan that is not chat. `AnswerInv`: the context, the verdict and the kind of answer are functions of the channels they were made from |
| `AgentProofs!GeneratedAlwaysFromData` | `GeneratedFromData` | `EntriesInv`: entries belong to steps of the plan, and one with status success has rows or a text. Then a verdict that lets the generator speak finds such an entry in the context, by `AnswerInv` |
| `AgentProofs!FoundAlwaysFetched` | `FoundIsFetched` | `Faithful` of the channels *and of every checkpoint*: a step that names a search of its facet which found a record with a key was selected with that key, and what it fetched is that record. A crash brings channels back, hence the checkpoints |
| `AgentProofs!MembersAlwaysLinked` | `MembersAreLinked` | `JoinInv`: no join has an entry before the loop comes to it, so no later join overwrites the parents a finished join has read |
| `AgentProofs!AlwaysADialogue` | `DialogueWellFormed` | `LogInv`: exactly the question of the running turn is open. `HistoryInv`: the channel is the past, whose turns are over, and the running turn's exchange as far as it got; the thread's checkpoint is a prefix of the channel that lacks at most that exchange. Without the last part a crash could bring back anything |
| `AgentProofs!RecallAlwaysQuotesThePast` | `RecallQuotesThePast` | quoted messages lie before the running turn's exchange (`HistoryInv`), and messages of a thread are turns asked in it (`IsolationInv`) |
| `AgentProofs!MemoriesAlwaysUsable` | `MemoriesAreUsable` | `MemoryInv`: until its last node the running turn has no row; `ComputedInv`: only steps of the plan are aggregated |
| `AgentProofs!PendingAlwaysAsked` | `PendingWasAsked` | `PendingAskedInv`: in each checkpoint that no turn is working on, a pending clarification has its question as last message. An exception that ends a turn early ends it where nothing is pending: before the context builder, or in a chat turn, which searches nothing |
| `AgentProofs!ImplementsConversation` | `KeepsConversation` | by `LogInv` and `HistoryInv`, asking, each flush of a checkpoint, each end of a turn and each crash is a step of `Conversation` for the history it leaves; every other action leaves the durable history and the fates alone |

### Below and inside the nodes

| Theorem | Property | Argument |
|---|---|---|
| `ErpTransportProofs!LoginAlwaysShared` | `LoginIsShared` | `SharedInv`: whoever logs in is at the head of the lock's queue and the cached token is unusable. The head is unique, so is the login |
| `ErpTransportProofs!CachedTokenIsNewest` | `TokenIsNewest` | the same invariant: a login answer under way carries the newest token issued, because no one else can be logging in |
| `ErpTransportProofs!TransportTypeCorrect` | `TransportTypeOK` | `QueueInv`: the queue has no repetition and is made of the calls that hold the lock or wait for it; `AcceptedInv`: the ERP accepts tokens it issued |
| `ErpTransportProofs!UnauthorizedAfterTwoTokens` | `RefusedWithTwoTokens` | `RefusalInv`: after a call has invalidated the cache, neither the cached token nor one being granted is the token that was refused to it, so that what it carries the second time is another |
| `ErpCacheProofs!CacheTypeCorrect` | `CacheTypeOK` | itself inductive; lemmas on removing, moving and appending entries of a sequence without repeated keys |
| `ErpCacheProofs!CacheImplementsReads` | `CacheIsTransparent` | `CacheInv`: each entry stems from an answer to the very request its key stands for and expires `Ttl` after it. A hit is then a read the abstract specification allows, a miss and its arrival are its read of the ERP, the rest stutters |
| `JoinEngineProofs!JoinTypeCorrect` | `JoinTypeOK` | with `LoopInv` |
| `JoinEngineProofs!PairsAlwaysTheMatches` | `PairsAreTheMatches` | `LoopInv`: the pairs are exactly those due at the position of the two loops, in the order of the rows. At the end all are due |
| `JoinEngineProofs!HashJoinAlwaysAgrees` | `HashJoinAgrees` | the same invariant, and that on scalars without bools two keys match when their canonical forms are equal |
| `JoinEngineProofs!MembersAlwaysCountedOnce` | `MembersCountedOnce` | `EntryInv`: when the join is done the entry lists what the projection kept of the pairs. By `LoopInv` these are the matches in the order of the rows, and when no two parents share a key the child's position maps the kept pairs one to one onto the members |
| `ClarificationDialogueProofs!DialogueTypeCorrect` | `DialogueTypeOK` | `TypeInv`: what is pending, and what the message at hand was typed to, has labelled options, between two and the bound, no record twice. The candidates are a prefix of the hits in order, so the lemmas on `InOrder` give the bound and that no one is listed twice |
| `ClarificationDialogueProofs!NamedNeverAnother` | `NamedIsNotAnother` | `TurnInv`: what was chosen is an option that `ParseSelection` allows for the message and the clarification it answers, and while the search runs, `question` is the message or the rewritten question. A label typed whole without a number in it is matched exactly before it is looked for in the other labels |
| `ClarificationDialogueProofs!MeantAlwaysResolved` | `MeantIsResolved` | `TurnInv`, and: the label selects its option (`LabelSelects`); its characters replace the first occurrence of the query, which is the entity's place in the form because they do not stand earlier, so the new question is the label in the same form and the planner searches the label (`LabelTakesThePlace`, `RewriteIsSearched`); a search for a name with one bearer is clear, because an exact match wins (`OneBearerIsClear`) |
| `AnalyticsServiceProofs!AnalyticsTypeCorrect` | `AnalyticsTypeOK` | `RowsInv` and `ResultInv`, here and in the next three: the rows are rows, and what was computed over them is right for the request. `Aggregate` is the only action that computes; the argument is `ResultIsRight`, about the operators |
| `AnalyticsServiceProofs!NumbersAlwaysExact` | `NumbersAreExact` | the sum of a list is the sum of the set it lists, in whatever order (`Sums`, `TotalIsSum`); the bucket of a key lists exactly its rows, by induction on the rows handled (`Bucketing`); the cut and the sort only choose among groups that are exact already (`Groups`). A scalar is missing exactly when it needs a number and no matching row has one; a group is 0 then |
| `AnalyticsServiceProofs!GroupsAlwaysAddUp` | `GroupsAddUp` | each row is in the group of its key and in no other, so that group by group, in any order, the sum grows by that of a set of rows not seen before (`SumOfUnion`, `NextGroup`) |
| `AnalyticsServiceProofs!BestAlwaysListed` | `BestAreListed` | ordering by value, and by position among equals, is a total order: each member of a set has a place of its own and each place is taken (`Ranks`), so that the sorted list lists the set in order (`Placed`), and what the cut leaves is the best of it |
| `AnalyticsServiceProofs!BestGroupsAlwaysListed` | `BestGroupsAreListed` | the same places, now of the buckets ordered by value; that the buckets are one for each key of the matching rows carries the ranking over from buckets to keys |
| `RelationshipResolverProofs!LinksTypeCorrect` | `LinksTypeOK` | `WalkInv`: each frame is at a field of its record or past the last, its record is in the guard, the outermost frame walks the entry |
| `RelationshipResolverProofs!KeysAlwaysNamed` | `EveryKeyIsNamed` | `EntryInv`: the keys of the entry the walk is past are named or missed; `LabelsInv` for the age of the names |
| `RelationshipResolverProofs!LabelsAlwaysRecent` | `LabelsAreRecent` | `LabelsInv`: one bound on the labels of every cached object as of its own time, and twice that bound on each copy; an object that is read again after its target was cached adds the two ages up |
| `RelationshipResolverProofs!CallsAlwaysBounded` | `CallsAreBounded` | `CountInv`: the calls made are at most the keys of guarded records *less those a frame has not come to*. The property alone is not inductive: the keys still to come would have been paid for |
| `LlmTurnProofs!TurnTypeCorrect` | `TurnTypeOK` | with `CallsInv` |
| `LlmTurnProofs!KeywordPlanAlwaysRuns` | `KeywordPlanRuns` | `PlanInv`: once words were read, the plan is the keyword planner's for them. One lemma per rule: all its steps are sound (a dependency is earlier and of the kind the step needs); sound plans are executable |
| `LlmTurnProofs!DataAlwaysSurvivesOutage` | `DataSurvivesOutage` | `PlanInv`, and that some rule with intent data applies to a question that names a facet |
| `LlmTurnProofs!ModelCallsAlwaysBounded` | `ModelCallsAreBounded` | `CallsInv`: a bound on the calls made so far for each place in the turn |

## 6. Only model-checked

- Liveness: `CallsEnd`, `WalksEnd`. They need fairness, and with it
  `ENABLED`, which the prover does not know.
- The counterexamples of the two runs that expect one.

Folds and sorts are reasoned about without the library's induction theorems, whose
parameter is an operator: induction is over a *set* of numbers or of subsets that has
the least one and with each one the next (`UpFromZero`, `SubsetsUp`), which rests on the
order of the naturals being well-founded; a fold is known only by the equation it solves
(`Recursion`).

## 7. Not modelled

- wording, formatting, trimming, traces, token counts and logging;
- the LLM-free summary the generator writes when the model is down;
- how words are recognised in a question, and the fields and values of a recognised aggregate;
- memory scoring and its limit of five: any of the thread's rows may be retrieved;
- logout, which nothing calls, and anonymous access, which needs no token;
- the aliasing of cached records elsewhere than in the relationship resolver;
- a backslash in a label, which `re.sub` reads as an escape; blanks between `#` and a number;
  upper and lower case, which the comparisons ignore;
- API discovery, tool factory, loading of configuration, and of the mock server all but its search.

## 8. Plan

Order: the pipeline first, since every answer goes through it; then what it stands
on; then the algorithms inside the nodes.

1. *(done)* `AgentPlan`, `AgentGraph`, `AgentProperties`; runs `talk`, `restart`,
   `data`; type correctness, freshness, isolation.
2. *(done)* `ErpTransport`, `ErpCache` against `ErpReads`; runs `transport`, `cache`; the shared login.
3. *(done)* Algorithms of the nodes, against a reference definition: `AnalyticsService`,
   `JoinEngine`, `RelationshipResolver`, `ClarificationDialogue`.
4. *(done)* Planning: `FallbackPlanner`, `LlmTurn`.
5. *(done)* `Conversation`, which `AgentGraph` implements.
6. *(done)* Theorems of section 5.
7. *(done)* Theorems on the dialogue, on counts over a join and on the analytics service:
   each invariant and action property that a passing run checks is a theorem.
8. Modelling left: the order and limit of the memory search, anonymous access.
