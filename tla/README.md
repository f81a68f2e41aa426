# Formal model of the hotel-insights fellowship

This directory specifies the application in `src/` in TLA+, model-checks it with
TLC on small instances and proves its main safety properties with TLAPS for
every value of the constants. `PROJECT.json` lists runs, mutants, theorems,
hazards and, per definition, the source lines it models.

## The system

A FastAPI application answers questions about a hotel portfolio. A message goes
through these parts:

    router -> ChatService / SSEChatService -> LangGraph (one node, checkpoints)
           -> GandalfAgent.run -> specialist agents -> LLMProviderRouter -> providers

Beside it, a seed job fills the PostgreSQL database that the specialists and
the report pages read.

| Part | State | Operations | What is hard |
|---|---|---|---|
| Supervisor (`gandalf.py`) | execution context: compliance, contexts, draft, review, question, revision count | plan, skip, call, apply result, fallback draft/review, revise, deliver | the plan comes from a model; results are open dictionaries; two loops |
| Specialists (`aragorn.py`, `samwise.py`, `elrond.py`, `radagast.py`, `bilbo.py`, `faramir.py`, `tools.py`) | none of their own | one call each: choose, read, write, retry | what unusable output of a model turns into |
| Memory (`samwise.py`, `tools.py`) | store namespace `(user, "preferences")` | put the display name, search | one namespace for all threads of a user, and for all users without an id |
| Chat thread (`graph.py`, `graph_input.py`, `chat_service.py`, `agent_state.py`) | LangGraph checkpoints of the thread | decide new/resume, start, answer, pause with a question, resume, fail | overlapping messages, crashes, replay of the node, reconnects |
| Event stream (`sse_chat_service.py`) | labels and answers emitted, activities, finalized messages | progress, update, close, fail, cancel | the page must be consistent wherever the stream ends |
| Model calls (`base.py`, `llm_provider_router.py`, the adapters) | `last_usage` of each adapter and of the router | dispatch, return, raise | a field shared by concurrent requests; errors mapped three times |
| Startup/shutdown (`bootstrap/`, `database.py`, `persistence.py`) | engine, checkpointer, store | make missing tables, open in order, close in reverse | replicas and the seed job make the same tables; failures in the middle |
| Seed job (`seed_hotels.py`, its Kubernetes job) | one transaction over 43 tables | drop, create, fill, derive; retry | the order of the statements; locks; joins before sums |
| Hotel and report queries | none | read a page's tables one after the other | the tables are being rebuilt |
| Routers, request identity, weather adapter | none | - | - |
| Evaluators and evals, agent configuration, observability, infrastructure | outside the running program, or without state | - | - |

The parts interact by awaited calls. Shared state is the thread's checkpoints
(all requests of a thread), the store (all threads of a user), `last_usage` (all
requests) and the database (replicas, pages, seed job). A replica runs in
one event loop, so within it control changes hands only at an `await`.

## Modules

| Module | Models | State and actions in the code |
|---|---|---|
| `AgentResults` | what passes between specialists and supervisor | the keys of a result, the keys each agent owns and may add |
| `Supervisor` | `GandalfAgent.run`, one run | `pc` is the position in `run`/`_execute_tool_plan`/`_answer_capability_question`; `compliance`, `known`, `answer`, `review`, `asked` are the execution context; `verdict`, `refused`, `vetted`, `drafted`, `texts`, `calls` only record what happened. One action per branch; `Apply` is `_apply_agent_result` |
| `Fellowship` | what the docs promise of a run | abstract: a ruling, reads under it, drafts, reviews, an outcome; whoever is asked may have a question, and the run may end with it (`Goes`). Refined by `Supervisor` (`KeepsPromise`) |
| `Specialists` | the calls behind `call_agent`, many at once, and the store | `call[c]` is one call: `Choose` is Elrond's choice of tools and Radagast's of a location, `Read` a query, `Write` the answer with its fallbacks, `AskAgain`/`Retry` Faramir's second attempt (his empty answer is among the `words` he got), `Store`/`Remember`/`Load` Samwise |
| `ChatThread` | the requests of one thread | `ckpts` are LangGraph's checkpoints; `HasPendingInterrupt` and `Check` are `has_pending_interrupt` (a graph without a checkpointer included: `Checkpointed`) and `build_graph_input`, `StartNew`/`StartResume`/`StartNothing` the start of `astream`/`ainvoke`, `Answer`/`Rerun`/`Pause`/`Fail` the node `gandalf_wrapped`. The run of the supervisor inside the node is one nondeterministic result. `sent` remembers which messages overlapped and whether something broke |
| `SseStream` | `SSEChatService.stream_chat` | `memo` are the local collections of `stream_chat`; `page` is what the events sent have put on the page, one variable per slot of `chat_request.html`; `ActivityEvents`/`FinalizeEvents` are the event builders, `ShowText` the rendering of an answer |
| `LlmCalls` | adapters, router, chat model, `process_chat`'s error mapping | `adapter` and `router` are the `last_usage` fields |
| `Warehouse` | the statements of `seed()`, in order | `Script`: what each drops, makes, fills, refers to and reads; `After`: what it does to the tables; `Outcomes`: what a part of the script leaves, nothing when a statement of it is refused. `ScriptInOrder` says what the order has to be |
| `Deployment` | seed job, replicas and pages around one database | `job` is the try in progress, `own` the tables of its transaction, `held` the names it has locked, `Execute` the next part of the script, `Abort` the rollback and retry; `CheckTables`/`CreateTable` are `create_all`, `OpenNext`/`CloseNext` the container; `Query` is one query of a page |
| `Publication` | what the database promises its readers | abstract: the edition that is out, what each reader has been shown, who was turned away. Refined by `Deployment` (`KeepsPublishing`): an edition is a committed run of the job |
| `Reports` | the figures of the reporting marts | `SeedDay` draws the facts of a hotel and day, `CreatePl`/`CreateFlash`/`CreateQbr` are the selects that derive the marts |
| `MC*` | values of the constants for TLC | |
| `SupervisorProofs`, `SpecialistsProofs`, `ChatThreadProofs`, `SseStreamProofs`, `LlmCallsProofs`, `DeploymentProofs` | theorems and proofs about the module of that name | |
| `WarehouseProofs` | lemmas about executing parts of any script that is in order, used by `DeploymentProofs` | |
| `ScriptProofs` | the proof that the script of `seed_hotels.py` is in order | |

`AgentResults` is the seam between `Supervisor` and `Specialists`: the first
takes any result its `Replies` allows, the second is shown to produce no other
(`ReplyAsSupervised`). `Warehouse` is the seam between `Deployment` (when
statements run, and beside what) and `Reports` (what a few of them compute).

### Abstractions

* A text is a number (Supervisor), a request (ChatThread) or one of four kinds
  (SseStream). An agent's result is, for the supervisor, the set of its keys
  that steer it and the two truth values it reads; for the specialists, an
  object with keys and a set of words under each. `Stray` says which further
  keys a model may add to an open dictionary.
* What `parse_json_object` finds in a model's text is any object of `Answers`, or
  `Prose`. How it cuts the object out of the text is left out.
* `_call_agent` returning `{}` is left out: with the registry of `tools.py` every
  agent has a tool and every tool returns an object. Gandalf gives Radagast
  an empty location always, so the location he uses is his model's.
* `remember_user_preference` is never run, because `PortBackedChatModel.bind_tools`
  returns the model unchanged and reads no tool calls. The store therefore
  holds one key per namespace, `display_name`, and the limit of ten preferences
  cannot be reached.
* Elrond does not look at `needs_clarification` when his model has chosen valid tools.
* LangGraph is modelled from how `graph.py` uses it and marked external: a run
  works on a copy of the checkpoint it loaded, a pause or failure saves the
  resume values heard so far, a resumed node starts again. A blank clarification
  (graph.py:120) cannot be sent: the chat form refuses it (insights.py:206). The
  matching of a short clarification with an option (graph.py:122-130) only
  changes its wording.
* `setup()` of the checkpointer and of the store (persistence.py:34, :38) is
  LangGraph's own migration of its own tables, which nothing else in the
  repository touches. It is part of `OpenNext`; a replica that loses a race in
  it is one that breaks while starting (`BreakStart`).
* PostgreSQL is modelled as read-committed transactions with the locks of CREATE
  and DROP TABLE. Several statements of the script are one step where only the
  first of them can wait or make another session wait; the creation of
  `hotels` is a step of its own because a replica's `create_all` may race with it.
  Columns and rows are left out: a table has a run number and is empty, partly or
  wholly filled. The page `flash` stands for the four single-report endpoints.
* In `Reports` the labor cost of a department is any number that grows with what
  is sold (`1 + sold`): nothing depends on its value.

## What the runs check

| Run | Question | Bounds |
|---|---|---|
| `supervisor_safety` | gates, review, grounding, revision budget, questions, termination, refinement of `Fellowship` | every plan of at most 4 agents, all six agents, any results; Elrond and Aragorn may add a context key, Faramir a question to the user (his object is passed on as it is) |
| `specialists_calls` | do results fit the supervisor, do gates fail closed, is data read or a question asked, does a name stay with its user, does every call end | 3 calls at once, two of them of users without an id; 2 tools of Elrond |
| `thread_requests` | own answers, service, new or resume, which clarifications a waiting request keeps | a graph with a checkpointer, 3 messages, 3 arrivals (a reconnect is an arrival), every fault |
| `stream_page` | the page at any moment of a stream | 4 labels of 3 agents, 5 emissions, 2 deliveries of the update |
| `calls_usage` | shared usage fields, causes of errors | 3 calls, 2 providers |
| `deployment_seed` | is what is committed always the whole warehouse of one run, refinement of `Publication`, does a page ever show an older run after a newer one, does the job fail only by a fault, can job and replicas wait for each other, do replicas start, do pages end | 2 replicas of which 1 is shut down, 1 visit, the job started twice with 2 tries each, 1 fault |

Why these bounds are enough. Four agents give every order of two specialists
around a draft and a review, and an agent named twice; the revision loop does
not depend on the plan's length. Two users without an id and one with give
sharing and separation in the store. Three messages give a question and two
competing clarifications. Five emissions over four labels give returning
agents and repeated labels. Two replicas race for the same tables; a second run
of the job finds the tables of the first, and of the replicas. A job has two
tries (not one) because a replica's `create_all` can cost it one of them:
that is the race of `CREATE TABLE hotels` and `JobFailsByFault` says that it
costs no more.

Deadlock checking is off where the system may stop: a thread nobody writes to,
a closed stream, calls and pages that are done, a job nobody starts again. In
`Supervisor` the end is an explicit self-loop (`Done`), so deadlock is checked.

Properties of `ChatThread` are stated with the history they need rather than
for separate kinds of behaviour: `NoneFallsThrough` and `ClarificationsKept` as
long as no message overlapped another, `PendingMeansPaused` and
`ClarificationsComplete` as long as, besides, nothing broke. Without it they do
not hold: `graph_input.py:44` looks at the checkpoint long before the run starts,
and two resumed runs save their resume values over each other.

`ClarificationsKept` does not say that no clarification is ever lost, for some are.
It says that a request whose node has not ended stays the thread's request with the
clarifications saved for it until it is answered, and that a run that ends with a
question or in a failure saves what its supervisor has heard. Lost is a clarification
that no `interrupt()` had taken when the run failed, and may be one heard by a run
that crashed or was cut off. `ClarificationsComplete` is about a question that is
open: the resume values kept with it. What an answer has heard is the subject of
`ClarificationIsHeard`, which the run `thread_replay` refutes.

`QuestionEndsRun` has two halves. A run that returns a question has asked it in a
planned call, after which nobody was called. A question asked is returned, unless
Bilbo or Faramir asked it in a fallback or a revision: there `run()` does not look
(gandalf.py:315-382), and the question is dropped.

Runs with an expected violation, one per disagreement of the code with what is said of it:

| Run | What happens |
|---|---|
| `supervisor_unreviewed` | plan `[aragorn, ..., faramir, bilbo]`: the approval of the first draft releases the second |
| `supervisor_blocked` | plan `[aragorn, aragorn, elrond]`: a second ruling undoes a refusal and data is read |
| `thread_failure` | the message after a failed run is taken for a clarification |
| `thread_replay` | the replayed supervisor does not ask again: the clarification is never read |
| `deployment_reviews` | `GET /reviews` fails once there are reviews: the repository returns dicts, the service calls `model_dump()` on them |
| `reports_quarter` | `rpt_usali_monthly_pl` joins the five department rows of a hotel and day before it sums revenue: monthly and quarterly totals are five times those of the daily flash. The run has 2 hotels, 3 days in 2 months and 2 departments |

Further disagreements were met and are not runs:

* a provider that is not available is shown as the answer while a step is still
  active (sse_chat_service.py:334 against :184);
* radagast.py:49 promises to wrap text that is not usable, but JSON that is no
  object raises at `setdefault` (:58): `Specialists!NoSetdefault`. The call then
  fails, and with it the run;
* `messages` is documented as the full conversation history (agent_state.py:31)
  and holds one request (:85);
* a read timeout of llama.cpp whose text lacks the word is not mapped to
  `ChatServiceTimeoutError` (chat_service.py:130 and :160), an OpenRouter that
  cannot be reached not to `LLMProviderUnavailableError` (chat_service.py:98,
  openrouter_adapter.py:148); both can be read off `LlmCalls`, which is why
  `CausesAreKept` is as weak as it is;
* a period without rows is reported as "Run the hotel seed job first.";
* the open capital budget of a hotel is summed over the months of a quarter
  (seed_hotels.py:2107), and the daily flash shows a monthly gop on every day;
* the index page reads its four reports in four transactions and may show two
  seed runs beside each other (`Deployment!Query` lets it happen;
  `PagesNeverGoBack` is what remains true of it).

## Fairness

* `Supervisor`: weak fairness of every step that is not an exception. The event
  loop runs the coroutine on; an awaited call comes back or raises. The llama.cpp
  and weather clients have timeouts; the OpenRouter adapter stores
  `timeout_seconds` but does not pass it on, so there the assumption rests on
  the library.
* `Specialists`: weak fairness of each call's steps, on the same grounds; an
  exception is never required.
* `ChatThread`: weak fairness per request of everything the server does for it,
  never of sending, failing, crashing or disconnecting.
* `SseStream`: weak fairness of the generator's own steps; closing does not rely
  on an error. `Closes` is about a stream whose run has started: it ends with
  "done", or the client has gone. A checkpoint that cannot be read breaks a stream
  before, without "done" (sse_chat_service.py:123), and is outside the property.
* `Deployment`: weak fairness of the job's statements, of each replica's start
  (restarts included: Kubernetes starts a failed container again) and closing,
  and of each page's queries. Nobody has to start a job, stop a replica or ask
  for a page, and nothing has to break. That a session waiting for a lock gets
  it is in the guards: the lock is free when the transaction has ended.
* `LlmCalls` and `Reports` state no liveness.

## Proofs

`SupervisorProofs` proves for any set of plans of any length:

* `TypeCorrect`: `[]TypeOK`.
* `ReadsAreCleared` (assumes `OnlyAragornClears`). The inductive part is
  `ClearanceInv`: outside the capability path the compliance status is Aragorn's
  latest word. Without it the guard of a call says nothing about Aragorn.
* `RefusalEarned` (no assumption), from `RefusalInv`: judging happens only with a review.
* `QuestionEnds` (no assumption: any agent may ask), from `QuestionInv` and
  `CallsInv`: while the plan runs nothing has been asked, and the calls of Bilbo and
  Faramir are at least their places in the part of the plan that is behind. A call
  more than the plan has is therefore one of a fallback or a revision. `EndInv`
  says that a run has an outcome exactly when it is done.
* `AnswersAreReviewed` (assumes `OnlyFaramirJudges`, `OnlyBilboWrites`), from
  `ReviewInv`: an approval always concerns some text, and one that has gone
  stale still has a Faramir ahead of it in the plan.
* `AnswersAreGrounded` (assumes `OnlyFaramirJudges`, `OnlyBilboWrites`,
  `DraftersAddNoData`). A property of the end of a run about
  its beginning: `GroundInv` carries, for every Bilbo already called after whom only
  writers follow, that the latest draft knew all that is known, and from the end of
  the plan on that it does if the plan gathers first.
* `CallsAreBounded` (no assumption), from `CallsInv`: the calls of an agent are
  at most its places in the part of the plan that is behind; after it, its `Budget`
  and the revisions. The lemmas `CalledSoFar` and `CalledWithinPlan` count the places
  of an agent in a prefix of a plan.
* `RunKeepsPromise` (assumes `OnlyAragornClears`, `OnlyFaramirJudges`, `OnlyBilboWrites`, nothing on plans): the
  initial state is the abstract one and every action maps to an abstract step or
  a stutter. Only the answer of a plan that denies Faramir the last word is
  exempt (`PromisedOutcome`). `DraftInv` supplies that a review always has a draft.

The `Only...` assumptions say that a steering key comes from its owner, and
`DraftersAddNoData` that Bilbo and Faramir return no context. They are
constraints on `Stray`, the keys a model adds to its JSON; the code does not
enforce them (`_apply_agent_result` ignores the agent's name), so they are
named, and each theorem uses only those it needs.

`SpecialistsProofs` proves for any number of calls, users and tools, and for
whatever objects the models write:

* `CallsTypeCorrect`: `[]TypeOK`, nothing is read twice, and no call gets
  more than two answers of its model. The empty answer that makes Faramir ask again
  counts, so he asks again once.
* `RulingsFailClosed`: `[]FailsClosed`; `DataOrQuestion`: `[]QuestionOrEvidence`;
  `NameIsRemembered`: `[]NameIsFound`. No assumption.
* `ResultsFit`: `[]ReplyAsSupervised`, as long as the models of Aragorn, Elrond
  and Faramir, whose objects are passed on, keep to their keys (`ModelsKeepKeys`).
  Together with `SupervisorProofs` it closes the gap between the two
  modules: the supervisor's theorems speak of the results the specialists give.

The invariant `IInv` says, for each await a call may be at, what it has read and
heard there (`CallInv`): a finished call alone does not tell what its model was
asked. For the memory it says that names are kept under their user (`OwnNames`)
and that a call past storing finds its own among them (`Remembers`). There is one
lemma per kind of step on the record of a call, one per action on the state.

`ChatThreadProofs` proves for any number of messages and arrivals, under every fault:

* `ThreadTypeCorrect`: `[]TypeOK`, with `ModeInv` (a message is resumed only when
  there is a checkpoint). `CheckpointStep` is the lemma the rest builds on: a
  step leaves the checkpoints alone, adds one, or changes what one of them says
  about its pause.
* `AnswersAreOwn` (`[]OwnAnswer`), overlapping messages included. `NewRunInv` is
  the inductive part: the run of a new request works on its own checkpoint and
  has no resume value, so it cannot have heard anything.
* `NothingFallsThrough` and `ClarificationsSurvive` (`[]NoneFallsThrough` and
  `ClarificationsKept`, see above for what that leaves out), from `AloneInv`: as long
  as nothing overlapped, at most one request is in progress, a message taken for a new
  request finds no node pending, and a run works on the latest checkpoint and
  knows all that is kept there. That a waiting request is not replaced needs the
  second of these.
* `PendingIsPaused`, from `PausedInv`.
* `ClarificationsAreComplete` (`[]ClarificationsComplete`: the resume values of an
  open question, not what an answer has heard), from `KnowsInv`: as
  long as nothing overlapped or broke, what a run has heard, what it was resumed
  with and what the thread keeps are, each at its moment, exactly the
  clarifications answered since the question, in the order they were sent. The
  order comes from `ArrivalInv` and `YoungestOpen`: arrivals are numbered, and the
  request in progress is younger than those that are done.

No theorem assumes anything about the faults that may occur, or about `Checkpointed`:
the history each property needs is part of the property.

`SseStreamProofs` proves for any labels, agents and number of deliveries:

* `Typed`: `[]TypeOK`. The lemma `ActivityAppended` says what appending a label does to
  the activities: their number grows by at most one, all but the last stay as
  they were, and no label is lost.
* `StepsComplete`, `ActiveLatest` and `AnswersEndSteps`, from `StepsInv`: until the
  answer exactly the activities before the last are completed and the last is
  active; with the answer all are, and no label can follow it. Without the
  equation between the two lengths a step could be completed twice.
* `ShownExactlyOnce`, from `AnswerInv`: the text returned, the set of texts
  remembered as shown and the list of answers sent always agree.

`LlmCallsProofs` proves for any number of calls (`CallAssumption`: a call is not
the word for "none"):

* `Typed`: `[]TypeOK`, and `UsageNotMixed`: `[]UsageIsOwn`.
* `CausesKept`: `[]CausesAreKept`, from an invariant that ties what was raised to
  the provider and the error it came from.

`DeploymentProofs` proves for any number of replicas, visits, runs, tries and faults:

* `Typed`: `[]TypeOK`, `WarehouseIsWhole`: `[]CommittedWhole`, `NoPageGoesBack`:
  `[]PagesNeverGoBack`.
* `JobsFailByFault`: `[]JobFailsByFault` (assumes `Attempts > 1`: the job's
  `backoffLimit` is 1, so it has two tries; with one try it does not hold, a
  starting replica can cost it).
* `NobodyWaitsInCircle`: `[]NoWaitInCircle`, from `WaitInv`: the job and each
  replica come to hold `hotels` before `guest_reviews` (`InTurn`, `HeldInTurn`).
  That a replica which has made a table misses only `guest_reviews`, and that
  whoever holds `guest_reviews` holds `hotels`, which the replica has, gives
  the property. For the job it needs that its first part makes none of the two
  and drops both, and that its second makes `hotels` (`OrmInScript`).
* `WarehouseIsPublished`: `Spec => KeepsPublishing`, the refinement of
  `Publication`. A commit of the job is the next edition, a query shows the
  edition that is out or turns the page away, the rest are stutters, a
  replica's commit included. `PublishInv` adds what this needs: a
  running job is of a later run than what is committed (so editions grow), and a
  page of report tables never shows run 0 (so a page that has shown
  something cannot meet a missing table while nothing is published).

They share one inductive invariant (`Inv`), of these parts:

* `SeedInv`: the tables of the transaction are those its executed statements
  make, filled and complete as far as those say (`Warehouse!Built`), and it holds
  no name it has not dropped.
* `NamesInv`: a dropped name that it does not hold can come back only as a table
  of the application, made by a replica, and only in the first try of a job
  without faults; a failed try leaves those tables there, to be dropped and
  held by the next. This is why a race with the replicas costs one try.
* `ReplicaInv`: what a replica has made, what it is about to make and what is
  there are together the tables of the application, so `create_all` commits
  both or finds both.
* `ShownInv`: what a page has shown is not newer than what is there.

The script enters these proofs only through `ScriptMakesAll`: every statement
names only tables that statements before it have made (and, where it computes from
them, finished), nothing is made twice or without having been dropped, and in
the end every table is complete, those of the application among them. `WarehouseProofs`
shows for any such script what executing a part does, from the first refused statement
on or up to its end, by induction on the statements. The induction is over the least
number of a set (`SetInduction`, from the well-foundedness of the naturals), because
the library's own induction theorems take an operator as parameter.

`ScriptProofs` proves that the script is such a one: `ScriptIsInOrder`. It is a closed
formula about 86 statements and 43 tables, too large to be expanded at once. The proof
walks through the script phase by phase: a `Stage` holds the names that have been dropped,
made, filled and finished so far, each phase is shown to fit behind the stage it starts
at and to lead to the next (`Fits`, `Leads`, one `...Lead` lemma per phase), and
the stages are chained through the four parts (`PartOneGoes` to `PartFourGoes`).
A statement moved before one it depends on breaks the lemma of its phase.

The property of each theorem but `ScriptIsInOrder` is also checked by a run, and every
invariant, action property and refinement of the passing runs has its theorem. Only model-checked:

* liveness (`Terminates`, `CallsEnd`, `Served`, `Closes`, `ReplicasStart`,
  `PagesEnd`), which the prover cannot do under fairness;
* the expected violations.

## Not modelled, and the plan

In this order:

1. `ChatThread` and `SseStream` composed over one thread: the updates of the
   stream become the run's reply.
2. An abstract specification of the thread for `ChatThread`, as `Fellowship` is one for
   the supervisor and `Publication` for the deployment.

Not planned: the text of pages, prompts and reports, HTML, YAML loading, tracing,
unit conversion, the random data of the seed job, the offline evaluation scripts
and the manifests beyond the job's retries. They keep no state the properties
are about. The agent registry's `list_agents` and its answer for an unknown
agent cannot be reached from Gandalf. Status codes are not modelled: which
exception becomes which page is a table in the code.

The online evaluator (`run_online_langfuse_evaluators.py`) is one call of the
Langfuse client per round: which traces are fetched, when they are scored and
when they are tagged, hence what a crash between the two leaves behind, is
inside that library and not in this repository. Its own guard against scoring a
trace twice, `already_scored`, is not called anywhere.
