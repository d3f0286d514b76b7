# Verification of Agentic_MLOps

TLA+ models of the agent core, the API, the gateway, the MCP servers and the RAG engine of Agentic_MLOps,
checked with TLC and, safety and refinement, proved with TLAPS. The code is the reference: every definition that
models code is listed in `PROJECT.json` under `map` with the lines it stands for. Paths below are relative to the
repository; `hermes/` is `packages/agent-core/agent_core/hermes/`, `api/` is `apps/api/api_app/`, `gateway/` is
`packages/mcp-gateway/mcp_gateway/`, `servers/` is `packages/mcp-servers/mcp_servers/`, `rag/` is
`packages/rag-engine/rag_engine/`.

    tlc -config Executor.cfg MCExecutor        # a run: module and .cfg as in PROJECT.json "runs"
    tlapm ExecutorProofs.tla                   # the proofs of a module

## 1. The system and its parts

A user's message reaches the API, which asks the planner for a plan, builds an executor and starts it
as a background task of the same asyncio event loop. The executor runs the steps of the plan in
batches of up to three concurrent tasks, each of which calls a tool through the MCP client; the
gateway checks token and role, routes, audits and answers. A failed step makes the executor ask the planner
for a new plan. Events go to clients by SSE, state goes to Redis.

    user --POST messages--> API --create_plan--> Planner --manifest--> CapabilityRegistry
                             |  create_task
                             v
    user --POST confirm---> DualLoopExecutor --call_tool--> MCP client --token--> gateway --> server
                             |  emit      \--replan--> Planner                     | audit
                             v             \--save--> Redis (short-term memory)
    user <--GET stream---- StreamingOutput + EventStore

| part | state it keeps | operations | what is hard | what makes it correct |
|---|---|---|---|---|
| **Dual-loop executor** `hermes/executor.py` | execution state (step states, task status, observations, replans); ready list, batch, completed set; confirmation events and answers | `execute`, `_outer_loop`, `_execute_step`, `_wait_for_confirm`, `confirm_step` | step tasks of a batch interleave; answers race timeouts; exceptions at any call; nobody validates the dependencies | order of dependencies, each step once, no step without a fresh approval, no task outliving its batch, observations in a possible order, termination |
| **Event streaming** `hermes/stream.py` | event counter, subscribers with bounded queues, a store of the newest 100 events | `emit`, `close`, `stream`, `get_since` | replay suspends between store and subscription; a queue overflows; several executions share one store | order, no holes, subscribers get everything since they subscribed, streams end |
| **Agent API** `api/routers/agent.py` | `_executors`, `_streams`, background tasks; status in Redis | POST messages, POST confirm, GET stream, GET status | two messages at once replace each other's registrations; a background task dies; the process restarts and only Redis is left | no dead executor registered, the active one reachable, the status the one last saved, listeners released |
| **Short-term memory** `hermes/memory.py` | four Redis keys per session with expiry, a sorted set per user | create, append, set, save, delete, get, list | keys expire separately and at any moment; delete is two round trips, get three | the history is the newest run of messages and readable; readable sessions are listed; a history goes with its session |
| **Planner** `hermes/planner.py` | the messages and attempt of a call | `create_plan`, `replan` | any reply of a model; revisions of revisions | high-risk steps confirmed; whitelists kept over revisions; ends |
| **MCP client** `hermes/mcp_client.py` | token, expiry, refresh token | `get_token`, `call_tool`, `list_available_tools` | concurrent renewal, refreshes that are refused; clocks and delays; a retry beside the attempt given up | no token expires on its way; an answer belongs to its attempt |
| **Gateway** `gateway/{gateway,router,audit,auth,rbac}.py` | the audit log; issued refresh tokens | tool endpoint, `route`, login, refresh | server hangs, fails, is unknown | at most one audit entry per request, telling what the answer tells, and none missing of a request that a server got to |
| **Gateway capability registry** `gateway/registry.py` | registrations, cached manifest | register, deregister, `get_manifest` | a build suspends in the loop over a dict that changes | staleness bounded by the TTL; calls end |
| **Jupyter server** `servers/jupyter/` | kernels with their namespaces, in memory | create, execute, restart, list | code that hangs the server, ends it, or is evaluated and then executed; attempts given up that run all the same | lost work is noticed; effects bounded by attempts |
| **Feature-store and data-catalog servers** `servers/{feature_store,data_catalog}/` | registered views and jobs; tables | register, materialize, reads | repeated calls | a view is registered once |
| **RAG ingestion** `rag/ingestion.py` | none | parse, `chunk_text` | windows that overlap, sentence ends at their edges | every character but whitespace is in a chunk; the loop ends |
| **RAG vector store** `rag/retrieval.py` | an external collection | `index_chunks`, `search`, `delete_document` | a batch fails half-way; ids are reused | a document keeps what it was indexed with, but at ids that others take |
| **PII masking, skill library, intent parser, critic, embedding, shared library, web, deployment** | none, or a dict | - | - | - |

`PROJECT.json` "components" lists every part with its status, "hazards" every place in this code that is
hard to test, with the properties aimed at it.

## 2. Modules

| module | models | state and actions |
|---|---|---|
| `Executor` | one call of `execute()`, its step tasks, and confirm requests | asyncio switches only where a coroutine suspends, so an action is the code between two suspension points. `Loop`: `StartBatch` (all tasks of a batch run to their first suspension), `GatherReturns`, `ProcessObservation`, `ProcessFailure`, saving, replanning (with failure), the end and the ways out by exception. `StepTask(s)`: a tool call succeeds, fails, is left by an exception; backoff; the confirmation wakes or times out. `ConfirmStep` may come at any time and for any step id |
| `TaskLifecycle` | what readers of the events are promised | abstract: rounds of steps, new plans, one outcome. `Executor` implements it under the mapping `Lifecycle` |
| `RunLifecycle` | what the API, and whoever reads the saved status, may count on of one execution | abstract: it runs, waits for the user or not, saves "running" on its way and a final status at its end, is left by an exception only while nothing waits, or is killed. `Executor` implements it under the mapping `Run`, `Session` under `Run(r)` for each of its executions |
| `EventStream` | the outputs of a session's executions, the store they share, clients | per output `Emit`, `Close`, `EmitAndClose`; per client `Open` (the request), `Connect` (the generator starts and reads the missed events), `SendReplay`, `EndReplay` (subscribes), `Receive`, `ReceiveEnd`, `Disconnect`; `Lose` (the process ends). It says what these do; `Session` says when |
| `Session` | the API around one session, composed with `EventStream` | handler n starts execution n: `SendMessage`, `HandlerEnds`, `StartExecution` (registers); the execution is reduced to `Begins`, `Emits`, `Pauses`, `WaitTimesOut`, `SavesProgress`, `SavesOutcome`, and its two ways out `Ends` and `Raises`, which unregister and close in the order of the code; `Confirm` and `OpenStream` go through the registries; `Restart` leaves only Redis |
| `ShortTermMemory` | the keys, their expiry, the sorted set of a user | a pipeline is an action; deletion is two, `get_session` three (`ReadMeta`, `ReadMessages`, `ReadVars`); `Tick`. `list_sessions`, with its limit, is an operator |
| `Planner` | `create_plan`, plans from skills, `replan` and the retry loop | the reply of the model is any list of steps, no list at all, or an error |
| `TokenProvider` | `get_token` by concurrent callers, with time; the gateway's issue, refresh and check | `UseCached`, `Renew`, `Issue` (by refresh token or password), `Obtain`, `RefreshFails`, `LoginFails`, `Arrive`. The provider counts a token's life from the response, the gateway from the issue; a message takes up to `MaxDelay` |
| `ToolServers` | the MCP servers | what each tool does to the kernel, the feature views or nothing, `Crash`, `Reboot`; a Jupyter server does one thing at a time |
| `ToolCall` | the calls of a plan through agent, gateway (token, role, dry run, lookup, server, audit) and `ToolServers` | every party waits with its own timeout and does not stop the next; an attempt given up may run beside the next, and beside the next call. Token and registration are looked up per request, with any result (`Unauthorized`, `NoServer`); `Garbled` is an answer that is not what MCP asks for |
| `CapabilityRegistry` | the registry and its manifest builds | `get_manifest` suspends at each server; the dict keeps insertion order and raises when its size changed |
| `Chunking` | `chunk_text` | a text is a sequence of Chinese full stops, periods, blanks, newlines and other characters; `str.rfind` (with the two-character ". "), `str.strip` and slices with bounds below zero behave as Python's do; a chunk is the set of places it covers |
| `VectorStore` | indexing and deletion | batches, any of which may fail, in a collection from ids to chunks |
| `MCExecutor` | plans for TLC | |
| `MCSession`, `MCToolCall`, `MCSources` | the bounds for TLC, and one specification for components that share no state: a variable `part` chosen in the initial state says which of them takes steps, the others stay where they begin | `Session` or `Planner`; `ToolCall` or `TokenProvider`; `CapabilityRegistry`, `Chunking` or `VectorStore` |
| `...Proofs` | the theorems and proofs about `Executor`, `Session` (with `EventStream`), `ShortTermMemory`, `Planner`, `TokenProvider`, `ToolCall` (with `ToolServers`), `CapabilityRegistry`; `RagProofs` about `Chunking` and `VectorStore` | |

`Session` composes the API with the streams, `ToolCall` the agent's calls with the gateway and the servers, by
EXTENDS and conjunction: an action of the one names the action of the other it makes. `Session` and `Executor` meet at a
contract, `RunLifecycle`: `Executor` is proved to implement it, and each of the reduced executions of `Session` to be one of its
behaviours, so what `Session` does with an execution is no more than the executor gives. That an execution pauses finitely often and ends
(`Terminates`) is used for fairness only. Other modules meet at their edges: `ToolCall` is what the calls of `Executor` go through; `Planner` yields plans, of which `Executor` takes any whose step ids are distinct. The prompt asks for distinct ids and no code checks them (`planner.py:309`, `schemas.py:42`), so what `Executor` says is said under that precondition; section 6 has what happens otherwise. External code
is modelled from its use: the language model, Redis (its commands), Qdrant (a map), the asyncio queue.

A definition whose comment begins "Faulty variant" is not part of a specification: it is a plausible mistake in
the definition that follows, and `PROJECT.json` "mutants" says which property catches it.

## 3. Runs

| run | question | bounds and why they are enough |
|---|---|---|
| `Executor` | Is the schedule right in every interleaving? `TopologicalOrder`, `FreshApproval`, `NoOrphans`, `CompletedExplained`, `ObservedInOrder`, `IInv`, `HistoryInv` (with `AnnouncedIsSaved` in `OutcomeInv`); `Terminates`; `ImplementsLifecycle`, `ImplementsRun` | four plans of up to three steps: two held roots before a join, a chain whose last step joins two batches, three independent steps for two places, a self-dependency with a dependency on no step. Two at a time, so there are siblings and leftovers; one retry and one replan, so the second plan is met with leftovers of the first |
| `ExecutorAllStepsCompleted` | violated: a task is COMPLETED with steps that never ran | the same plans |
| `ExecutorFailureIsShown` | violated: an execution that an exception ends is saved as FAILED | the same plans |
| `Session` (`MCSession`) | Are the registries right, and do clients get what was emitted? `IInv` (with `RegistryNeverStale`, `RunsInTurn`, `FinalStatusIsFinal`, `StoreIsRecent`, `SubscribedMissesNothing`, `EndIsComplete`), `ActiveIsReachable`, `ReceivedInOrder`, `ReleasedHaveAll`, `ListenersAreReleased`; `RunsKeepTheirLifecycle` | two messages, apart or overlapping, two events besides the error events, a restart; one client, since clients do not meet; a store and a queue of two, so the store overflows across executions and the queue drops the end marker |
| | Are plans what they may be? `HighRiskConfirmed`, `RevisionsNarrow`, `PlannerInv` (with `StaysInManifest`), `PlanningEnds` | plans of two steps over three tools, two revisions |
| `EventStreamResumeLosesNothing` | violated: an event emitted during a replay is lost | one execution of three events, all of which the store holds; the queue does not overflow |
| `ShortTermMemory` | What do keys, index and readers owe each other? `IInv` (with `HistoryIsRecent`, `HistoryIsReachable`, `ReadableHasHistory`, `ReadableIsIndexed`), `ReadableIsListed`, `HistoryGoesWithSession` | two sessions (deletion of one beside creation of the other), one of them read by `get_session`; a list limit of one, so one session pushes the other out, a life of two ticks, so keys of one session expire at different times, and a history that overflows |
| `ShortTermMemorySessionOrNone` | violated: `get_session` answers with a session or None | one session |
| `ShortTermMemoryEveryKeyExpires` | violated: every key has an expiry | one session |
| `ToolCall` (`MCToolCall`) | What may be audited, completed, lost, done twice? `AuditMatchesAnswer`, `CompletedByItsRun`, `CompletedWorkIsSeen`, `EffectsBounded`, `PlanEnds`, `IInv` | eight plans of two calls, the second building on the first or undoing it; two attempts each, so an attempt given up meets its retry and the next call; a crash besides the ones code causes; one request answered without an audit entry (`MaxUnaudited`), any of them and for any reason |
| | Is a token live when it arrives? `NeverExpiredOnArrival`, `TokenInv` | two callers, two lives of a token, every delay, refreshes refused and lost |
| `ToolCallEveryCallIsAudited` | violated: every call past the token check is in the audit log | the same plans, one attempt each |
| `Sources` (`MCSources`) | How stale can the manifest be? `RegisteredWithinTTL`, `CallsEnd`, `RegistryIInv` (with `NoneAskedTwice`) | two servers, two builds at once, three changes, a TTL of two ticks |
| | Is a text in its chunks, and which texts are cut to their end? `PassedIsCovered`, `CutInv`, `EvenTextsEnd` | all texts of up to five characters of the five kinds, and of up to nine with one kind of stop, for chunks of four that overlap by two: four windows, stops everywhere |
| | What does a document keep? `IndexedIsKept`, `IInv` (with `NewestFirst`) | three calls, two documents, five chunks in batches of two: a full, a second and a short batch |
| `RagCuttingEnds` | violated: `chunk_text` ends, whatever the text | texts of up to five characters |

Where a cfg says `CHECK_DEADLOCK FALSE` the modelled activity ends: an execution, a session that is idle, a
bounded clock, a plan, the loop.

What the passing properties do not say is part of them: `ActiveIsReachable` holds while messages do not overlap,
`ReceivedInOrder` until a client hears of a second output (ids restart), `ReadableIsListed` until as many newer
sessions were created as the limit, `CompletedWorkIsSeen` for plans that do not restart the kernel themselves,
`PassedIsCovered` as long as no window is cut within its overlap, `EvenTextsEnd` for texts whose stops follow one another closely
enough (`EvenlyStopped`), `ListenersAreReleased` for clients that subscribe before the close and have room for the end marker,
`AuditMatchesAnswer` for answers that do not come of a refused token, a tool without a server or an answer that is not MCP's,
`IndexedIsKept` at ids no other document takes, everything about `Executor` for plans with distinct step ids. Sections 4 and 6 say what happens otherwise.

### Fairness

- `Executor`: weak fairness of the loop and of each step task. asyncio runs every ready coroutine; a tool call ends
  because the HTTP client has a timeout; a sleep ends; the confirmation has a timer. No fairness for `ConfirmStep`: nobody has to answer.
- `Session`: weak fairness for a task that can begin, a confirmation's timer, the way from the last save to the end, and a connected
  client's generator; strong for the end of a run, which is interrupted by pauses but, by `Terminates`, only
  finitely often. None for messages, emitting, connecting, disconnecting, confirming or restarting.
- `ToolCall`: the agent and the gateway go on while one of their tasks can, and each has a timeout of its own; nothing is assumed of
  the servers, which may run code for ever and stay down.
- `CapabilityRegistry`: a request to a server ends by its 5 s timeout. `Planner`: a request to the model ends.
- `Chunking`: the loop runs on. `ShortTermMemory`, `TokenProvider` and `VectorStore` state safety only.

## 4. Findings

- **A task is announced as completed with steps that never ran** (`executor.py:150`, run `ExecutorAllStepsCompleted`).
  The loop breaks when nothing is ready. A dependency that is cyclic or names no step, or lies behind a rejected step,
  leaves steps pending, and the line under the comment "All steps completed successfully" marks the task COMPLETED.
  `CompletedExplained` states what holds instead: every step left is explained by such a dependency.
- **A resumed stream loses events** (`stream.py:185`, run `EventStreamResumeLosesNothing`). `stream()` reads the
  missed events, suspends at each `yield`, and subscribes after the last: what is emitted between is neither replayed nor queued.
- **A failed execution is not shown as failed** (`executor.py:315`, run `ExecutorFailureIsShown`). AC-3 of
  `specs/module-1-agent-core/A-03-dual-loop-executor.md:22` has a task whose replanning fails marked FAILED, and AC-6 (`:25`) the status
  RUNNING/PAUSED/COMPLETED/FAILED obtainable by the session query. A result that is an unexpected exception does mark the task,
  but is raised at once, and a `replan()` that raises (`:175`) does not even mark it: nothing is saved, and GET /status shows "running", or that
  nothing was ever saved, from then on. Likewise PAUSED is set but never saved (`:355`; `ImplementsRun` has it that nothing is while a step waits), so the
  query never answers it.
- **A session that expired is neither returned nor None** (`memory.py:160`, run `ShortTermMemorySessionOrNone`).
  `append_message` and `set_variable` write `updated_at` without asking whether the meta key still exists. A session that
  expires, or is deleted, under a request that read it comes back as a key with that field alone, and `get_session`, which promises "SessionMemory
  or None if not found/expired" (`memory.py:135`), raises KeyError. `ReadableIsIndexed` and `HistoryIsReachable` state what holds of such keys.
- **A key is left without an expiry** (`memory.py:206`, run `ShortTermMemoryEveryKeyExpires`). `memory.py:58` says "TTL is 24 hours, reset on
  every write", but `set_variable` writes `updated_at` to the meta key and sets the expiry of the variables only. A meta key that it revives
  stays for ever, unless a later `append_message` gives it an expiry or the session is deleted. `LastingKeyIsBare` (in `IInv`) states that it is such a key and no other.
- **A call is answered without an audit entry** (`router.py:117`, run `ToolCallEveryCallIsAudited`). `audit.py:1` says "audit trail for all MCP
  tool calls", and AC-1 of `specs/module-2-mcp-gateway/G-05-audit-log.md:20` that each call, successful or failed, is in the log. The 502 of a tool without a
  server, and the 500 of an answer that is JSON but not MCP's, which raises outside the `try` (`router.py:147`), are not. `AuditMatchesAnswer` states what holds instead.
- **`chunk_text` does not end** (`ingestion.py:133`, run `RagCuttingEnds`). Its docstring (`:107`) says that it returns a list of chunks. If a window is cut at a stop
  within its first `chunk_overlap` places, the next window begins no later than this one, finds the same stop, and the loop appends the same chunk for
  ever. `EvenTextsEnd` states for which texts it does end.

## 5. Proofs

All proofs hold for every value of the constants that the named assumptions admit, which TLC evaluates in the runs.
Each proof module has one lemma per action (or kind of action) that shows the inductive invariant preserved, and
its theorems read off the properties. Lemmas about sequences and sets come first.

**`ExecutorProofs`** - from `ConstantsAssumption` (finitely many step ids; plans with distinct ids, arbitrary
dependencies; `MaxConcurrent` at least one). `Invariance` is `Spec => []IInv` with

    IInv == TypeOK /\ ScheduleInv /\ TaskInv /\ ConfirmInv

None of the properties is inductive alone. That a step is not started twice needs that the ready list, the batch and the
completed set are disjoint and that the list has no duplicates (`ScheduleInv`), which holds across the processing of a
batch only because a dependent is unlocked by the last of its dependencies, so that earlier results cannot have unlocked
it. That no task outlives a batch needs that a task at work is one of the batch and the loop is at `gather`
(`TaskInv`). That an approval is fresh needs that an event is registered exactly while its step waits, so that an event
that is set was set during this wait, whatever old answers `_confirm_results` holds (`ConfirmInv`). From the
invariant follow `TypeCorrect`, `StartsInOrder` (a step leaves the pending state after each of its dependencies has completed or been
skipped), `ApprovedBeforeRun`, `BatchesAreClosed` and `PauseIsJustified`. (`StepsRunOnce`, an action property, says no more than the
distinct ids of `ConstantsAssumption` allow and is kept as a lemma of the schedule.) `TypeOK` includes that a batch never exceeds `max_concurrent`; with `TaskInv`, no
more than that many calls are ever under way.

`HistoryInvariance` adds `HistoryInv == LeftInv /\ OutcomeInv /\ ObservedInv`, inductive relative to `IInv`. A step that
was started is completed or in the batch, and one that was not is on the ready list or has a dependency that is open or
was skipped (`LeftInv`), so an empty list leaves only explained steps: `LeftStepsExplained`. The status is open until the
end announces it, and the last save comes after (`OutcomeInv`): `OutcomeIsSaved`. The steps observed under the present plan are the
completed set, and a step enters it after its dependencies (`ObservedInv`): `ObservationsInOrder`.

`Refinement` is `Spec => ImplementsLifecycle`: outside `gather` nothing is active (`TaskInv`, `LeftInv`), so
`StartBatch` is `Start`; the end of a step task is `End`; `ProcessFailure` is `AskReplan` or `Fail`; `Replan` is `NewPlan`; the empty list is
`Complete`, whose guard is `LeftInv`; the ways out by exception are `Abort`; results, retries, waits and saves stutter.

`RunRefinement` is `Spec => ImplementsRun`, the other side of the executor. While a step waits for the user the loop is at
`gather` (`TaskInv`), and all saves and ways out are steps of the loop elsewhere: nothing is saved and no exception escapes then, which is
why PAUSED is never seen in Redis. Between batches the task is RUNNING, so what is saved there is "running", and only the last save has
a final status (`OutcomeInv`).

Why it terminates is stated without fairness and proved. `NoDeadEnd`: a batch that is gathered has a task that goes on by itself (a call,
a sleep, a timer) or is complete, and the loop can take every result of it. `NoStepInVain`: every step but a confirm request is a replan,
brings `execute` nearer its end, or leaves less to do for some step of the plan and more for none (`StepsLeft`, `PhasesLeft`). With
n steps that comes to at most `(MaxReplans + 1) * (n * (2 * MaxRetries + 6) + 3)` steps. What is left to TLC is that fairness turns the one into progress and
the other into an end.

**`SessionProofs`** - from `SessionAssumption` and `StreamAssumption`, any number of messages, events, clients and
restarts, stores and queues of any size. The registries and the streams are separate halves of `IInv`. `ActiveIsReachable`
rests on `RunsInTurn`: without overlap only one run exists between its message and its end. The stream half is shown
client by client: `ReceivedInOrder` rests on the order of the store (`StoreIsOrdered`), of each
queue (`QueueIsOrdered`) and on what is still to come being newer than `lastId` as long as one output is heard of
(`ComesInOrder`). Theorems: `SessionInvariance`, `RequestsReachTheActive`, `StreamOrder`, `SubscriptionIsComplete`.

`ReleaseIsComplete` is the promise a client can rely on: when the end marker ends its response, it has got every event that its output emitted since it subscribed,
unless its queue ran over. `SubscribedMissesNothing` ends where `close` forgets the subscriber; from there `EndIsComplete` carries
the claim: the output is closed, the marker is the last in the queue, and all that was emitted lies before it. It is kept because only an execution that
is not over emits, `TypeOK` has the closed outputs among those of executions that are over, and the error event and the marker of `Raises` are put into the queue
in one step. It is also the safety half of `ListenersAreReleased`: a client that was dropped has its release in its queue, or is one whose queue did not
take it (`endDropped`).

`RunsAreExecutions` shows that each execution of the session, seen alone, keeps to `RunLifecycle`: the steps of others are at most a save over its own
(`Overwritten`), a confirmation reaches an execution only while it waits, and a restart kills it or, after its last save, ends it.

**`ToolCallProofs`** - from `ServersAssumption` and `ToolCallAssumption`, any number of calls, attempts and crashes, any set of
plans. `IInv` says that calls come in turn (`CallsInTurn`) and how agent, gateway and server know of a request
(`RequestsMove`: a server knows it only through the gateway, which answers once); that the kernel, while it exists, has the effects of all code
(`WorkIsKept`); and that effects are counted by the requests the servers got to (`EffectsCounted`). `AuditTellsTheAnswer` (at most one entry, true to the answer, and present
wherever a result, a refusal by role or a server that got to the request is behind it),
`LateAnswersDoNotCount`, `LossesAreNoticed`, `EffectsStayBounded`. Two action properties and an invariant say why plans end with attempts at
work beside their retries: an answer, its audit entry and the outcome of a call are final (`OutcomesStay`); each step of the agent or the gateway
uses up an attempt or a hop, and no server gives one back (`NoStepInVain`); until the last call has ended there is one to send or one that waits (`SomeCallGoesOn`).

**`ShortTermMemoryProofs`** - from `MemoryAssumption` (finitely many sessions). A history is never behind a meta key that
expires first because every write that renews the list renews the meta key (`HistoryIsReachable`); a session is in its
user's set while its meta key has its fields, since whoever removes the one deletes the other. `get_session` reads the meta key
first; a history that was there then and is not any more went with the session, since the keys of a session that can be read expire together
(`ReadableHasHistory`). `MemoryInvariance`, `HistoryIsReadWhileThere`, `ListedWhileReadable`.

**`CapabilityRegistryProofs`** - from `RegistryAssumption` (finitely many servers). A build visits servers in the order
of their places, so it knows every older registration it passed that has not changed since it began; a cache is as old as the build that stored it.
`StaleForATTLAtMost` follows for any number of overlapping builds. `EachIsAskedOnce`: a server that is deregistered and registered again
is put behind the build, which may then meet it again, but under a newer registration than any it has asked, and what it has asked and is still registered lies behind it in
the dict (`AskedIsBehind`). So each answer counts against the number of entries the build began with (`NoAnswerInVain`), and changes cannot keep it going.

**`RagProofs`** - `chunk_text` from `ChunkingAssumption` (`Overlap < Size`), for every text. `CuttingInvariance` is `CutSpec => []CutInv`. The end
of a chunk is at most `Size` behind its start and, from a start that is not before the text, behind it (`EndInWindow`: what `str.rfind` finds lies in the window, which needs that a
non-empty bounded set of places has a largest and a smallest). So the next start, `Overlap` before that end, lies within the places covered, and as long as it is behind the last one nothing is skipped
between them: `NothingIsLost`. Where the window is cut at a stop the next one of the kind ends within `Size - Overlap` places, if stops follow one another closely enough
(`EvenlyStopped`), and the last stop in the window is therefore not within its overlap: such texts never set `early` (`EarlyIsUneven`), and every turn moves the start
forward (`EvenTextsAdvance`). A text without ends of sentences, and with an overlap of less than two places any text, is cut into chunks that cover it: `PlainTextsAreWhole`.

`index_chunks` from `StoreAssumption`. The chunks a call has stored are the newest at their ids until the call ends or
another overwrites them; a document's last chunks lie at the ids from `reached` on, which grows with every batch of another document and with nothing else.
`StoreInvariance`, `IndexedStays`.

**`PlannerProofs`** - from `PlannerAssumption`. `StaysInManifest` is not inductive, since `replan` never sees the manifest:
`Whitelists` carries it over (the whitelist of a call is within the manifest, that of a revision within the plan it
revises). `PlannerInvariance`, `HighRiskAlwaysConfirmed`, `PlansUseManifest`, and the action property `RevisionsOnlyNarrow`.

**`TokenProviderProofs`** - from `2 * MaxDelay <= Margin <= Life`, which the clients' timeouts (10 s, 5 s), the margin of
60 s and lives of hours give. The provider's expiry exceeds the real one by at most the delay of the response
(`EstimateIsClose`); a token sent with more than the margin left therefore has more than one delay left
(`MessagesAreTimely`), so it is live on arrival: `TokensLiveOnArrival`, for any number of callers renewing concurrently.

Only model-checked: liveness (`Terminates`, `ListenersAreReleased`, `CallsEnd`, `PlanEnds`, `PlanningEnds`, `EvenTextsEnd`), since fairness and ENABLED are
outside the prover's fragment. For `Terminates`, `ListenersAreReleased`, `CallsEnd`, `PlanEnds` and `EvenTextsEnd` the safety halves above are proved: a variant, or that
somebody can go on. Every invariant and every other action property that a run checks is a theorem.

## 6. What else the code does

Met while modelling, visible in the models, each true of the code as written; the properties are stated so that they
hold with them.

- Executor: when one task of a batch fails, the results behind it in the batch are dropped, completed steps and observations included
  (`executor.py:312`, though `:115` promises an observation for each completed step). Every error is retried, 4xx included (`:468`, against the comment at `:461`). With two steps waiting, the
  first that is answered sets the task RUNNING for both (`:371`). With a repeated step id `:277` lists the step twice: it runs twice, and both tasks share
  one confirmation key (`:497`). An answer given before the wait begins is kept but wakes nobody (`:244`).
- Streams: the end marker is dropped when a queue is full, as any event (`stream.py:160`). Ids restart in each
  execution but share a store (`:94`, `:103`), so a client that resumes in the next execution misses its first events. A stream
  opened while nothing runs is a placeholder that nobody closes (`api/routers/agent.py:241`), and a client whose generator starts
  after the close subscribes to a stream nobody closes again.
- API: when messages overlap, the later executor replaces the earlier, and the end of either unregisters the other
  (`agent.py:348`): it can no longer be confirmed. A restart leaves the status "running" (`:29`); nothing resumes an execution from Redis.
- Memory: writes of
  variables and of the execution state do not renew the meta key (`:206`, `:237`), so a session expires under an execution that
  only saves its state. `get_session` reads in three round trips and can mix the variables of one moment with the messages of another (`:137`), though A-05 AC-2 wants reads atomic. `list_sessions` cuts the list
  before it drops expired sessions, and so hides live ones (`:267`).
- Registry: an invalidation during a build is lost when the build ends (`registry.py:72`), up to a TTL. A registration
  during a build makes it raise RuntimeError (`:93`).
- MCP client: a refresh that is refused drops the refresh token, also one that a concurrent caller has just got (`mcp_client.py:124`); the next renewal is
  by password.
- Gateway: a refresh revokes the refresh token (`auth.py:143`) but
  `refresh_token` does not consult the revocations, and the provider, which keeps its refresh token (`mcp_client.py:118`), relies on that.
- Jupyter: an expression whose evaluation raises SyntaxError takes effect twice (`servers/jupyter/kernel_manager.py:124`), and once or twice more
  for each attempt that was given up; code that does not end blocks the server for everyone.
- RAG: a first window of `chunk_text` whose last 。 is at place `Overlap - 2` makes the next start -1, where the slice is that of the text's last
  place up to `Size - 1`, empty in a long text: the places from there to the end of the window after it are in no chunk (`ingestion.py:133`). Point ids count from 0 in every call, so
  each document overwrites the one before (`retrieval.py:104`), and chunks of a longer one stay behind (`:125`).
- Planner: a skill's plan ignores the manifest; an empty plan is accepted (`planner.py:308`); a skill of the library raises (`:351`).

## 7. Not modelled

- Formats of requests, prompts, events, outputs and logs; searches, queries and endpoints that only read. Passwords, signatures
  and the table from tool names to roles are data: only whether a check refuses is modelled.
- PII masking: regular expressions without state, which a model would only repeat. Embedding and prompt context: one request, a
  format. Markdown parsing: a pass over lines.
- The skill library: a dict with a word-overlap search which no code connects to the planner. The intent parser and the critic:
  a prompt, a call and a bounded retry like `Planner`'s.
- `shutdown_kernel`, `EventStore.get_all` and `EventStore.clear` are called by nothing, and nothing sends a request to
  `POST /auth/revoke`. (A revoked token would fail every call until the provider renews it by its age: it does not react to 401.)
- The feature-store and data-catalog servers are started by nothing as processes, so no restart of theirs is modelled. A failing write of the audit
  log is swallowed by the code and left out.
- Whether asyncio keeps a task nobody references (`agent.py:201`) depends on the interpreter.
- Shared library, scripts, deployment: settings and service definitions. The web client and the feature-store adapter have no code yet.

Times are ticks; that timers are exact is assumed nowhere except in `TokenProvider`'s `MaxDelay`.

## 8. What is left

Worth adding: a variant for the retry loop of `Planner`; a plan whose
steps call tools through `ToolCall` inside `Executor`, whose `CallSucceeds` and `CallFails` stand for it; several users in
`ShortTermMemory`, who share nothing but Redis.
