# Talking To Air: models and proofs

TLA+ models of the concurrent core of Talking To Air, checked with TLC, and
theorems about them checked with TLAPS. Paths below are relative to the
repository root.

## 1. Inventory

The backend (`Backend/tta_backend`) is one asyncio process per replica, some
thread pools for numerical work, and a Redis shared by the replicas. The
frontend (`Frontend/src`) talks to it over HTTP and server-sent events.

| Part | State | Operations | Correct when |
|---|---|---|---|
| Admission control, `services/admission.py` | a semaphore, a waiting count, an in-flight count, the heavy pool | `_acquire`, `_release`, `run_heavy`, `admit`, orphan hand-over | no permit leaks, shedding decides on the true queue, memory stays accounted while a thread holds it, nobody overtakes |
| Background exports, `services/export_service.py` | its pool, what it streams | `hold_admission`, `_to_export_thread` | same memory accounting |
| Turn registry, `services/turn_registry.py` | Redis keys `send:*`, `thread:*:active_turn`, `thread:*:last_turn`, `turn:*:stop`; per replica the tasks, consumers and pending cancels | `begin`, `stop`, `active_turn`, `drain`, `_run`, `_produce`, the watch loop | one live turn per thread, one turn per send, a Stop lands, a thread is never wedged, an ending says the truth |
| Turn event log, `services/turn_event_log.py` | a bounded Redis stream per turn; per replica a text buffer, a flush timer, a lock, the last id | `append`, `append_text`, `flush`, `mark_terminal`, `read`, `tail`; `follow` in the registry | the log is the turn in the order it spoke, a reader is shown everything or told of the gap, a reader never waits for a dead turn |
| Dispatch executor, `services/dispatch_executor.py` | per-turn budget, rounds, runs by request, two semaphores | `begin_model_step`, `execute_dispatch`, `_run_in_lane` | each distinct request runs once, caps and budget hold, the model cannot loop on dispatch |
| MCP call wrapper, `earthdata_mcp/results.py`, `workspace.py`, `tool_cache.py` | the turn's failure streak and breaker; a TTL cache of discovery metadata | `_bind_one._call`, `call_tool`, `_note_transport_failure`, `lookup`, `store` | a storm is cut off, a recovered server is used again |
| Connector credentials, `services/connector_credential_service.py`, `repositories/user_connector_repository.py` | a row per user and connector; per replica a TTL cache of it | `_get_row`, `mark_invalid`, `invalidate`; the connector endpoints of `api.py` | a replaced or removed token is not used |
| MCP connection, `earthdata_mcp/connection.py` | connection state, tools, the connect task | `start`, `stop`, `_connect_once`, heartbeat | tools are offered only when the agent was rebuilt with them; a lost server is found again |
| Cube cache, `services/cube_cache.py` | cube directories, the handle index, the write queue, the quiet-turn event | `write_cube`, `lookup`, `reconcile_handle`, `sweep_store`, `evict_to_fit` | a hit serves a whole cube of the handle's current content, a turn's files are not removed, the store is bounded |
| Opening results, `services/open_handle.py` | the extract cache of zip bundles, pins | `open_handle`, `_recover`, `_extract_bundle_cached`, `_prune_extract_cache`, the readers of groups and bundles | lazily read members stay, every granule is opened, at its own time, in chunks that fit |
| Frame store, `services/frame_store.py` | frame entries on disk | `store_frame_stack`, `read_frames`, `sweep_store`, `evict_to_fit` | an entry is whole or absent, a chart keeps its own planes |
| Retrieval, `services/retrieval_composites.py`, `jobs_service.py` and three registries | a poll loop and its deadline; what a job was asked for; a cache of terminal statuses | `await_retrieval`, `safe_retrieve`, `point_timeseries`, `list_jobs`, `cancel_job` | the loop ends, nothing large starts unconfirmed, the caller's choice reaches the result |
| JWKS cache, `services/supabase_jwt.py` | key set, refresh window, last failure | `warm`, `_signing_key`, `_keyset` | a rotated key is found, an outage spares known users, a dead issuer is not hammered |
| Stream service, `services/chat_stream_service.py`, `utils/streaming.py` | a turn's tasks, timers and queues | the two routes of a turn | an ending is told, nothing runs on after it, silence is broken by a beat |
| Thread context, `services/subagent_dispatch.py` | the satellite context of a conversation | `_capture_satellite_context`, the merge, the save | a follow-up is offered an area and charts that belong together |
| Masking, variables, levels, frames (`preprocessing/`, `datasets/`) | none | pure functions of a file and a request | the right variable, layer and cells, and a provenance that says so |
| Regions (`utils/region_*.py`, `plotting.py`, `workspace.py`) | tables and boundary assets | from words to an extent and a mask | what is retrieved covers what is masked; nothing is guessed |
| Charts, statistics, overlays, comparison (`tools/satellite_tools/`, `utils/overlay_render.py`) | stored pictures | the tools' chain from cube to answer | the same scene gives the same number everywhere; a picture says what the values say |
| Ground sensors, validation, agents, prompts, repositories, frontend components | none with a protocol of its own | sequential or single-statement | not modelled, see section 8 |

How they interact: `POST /chat/stream` calls `begin`, which creates the
turn's task; the task consumes the stream service and writes its frames into
the event log; the browser follows the log from any replica. A model step
inside the turn may call `dispatch`, whose runs call MCP tools through the
breaker and numerical work through admission. That work retrieves a region
(`Retrieval`, `Regions`), opens the result (`cube_cache`, `open_handle`), masks
and reduces it and stores pictures and frames for the browser. `POST /stop`
writes a flag and publishes; the replica that owns the turn hears one or
re-reads the other.

What is hard here: awaits between a check and the step that relies on it;
cancellation at any await, with threads that cannot be cancelled; Redis calls
that fail, or land while their answer does not; claims that expire; a replica
that dies; readers that come and go; two writers of one log; stores that evict
while others read; and, in the pure code, the same decision taken twice in two
places, and sources of one fact that contradict each other. The hazards are
listed line by line in `PROJECT.json`.

## 2. Modules

| Module | Models | Extends or instantiates |
|---|---|---|
| `Admission` | the limiter, both kinds of caller, `asyncio.Semaphore` | |
| `TurnRegistry` | `begin`, `stop`, the watch, `_run`, `_produce`, `drain` on several replicas with one Redis | |
| `TurnProofs` | theorems of `TurnRegistry`, `ThreadContext` and `TurnStream` | the three, `SubsequenceProofs` |
| `TurnEventLog` | one turn's log, its writers and a reader | `Subsequences` |
| `LogProofs` | theorems of `TurnEventLog` | `TurnEventLog`, `SubsequenceProofs` |
| `DispatchPromise` | what the dispatch tool promises a turn | |
| `DispatchExecutor` | the supervisor's rounds, its calls and their runs | instantiates `DispatchPromise` |
| `DispatchProofs` | theorems of `DispatchExecutor`, the refinement included | `DispatchExecutor`, `TLAPS` |
| `ToolCall` | calls of a bound MCP tool, the turn's breaker, the cached credential | |
| `TurnStream` | one turn of either route, its tasks, timers, queues and deadline | `Subsequences` |
| `ThreadContext` | what a conversation remembers of its satellite work | |
| `Retrieval` | gates, submission, the poll loop, the registries, the jobs panel | |
| `RetrievalProofs` | theorems of `Retrieval` and of places, layers, variables, frames, masks and openings | `Retrieval`, `Decisions`, `SubsequenceProofs` |
| `ResultProofs` | theorems of charts, pictures and comparisons | `RetrievalProofs` |
| `ConnectionManager` | the connect loop, the heartbeat, the ready callback, the shutdown | |
| `JwksCache` | the cached key set under concurrent requests | |
| `GateProofs` | theorems of `Admission`, `ConnectionManager`, `JwksCache` and `ToolCall` | the four, `TLAPS` |
| `CubeCache` | cubes, the handle index, the background writer | `Subsequences` |
| `FrameStore` | frame entries, their eviction and their crashes | `Subsequences` |
| `ExtractCache` | extracted bundles, adopted, pruned and pinned | `Subsequences` |
| `StoreProofs` | theorems of the three stores | the three, `SubsequenceProofs` |
| `Subsequences` | a sequence with some elements taken out or kept | |
| `SubsequenceProofs` | its lemmas, those on joined sequences, the counting lemmas of the stores, and those on sums that the decisions share | `Subsequences`, `TLAPS` |
| `QualityMask`, `VariableChoice`, `FrameAxis`, `LevelChoice`, `Regions`, `RegionChart`, `Overlay`, `OpenPipeline` | the pure decisions | |
| `Comparison` | two retrievals compared | `Overlay` |
| `Decisions` | what is promised of each pure decision, for any well-formed input | instantiates them |
| `MCDecisions` | bounded inputs for the pure decisions | `Decisions` |
| `MCData` | the three stores and the decisions, side by side | the stores, `MCDecisions` |
| `MCTurn` | `TurnStream` and `ThreadContext` side by side | both |
| `MCProviders` | `ConnectionManager`, `JwksCache` and `ToolCall` side by side | the three |
| `MCAdmission`, `MCTurnRegistry`, `MCTurnLog`, `MCDispatch`, `MCRetrieval` | instances for TLC | the module each is named for |

Components that share no state are checked in one run where each keeps to its
own variables: a behaviour of `MCData`, `MCTurn` or `MCProviders` exercises one
part and leaves the others as they began.

The modules with state use one grain: an action is one uninterrupted run of an event loop
between two awaits, or one effect outside it (a Redis command, a statement of
the database, a step of a worker thread, the end of a process). An operator
whose comment begins with "Mutant of" is a plausible mistake in the definition
that follows it; nothing uses it, and each is there because putting it in that
definition's place makes a run fail. `PROJECT.json` maps every definition to
its lines and pairs every property with such a mistake.

### Admission

`value` and `ahead` are the semaphore's counter and deque, `queued` and
`inFlight` the limiter's own counters, `pc`, `permit` and `job` one call's
progress, who will return its permit, and its thread. `Admit`, `Enqueue` and
`Shed` are the ways through `_acquire` without waiting for anybody;
`Resume` and `Abandon` the two ways out of its wait; `HeavyReturns`,
`HeavyWithdraws` and `HeavyOrphans` the ends of `run_heavy`, the last with the
callback that lets the permit follow the thread; `ExportHops`,
`ExportResumes`, `ExportLeaves` a block under `hold_admission`. A caller may be
cancelled wherever it waits (`Cancel`).

### TurnRegistry

The Redis keys are `sent`, `active` with its `ttl`, `last`, `flag` and the
terminal entries of each log. A call of `begin` is identified with the turn id
it mints and goes `ClaimSend` (SET NX of the send key), `AnswerDuplicate`,
`ClaimThread` (SET NX of the claim), `ForgetSend`, `AnswerAlreadyRunning`. A
turn's `_run` goes `RunStarts`, `RunReadsFlag`, then waits for its `_produce`,
sees its end or a cancel, marks the log, points `last_turn` at itself and
releases. `stop` is `StopFlags` then `StopAnnounces`; a message may be heard or
not; `WatchRechecks` and `WatchRefreshes` are the two halves of the watch
loop, which renews the claims of the snapshot it took; each has a failure that the
loop swallows (`WatchRecheckFails` sees no flag, `WatchRefreshFails` renews no
claim). `Drain` cancels what it finds, `Exit` ends the process after the wait,
`Crash` at any time. `Tick` is Redis's clock: it may not overtake a live replica's
watch loop except `late` times. `PointerLapses` is the expiry of `last_turn`, ten
minutes after it was set, on the threads of the constant `Fading`. `skipped`,
`crossed` and `faded` are history variables: passes that renewed nothing, turns
cancelled between the XADD of their ending and its reply, threads whose pointer
has expired.

### TurnEventLog

`waiting`, `holder`, `work` and `landed` are the per-turn lock and what its
holder still has to add; an XADD is `Land` (Redis has it) then `Acknowledge`
(the replica knows), or it fails before or after landing. `EmitText` buffers
and arms the timer, `EmitFrame` and `Close` flush first. `log` holds every
entry ever added and `trimmed` how many are gone. `follow` is `ReadPage` then,
after an empty page, `ReadTail`; the reader may leave and attach again with the
resume point the browser keeps (`Keeps`, from `useChat.js`).

### DispatchExecutor and DispatchPromise

`BeginModelStep` is the middleware that offers or closes the tool;
`ModelDispatches` emits one or more calls, which then run side by side.
`Reject` and `Start`/`Repeat` are the part of `execute_dispatch` up to its
gather, with no await inside; `TakeSlot` and `Finish` are a run in its lane,
`Gather` the answer, and `TakeLock`, `Load`, `Save` the locked save of the
thread's satellite context. `Stop` cancels everything. The promise has four
variables and no rounds, slots or steps: `Refuse`, `Accept`, `Finish`,
`Answer`, `Withdraw`. Its `asked` is a call's list once the call has been dealt
with; the other three variables are the executor's own. The promise refuses a
list only because it does not fit in the budget: that the executor's other
reason, rounds used up, never comes into play, because the middleware closes
the tool first, is part of what the refinement shows.

### ToolCall

`call` holds where each call is and the locals it carries over an await:
the row it read, how long ago it asked for it, and its token. `CallCached`,
`Ask`, `ReadRow` and `StoreRow` are `_get_row`; the clock is read before the
await, as in the code, and the row is cached with that age. `Send` is the
breaker's gate of `call_tool`, part of the same run of the loop as what comes
before it; `Accepted`, `Rejected` and `Broke` are its three endings, `Flag` the
status flip of `mark_invalid`. `EndpointWrites` and `EndpointReturns` are the
endpoints that store, replace or delete a token. A connector's row is a token
number and whether its status is connected; 0 is the credential shared by all
users. The server may go down and come back at any time, and takes open
sessions with it. `rest` and `raced` are history variables.

### TurnStream and ThreadContext

`TurnStream` has the two routes of `chat_stream_service.py`: on the
supervisor's the agent's task feeds `queue`, on the fast path a runner's task
does, and for the satellite agent it forwards (`RunnerForwards`) what it reads
from a `stream` of its own. `Speaks` and `AgentEnds` are the agent, `Ticks` the
watchdog and the heartbeat, `TakesNews`, `TakesResult`, `TakesError` and
`TakesLast` the generator's loop, whose `todo` is what it still does before it
takes the next item: store a chart (`Stores`, `StoreFails`), write the answer
back (`WritesBack`), yield a frame that the registry appends (`Appends`).
`DeadlineFires` is `asyncio.timeout`, which is caught only while the generator
itself waits (`Guarded`); `Cancelled` is a Stop; `Collects` the cancellation of
the tasks left behind.

`ThreadContext` has the runs of a batch capture areas and charts from their
calls (`Defines`, `Uses`, `Draws`), and each batch read, merge and write the
column under the persist lock (`BatchReads`, `BatchSaves`), or without effect
when it captured nothing (`BatchEndsEmpty`). `Offered` is what the next run is
told. `drawn` is which place each handle really stands for, `muddled` the
handles a run used for another place than its last area call named.

### Retrieval

`Submits` is `safe_retrieve` with its gate, `SubmitsSeries` the span-gated
point series. A wait (`Awaits`) alternates polls (`PollEnds`,
`PollFindsPaused`, `PollGoesOn`, `PollMisses`, `PollRaises`) and sleeps
(`Wakes`), and measures its own time. `asked`, `pending` and `kept` are the
choice a job was submitted with, what the registries hold under its handle and
under its result's; `cached` the panel's rows. What is kept lives for a day:
`Lapses` lets it pass, also under a wait, and a lapsed entry is dropped when
somebody asks for it (`Finalised`, `Recalls`). The provider moves a job, pauses,
resumes and expires it and forgets it at will.

### ConnectionManager and JwksCache

The connect loop is a program counter (`loop`); sessions are numbered, and a
tool is known by the session it was bound to, so that `tools` and `live` (the
dict the agents share) can be compared with the session held. `Publishes` is
`_connect_once` with the ready callback of `api.py`; `Breaks` closes the scope
by an exception, `Leaves` after failed probes.

A request or the warm task is one record of `JwksCache`: it looks (`Begins`),
fetches outside the lock (`Fetches`), stores or serves what it has (`Stores`,
`ServesStale`), and may claim the one refresh of a cooldown for a key it did not
find (`Claims`, `Withdraws`). The provider's sets are numbered, each holding the
keys of two rotations.

### CubeCache, FrameStore and ExtractCache

`CubeCache`: a key is a handle, the version of its content and the pipeline's
version; `store` says whether its directory holds a whole cube, a torn one or
nothing. A caller goes `Starts`, `AskHits` or `AskMisses`, `Rematerialises` if
its export expired, `Reexports`, `Reconciles`, `Looks`, `Ends`. `line` is the
writer's queue; the writer waits for quiet (`QuietComes`, `GivesUp`), makes room
(`WriteEvicts`), lands, notes and indexes. `Restarts` sweeps and rebuilds. The index
is a file that worker threads read, change and replace without a lock, so every
change of it is two steps: a caller copies it (`AskForgets`, `Reconciles`, `Looks`;
`seen`) and puts its copy back (`Forgets`, `Drops`, `Notes`), and so does the writer
(`WriteNotes`, `WriteIndexes`). Whatever changed in between is undone.

`FrameStore`: a chart's writer takes its planes one by one, each with a scan, as
many evictions as the scan calls for, one entry at a time, and a landing that
may not be synced; `CrashesAndRestarts` loses unsynced bytes, cuts a removal
short and sweeps.

`ExtractCache`: an open prunes by what it scanned (`OpenBegins`, one `Removes`
per file), adopts a marked directory or stages, extracts, marks and renames;
its readers then read member by member until `Closes`. A cube write is queued by
the open (`Queues`) and pins the directory when it has the write semaphore and has
found the process quiet (`Pins`), which may be half an hour later or never
(`Abandons`); until then the directory may age, be pruned and be extracted again.

### The pure decisions

Each module takes the records a property is about and decides as the code does;
`Decisions` takes one step from no input to one input of one kind, so that every
input is a distinct state, and states what is promised of each kind. Its
`AnyDecision` admits every input that is a well-formed case (`IsMaskCase`,
`IsFile`, `IsFrameCase`, ... of the modules): the theorems are about it.
`MCDecisions` enumerates bounded records instead, and its invariants check that
each of them is such a case.

- `QualityMask`: which source wins for fill, range (`Bounds`) and flag
  (`flag_variable`, `resolve_qa_info`), what passes, what the provenance claims
  (`qa_status`), which times are left, and how buckets of any number of granules
  weigh in the mean.
- `VariableChoice`: candidates, their order (`Before`), when rivals are too
  close (`Rivals`), the cascade of `to_dataarray`, and the companions a
  retrieval adds.
- `FrameAxis`: gate, intervals of any calendar (months need not be equally long),
  frames, the blocks of the coarsened grid, and how much area a stored peak claims
  for the area that reached it, as exact fractions of whole numbers.
- `LevelChoice`: the axis's mean over the region and each pixel's nearest layer,
  both weighed by area, the vote, and the refusals: a level that cannot be read, an
  axis that is not published, states no unit or one there is no conversion for,
  nothing usable, a level beyond the axis, more than one layer, an axis that cannot be
  selected from.
- `Regions`: `dispatch` (mask plane) and `dispatch_extent` (retrieval plane)
  over one atlas; geometry is an interval of one axis in tenths, so that outward
  rounding can be told from rounding.
- `RegionChart`: the five tools that normalise, mask, crop, select and reduce,
  on one horizontal axis with doubled coordinates.
- `Overlay`: percentiles, the reprojection (every row of the picture blends two rows
  of the field, which two is the case's `warp`), sixteen-bit codes (14 levels here),
  colours (a table of 7) and the endpoint that redraws.
- `Comparison`: both modes of `compare`, openings that fail and are retried
  and sides that the quality mask leaves nothing of included.
- `OpenPipeline`: groups and their collisions, declared dimension names, the
  chunk ceiling, and the time axis of a bundle.

## 3. Runs

| Run | Instance | Question | Result |
|---|---|---|---|
| `MCAdmission` | three heavy calls, one export, two permits, a queue of two, one export thread | permits, counts, wake-ups, order, memory, progress | holds |
| `MCTurnClaims` | a send, its retry on the other replica, another tab's message; one late tick, one failed call or renewal, a pointer that expires, one crash | one turn per send, one per thread, a reload finds it | holds |
| `MCTurnEndings` | two turns after one another on two replicas; a stop, a drain, a crash, one failed call or look at the stop flags | honest endings, drain, stop, the thread comes back | holds |
| `MCTurnWedge` | one turn, one failed read of its stop flag | does the thread come back? | violated |
| `MCTurnRelabel` | one turn, its replica drained | is a delivered answer ever relabelled? | violated |
| `MCTurnLog` | four frames, three entries kept, one lost write, a stop, a silence | order, completeness, gaps, resume points, progress | holds |
| `MCDispatch` | three calls, two satellite requests and a ground one, budget 2, 2 rounds, 2 slots, 1 satellite slot, one failed database call, a stop | budget, duplicates, refusals, lanes, saves, progress, refinement | holds |
| `MCData` | two turns over two handles, one of them replayed; two charts and a reader, one crash; three opens of two bundles by two threads; every decision's inputs | what the stores serve is whole, current, bounded and spared; what the decisions choose is right | holds |
| `MCProviders` | a threshold of two misses, four faults; two requests, two rotations, one outage; two calls, ceiling 2, cooldown 2, TTL 2, two writes, one failed statement | ready means bound, misses forgiven, outages survived, keys learnt; breaker and credential cache | holds |
| `MCRetrieval` | two turns, one job, three sizes, two poll faults, one restart | gates, waits, registries, the panel | holds |
| `MCTurn` | three events, one job, one chart, a deadline of three ticks; three runs in two batches, two places, one failed database call | endings, timers, completeness; area and charts | holds |
| `MCHealedRegions` | every region and axis of the charts' inputs | is a region too small for a cell shown? | violated |

A run checks few definitions, and each joins what one question has several sides
of; the definition's comment says which, and every side has a definition and a
comment of its own in the module.

| Run | Property | Its sides |
|---|---|---|
| `MCAdmission` | `LimiterIsSound` | `TypeOK`, `PermitsConserved`, `QueueCountExact`, `HeavyMemoryAccounted`, `NobodyWaitsInSubmit` |
| | `NoLostWakeup`, `NoOvertaking` | |
| | `EverybodyMovesOn` | `WaitersProgress`, `PermitsComeBack` |
| `MCTurnClaims` | `OneTurnAtATime` | `TypeOK`, `RunningTurnHoldsClaim`, `OneTurnPerSend` |
| | `ReaderFindsTurn` | |
| `MCTurnEndings` | `EndingsAreTold` | `EndingsAreHonest`, `DrainSaysSo` |
| | `EndedTurnsStaySilent` | |
| | `TurnsLetGo` | `StopIsCertain`, `ThreadComesBack` |
| `MCTurnLog` | `LogIsTheTurn` | `TypeOK`, `LogKeepsOrder`, `NothingLeftBehind` |
| | `ReadersMissNothing` | `GapsAreTold`, `ResumePointsPrecedeEnding` |
| | `LogDrains` | `TextGetsOut`, `FollowerEnds` |
| `MCDispatch` | `BooksBalance` | `TypeOK`, `BudgetExact`, `ReportedOnce`, `RefusedWhole`, `NoSlotIdles`, `ModelMustAnswer`, `ContextsKept` |
| | `CallsReturn`, `KeepsPromise` | |
| `MCData` | `CubesAreAccounted` | `CubeTypeOK`, `StaleIndexNeedsARace`, `StoreBounded`, `MarksHaveTasks` |
| | `CubesStay` | `ServesWholeCubes`, `EvictionSparesTurns` |
| | `FramesAreWhole`, `ExtractsAreWhole` | the stores' own |
| | `MasksAreHonest`, `VariablesAreMeant`, `FramesKeepTime`, `LayersAreMeant`, `PlacesAgree`, `ChartsAreTrue`, `PicturesAreTrue`, `ComparisonsAreFair`, `OpeningsAreWhole` | one per pure module, listed in `Decisions` |
| `MCProviders` | `ReadyIsHonest` | `ConnectionTypeOK`, `ReadyMeansBound` |
| | `UsersAreServed` | `JwksTypeOK`, `OutageSparesUsers`, `RefusalIsExcused` |
| | `ProvidersComeBack` | `OneMissIsForgiven`, `ComesBack`, `RotationIsLearnt` |
| | `BreakerIsHonest` | `ToolCallTypeOK`, `TripIsEarned` |
| | `StaleOnlyByRace`, `QuietAfterFailure` | |
| | `OutagesPass` | `ServerUsedAgain`, `ShadowLapses` |
| `MCRetrieval` | `RetrievalsKeepFaith` | `TypeOK`, `GateHolds`, `BlipsAreForgiven`, `WaitsAreBounded`, `ChoiceFollowsResult`, `FinishedRowsAreFinal` |
| | `WaitsEnd` | |
| `MCTurn` | `EndingsAreWhole` | `StreamTypeOK`, `EndingsClose`, `AnswersAreComplete`, `TimeoutNamesJobs`, `BeatsCoverSilence`, `UntoldEndingsAreTwo` |
| | `TurnsEnd` | `TurnStops`, `TasksStop` |
| | `ContextStands` | `ContextTypeOK`, `PairsBreakByMisuseOnly`, `ChartsStayNameable`, `AreaStands` |

Why these bounds. *Admission*: two permits and a queue of two with four callers are
the least in which one caller is shed, one waits, one is cancelled after its wake-up
while another waits behind it, and an orphan keeps a permit while a newcomer is woken.
*TurnRegistry*: a claim needs two ticks to lapse so that a renewal can come between,
and three in `MCTurnClaims` so that it outlives the one renewal that fails; three
calls are the first, its retry and a stranger, and two replicas are what a retry needs
to be elsewhere. One fault and one late tick: two independent failures are outside
what the code claims to survive. *TurnEventLog*: the stream must be trimmed while a
reader is behind and still keep a frame and an ending, so it keeps fewer entries than
there are frames. *Dispatch*: three requests against a budget of two make lists that
do not fit; the three lists repeat a request inside a list, across sibling calls and
across rounds. *ToolCall*, in `MCProviders`: two calls are what a late answer or a
second probe needs; a ceiling, a cooldown and a TTL of two are the least with a value
strictly between fresh and spent; two writes are a token and its replacement or
removal.

*MCData*: capacity for one estimate more than a cube, so that eviction is
needed and may fail; two versions and two pipeline versions, so that content
drifts and a sweep has something to drop; three opens, so that a hit can follow
a write that follows an open. Two charts of two planes and room for two entries
make each writer evict the other's. Two bundles and room for one make the third
open prune a directory that is still being extracted into or read. A caller's
change of the index that undoes another's needs more opens than these; the theorem
covers it. Areas differ from cell to cell, so that a majority of cells is told from a
majority of the area. Pixels, granules, layers, cells, members and variables come in twos
and threes, the least that has a majority, a middle, a neighbour on both sides
or a tie. *MCProviders*: a threshold of two is the least in which one miss is
forgiven; session numbers are reused after three, so that a stale one differs
from both its neighbours; two rotations let a late fetch bring back an older
set, and a time to live of two has a moment between fresh and stale.
*MCRetrieval*: one job shared by two waits is where each can overtake the
other; sizes lie in each of the gate's three ranges. *MCTurn*: three events are
an item taken, one queued and one yet to come; three runs in two batches are two
that merge with each other and one with what they saved.

`MCTurnLog`, `MCDispatch`, `MCData`, `MCHealedRegions`, `MCProviders`, `MCRetrieval`
and `MCTurn` turn the deadlock check off: a log whose turn is over and whose reader
has gone, a turn that has answered, an input that has been judged, a connection that
was shut down, and stores, jobs and turns whose bounded openings and submissions are
used up, really stop.

## 4. Fairness

An action gets weak fairness when the event loop, Redis or the database does
it without being asked: a coroutine that is ready runs, a timer that is due
fires, a command that was sent takes effect, a thread comes to its end. Nothing
obliges a user to send, stop, reload or attach, a model to call a tool, a turn
to be drained, a call to fail, or a process to die.

- `Admission`: the one strong fairness is on `ExportLeaves`: an export hops to
  its pool again and again, and in the end streams its last grid.
- `TurnRegistry`: the task's steps, the watch of each replica and Redis's
  clock. A turn is not obliged to end by itself, so `StopIsCertain` rests on
  the stop alone.
- `TurnEventLog`: the lock is first come first served (`asyncio.Lock`), writes
  come back, the flush timer fires, a reader polls, and silence lasts.
- `DispatchExecutor`: a run that has its slots ends, since sub-agents have a
  recursion limit and their calls have timeouts.
- `ToolCall`, in `MCProviders`: every call moves on, since `asyncio.wait_for` bounds the
  transport and callers keep asking; time passes. The server is not obliged to
  return: `ServerUsedAgain` assumes that it does.
- `ConnectionManager`: the loop's own steps. The server and the network are free
  (`MaxFaults` changes), and `ComesBack` assumes that the server ends
  up answering with schemas the backend knows.
- `JwksCache`: a request that has begun ends, since the fetch has a timeout;
  time passes. Requests with the new key keep coming: strong fairness of some request
  beginning with it, which `RotationIsLearnt` needs, as it does a provider that
  stays up.
- `Retrieval`: a wait polls and sleeps, since both have a bound of their own.
  Nothing is assumed of the provider: `WaitsEnd` holds of a job that never ends.
- `TurnStream`: the tasks, the timers and the generator move when they can and
  the deadline fires when it is due; the agent need not ever speak or end.

## 5. What is proved

| Module | Theorem | States |
|---|---|---|
| `GateProofs` | `TypeCorrect`, `NoPermitLeaks`, `SheddingIsExact`, `WakeupsAreNotLost`, `OrphansStayAccounted`, `SubmitNeverWaits`, `FirstComeFirstServed` | `LimiterStaysSound` joins them: all safety of `MCAdmission` |
| | `ReadyStaysHonest`, `MissesAreForgiven`, `UsersStayServed` | all safety of the connection and the key set in `MCProviders` |
| `TurnProofs` | `TurnInvariant` | the inductive invariant of `TurnRegistry` |
| | `TurnsDoNotOverlap`, `ReaderAlwaysFindsTurn` | all safety of `MCTurnClaims` |
| | `EndingsTell`, `EndedTurnsAreSilent` | all safety of `MCTurnEndings`, an action property among it |
| | `ContextInvariant`, `ContextKeepsFaith` | `ContextStands` of `MCTurn`, an action property among it |
| | `StreamInvariant`, `EndingsHold` | `EndingsAreWhole`, the rest of the safety of `MCTurn` |
| `LogProofs` | `LogInvariant`, `LogStaysTheTurn`, `ResumePointsStayBefore`, `ReadersStayInformed` | all safety of `MCTurnLog`, the last with a hypothesis stated below |
| `StoreProofs` | `ExtractInvariant`, `ExtractsStayWhole` | the extract cache's property of `MCData` |
| | `FrameInvariant`, `FramesStayWhole` | the frame store's |
| | `CubeInvariant`, `CubesStayAccounted`, `CubesStayPut` | the cube cache's, an action property among it |
| `DispatchProofs` | `TypeCorrect`, `BudgetIsExact`, `OutcomeReportedOnce`, `RefusalIsWhole`, `SlotsAreWorked`, `ModelIsMadeToAnswer`, `NoContextIsLost`, `Refinement` | `BooksAlwaysBalance` joins them: all safety of `MCDispatch`; and `Spec => KeepsPromise` |
| `GateProofs` | `ToolCallTypesKept`, `BreakerIsEarned`, `CacheIsHonest`, `FailuresAreGivenRest` | `BreakerStaysHonest` joins the first two: all safety of the tool calls in `MCProviders` |
| `RetrievalProofs` | `RetrievalsStayFaithful` | all safety of `MCRetrieval` |
| | `PlacesAlwaysAgree`, `LayersAreAlwaysMeant`, `VariablesAreAlwaysMeant`, `FramesAlwaysKeepTime`, `MasksAreAlwaysHonest`, `OpeningsAreAlwaysWhole` | `AnyDecision` keeps these invariants of `MCData`; each rests on one theorem for each conjunct, such as `PlacesAreCovered`, `AreasAgree`, `CoverageAlwaysFirst`, `OverstatementsAreBounded`, `BucketsAlwaysWeighAlike`, `BundlesAlwaysWhole`, `ChunksAlwaysFit` |
| `ResultProofs` | `ChartsAreAlwaysTrue`, `PicturesAreAlwaysTrue`, `ComparisonsAreAlwaysFair` | the same for charts, pictures and comparisons, by `OverlaysArePinned`, `RecolouringAlwaysAgrees`, `SwappingIsAlwaysASign` and the others |

They hold for every value of the constants that satisfies the modules'
assumptions. These ask for what the code's types and settings give: finite sets
where something is counted (callers, requests, charts, handles), positive sizes,
limits, thresholds and intervals, a claim that outlives one tick, names kept
apart. Sets of turns, threads, replicas, openers, bundles, members, readers and
jobs are any sets, and the number of faults, crashes, expiries and steps late is
any number.

*Admission.* The permits are counted by cardinalities, so no property is
inductive alone. `IInv` adds `Shape`: what a call's program counter says of its
permit and job. With it every step moves one caller between disjoint sets, and
the counting lemmas (`CountAdd`, `CountRemove`, `CountUnion`) give
`PermitsConserved` and `QueueCountExact`. That submitting never waits follows
by an inclusion: jobs in the pool are held by permit holders, of whom there are
at most `Limit`.

*Providers.* `ReadyMeansBound` promises nothing while the loop is between places,
so `ReadyOnlyBeating` says at which places a state read as ready can be seen at
all, and `ProbesLeft` that a beating loop's count is the number of its failed
probes and below the threshold. For the key set a request must carry over its
fetch what it began with (`RequestsRemember`): what it fetched is no older than
its beginning, so a key that was there then and is there now is in it
(`JudgementIsSound`).

*Turn registry.* `IInv` has six parts. `CallsInv`: who holds a send's key is the call
the key names, also while a sibling is being answered, so two calls of one send never
both start. `LivesInv` keeps a turn's two tasks, its call and its replica in step, and
says of a cancelled turn why it was cancelled. `ClaimsInv` is the argument about time:
a claim is never at its last tick while its replica's watch sleeps, and a watch that
refreshes either has the turn in the snapshot it took or that turn's claim is fresh.
`TurnsDoNotOverlap` needs this, since between two steps of the watch loop nothing else
tells a claim about to be renewed from one about to lapse. A pass that renews nothing
costs a claim one tick, so both hold while fewer passes were skipped than a claim
outlives: `skipped <= TTL - 2`. `EndingsInv` and `DrainInv` tie the marks to the order
of `_run`'s `finally`: mark, point, release; a second mark follows only where a cancel
`crossed` the first on its way.

*Thread context.* `ContextStands` speaks of the column; the pairs are broken, if at
all, in what the runs hold, so `PairsInv` speaks of every context read and every
run: a place without a handle is the one its last answered area call was for.
`LockInv` and `SavesInv` say that one batch merges at a time, that a fast run is
alone, and that what either has read is still what is saved.

*Turn stream.* `EndingsAreWhole` speaks of a log that has ended; what it says must
already hold, in parts, of everything that is on its way there, so `StreamInv` speaks
of the whole chain: the agent's words (`spoken`), the two queues, the generator's
`todo`, the log.
- `TaskOrder` and `FeedOrder` say what each task may still do and so what its feed can
  hold: nothing but beats follows an error or a result, and once a satellite runner
  has ended its own stream is empty. `ResultOrder` adds that on the fast path every
  end of the loop stands behind a result or an error; an answer that closes without
  error therefore had its result.
- `EndingOrder` gives the shape of `todo` in each phase and of the log: an error is
  followed by "done" at most, and "done" by nothing. The generator may die at any
  append, so it also says that a turn that dies untold had its deadline pass or,
  on the fast path, a store fail.
- `JobOrder` is one equation between sequences: the job events of the log, of
  `todo`, of the queue and of the stream, joined, are those the agent spoke. At the
  end the last three are empty. `ChartOrder` does the same for charts, as sets, with
  those already stored in between.
- `ToldOrder` ties what the turn believes of a job to the last event of it in the
  log and `todo`; the timeout's answer copies it.
- `BeatOrder` compares three clocks: how long the client has heard nothing is no
  longer than what the timer has counted while nothing is queued, and the timer beats
  before it reaches `Interval`. It needs `DraftOrder`: a chart that was stored before
  leaves the queue without a frame, which on the supervisor's route cannot happen.

*Turn event log.* The strengthening reads four places as one sequence: the log,
the work under the lock, the buffer, and the hand of the waiting producer.
`TaskInv` says who may hold the lock and that an ender took the buffer along,
`WorkInv` what a holder can have in hand, `OrderInv` that the three are ascending
and follow one another, `EmittedInv` and `WholeInv` that they hold all that was said
and nothing else, unless a write failed. `NothingLeftBehind` is what is left of it
when work and buffer are empty. `ReadersStayInformed` adds `ChainInv`, that every entry
names its predecessor but for an ending that a stop brought in, and `ReaderInv`. It
has two hypotheses, and TLC shows that neither can be dropped: with one entry
kept (the code keeps 4000) the entry that would tell of a gap goes with it, and a
write that lands while its answer is lost (`FaultKinds` with "unheard") breaks the
chain, which is the disagreement listed in section 6.

*Extract cache.* A reader is safe only because of where every other opening is:
`OpeningsInv` says what each holds in its staging directory at each step, `AgeInv`
that a directory an opening may take for whole has not aged, `MarkedInv` that a
marked directory with files missing is under somebody's removal, `PinInv` that a
pinned directory is whole or excused, and that no removal's list has it by age unless
it is excused. Nothing is promised of a directory whose write is
still queued. The size pass is excepted where the code does not look at pins again;
the removals it excuses are the module's `excused`.

*Frame store.* `FreshInv`, `CleanInv`, `ReadersInv` and `QueueInv` relate a writer's
place to the disk. The bound is the hard part: each writer removes by a listing that
is stale by then. `BoundInv` says that there is a set of writers to whose number an
overrun can be charged, and a set of writers whose listing still tracks the store up
to one entry for each writer that has landed since (`Tracks`). A tracking writer that
lands had made room by its listing, so the overrun is then charged to it and to those
that landed behind its back; one that lost track is not charged yet when it lands. The
charged are writers, and so at most one entry less than their number is over.

*Cube cache.* One part for each group of variables. `VersionInv` (nothing is
ahead of what was delivered), `TurnInv` (the count of active turns is exact, and a
writer that saw none has only met turns that began since) and `RoomInv` are what
`CubesStay` and `StoreBounded` need. `StaleInv` is the argument of
`reconcile_handle`: without a race, a stale cube is in the index and nowhere else, a
call is on its way to reconcile it, and nobody is past that point or has a
write of the current content queued. A copy of the index that is put back (`seen`, `snap`)
is another way in: `IndexInv` keeps the copies well formed, and a copy that hides a
stale cube counts as a race (`Hidden`).

*Lemmas on sequences.* The stores, the log and the stream drop elements from queues at
places of their choosing or speak of those of one kind. `Subsequences` defines that
without recursion, by rank, so that its laws (`SubsequenceProperties`,
`WithoutProperties`, `WithinProperties`) follow from facts about cardinalities.
`SubsequenceJoin`, that a selection of two sequences joined is the two selections
joined, is what the stream's queues need.

*Dispatch.* `IInv` has one part per concern and one lemma for each.
`RunsShape` ties a run's owner, outcome and slots together: a shared slot is
only ever taken last. `AnswersShape` says that what an answer calls its own is
the first place of a request in its owner's list, from which
`ReportedOnce` follows by two uses of it. `SavingShape` says that what a saving
call read is still what is stored. `Pace` is why the model must answer: between
two steps the number of the step is the number of rounds, or one more, and the
latter closes the tool at the next step. The refinement maps every executor step
to a step of the promise or to a stutter; `Cardinality` of the instance is the
module's own by `SameCardinality`.

*ToolCall.* `TripIsEarned` needs `streak` to stay at its ceiling while the
breaker is open. `QuietAfterFailure` is an action property; it needs `Rearmed`,
that an open breaker's clock shows the time since the last failure, after which
the only step that sends is `Transmit`, whose guard reads that clock.
`StaleOnlyByRace` needs `ReadsRaced`: a read on its way to the cache that no
longer matches the stored row is one the row changed under.

*Retrieval.* A wait's time cannot be bounded alone: `Patient` bounds it by the
polls that have just failed, `Timeout + m * PollMax` asleep and one sleep more
at a poll, and ties `m` to the wait's own count. That a choice follows its
result needs `ChoicesAreSomewhere`: until it has moved it waits under the job's
handle.

*The decisions.* Each is a function of one record, and its theorems hold of every
record that is a well-formed case: no bound on the number of pixels, granules,
layers, cells, members, variables, retries or tables, nor on their values.
`AnyDecision => []PlacesAgree` and its eight siblings state it of the very
invariants that `MCData` checks. What a case supposes beyond the shape of the
record is little, named in its module, and listed in section 6 where the code
does not ensure it.

- *What the operators compute.* The models fold, add, sort and search with the
  library's operators, which are recursive functions or choices. For each one used
  there is a lemma that it is what its name says on a finite set: `RecursionsExist`
  (the recursive function of a fold is defined, by a least counterexample among
  cardinalities), `SumsAreWhole` and `TotalSplits` (sums), all in `SubsequenceProofs`,
  `Extremes` (a least and a greatest element), `OrderLaws` (a sorted sequence has the
  members of its set, each once, in order). Nothing the provers cannot instantiate is
  used: every induction is one about the cardinality of a set, done where it is
  needed.
- *Places.* Any tables the resolver starts with (`Starts`), any outlines lost, any
  request. What is retrieved covers what is masked because both planes dispatch on the
  same words and the outward rounding only ever widens.
- *Layers.* A vote has a winner with most of the area, the winner's mean is within
  half a gap of the request, and `Selector` finds it: the chosen layer is the only one
  as near. Conversions and means are whole by the choice of the axis's unit
  (`IsLevelCase`), where the code's are floating point.
- *Variables.* `Before` is a total order on the candidates, so the first has no
  better, and noise, which no candidate is, changes nothing.
- *Frames.* The budget is a division rounded up; frames are the intervals that hold a
  granule, whatever the calendar; pooling takes extremes of extremes. The
  overstatement is at most the cells of a block times the ratio of the areas of two of
  its cells, block by block and then over the sums. `RangesHoldTheMiddle` compares two
  percentiles of a histogram as exact fractions.
- *Masks.* The counts are cardinalities of a partition, and the bucket law is that
  sums over buckets of sums over their granules are sums over all of them, weighed by
  how many there were; the weights are exact shares of a `whole` that the counts
  divide, so a bucket may have any number of granules.
- *Openings.* A merged dataset has the names of all groups and the first group's
  variable under each; a chunk is halved until it fits or is one cell wide; the
  bundle's axis is the sorted times without their repetitions (`BundlesAlwaysWhole`,
  `AxesAreAlwaysOrdered`).
- *Charts.* A normalised axis is the file's cells in the order of their longitudes,
  each once and where it is on the globe (`NormalLines`); on an even axis the
  rasterizer's centres are the cells', and every cut of it is a strip of neighbours
  that keeps the cells whose centre the region holds (`PlainStrips`). The five tools
  then add the same numbers, as exact fractions, in a different order
  (`NumbersAgree`).
- *Pictures.* A percentile is a rank and a rank is a count (`Ranked`): adding or
  scaling values keeps their order, so the bounds keep theirs. A code is a share of
  the field's spread rounded half to even, a colour a share of the scale's; two
  roundings differ by at most one entry where the scale is at least as wide as the
  resolution (`EntriesNear`).
- *Comparisons.* `SwappingIsAlwaysASign` follows the same road twice: sums and
  percentiles of negated values are negated sums and percentiles of the other end.
  `ComparisonsAnswerInTime` bounds the waits of four retried steps.

Only model-checked is all liveness (`EverybodyMovesOn`, `TurnsLetGo`, `LogDrains`,
`CallsReturn`, `OutagesPass`, `ProvidersComeBack` but for `OneMissIsForgiven`,
`WaitsEnd`, `TurnsEnd`): liveness under fairness and ENABLED are out of the proof
system's reach here.

## 6. What the violated runs show

Each quotes its line in `PROJECT.json`.

1. `MCTurnWedge`: `_run` reads the stop flag before the `try` whose `finally`
   releases the claim. If the read raises, the turn stays listed and its claim
   is renewed for as long as the replica lives.
2. `MCTurnRelabel`: a turn whose terminal entry is in the log keeps its consumer until
   the reply to that XADD is read. A drain in between cancels it, and `_run` marks
   the delivered answer interrupted (`turn_registry.py:230-235` says that only a turn
   still producing has a consumer to cancel, which keeps the mark off an ended turn).
3. `MCHealedRegions`: a region smaller than a grid cell is masked to the cells it
   touches, and the chart then crops to the region's own bounds without padding:
   what the mask kept is cut away. `plot_tools.py:1667`, `1853`, `2025`, `2247`
   and `export_service.py:534` crop alike; `compute_statistic_tool` and
   `find_daily_peak` do not crop and answer.

Disagreements met while modelling that no run is about. Turns, logs and calls:

- an export that is hung up on gives its permit back while its thread still
  works (`export_service.py:64-77`), although `admission.py:393` says that
  cancelling the coroutine stops the work;
- a retry answered between its first send's key and that send's refusal is told
  of a turn that never starts (`turn_registry.py:291-306` against `108`);
- the last frames may land between an empty page and the look at the tail, and
  the reader hangs up below them (`turn_registry.py:529-545`);
- a write whose answer is lost is not counted as the log's last id, and a page
  that begins past it claims to be whole (`turn_event_log.py:242-243` against
  `280-283`);
- a row read before a new token was stored is cached after the endpoint
  invalidated, and serves until its time to live
  (`connector_credential_service.py:70-71` against `api.py:666-667`);
- `turn_event_log.py:252` speaks of one ending per turn; a stop or a drain that lands
  between a terminal entry and its reply adds another (`turn_registry.py:458-468`,
  `607`). `EndingsAreHonest` allows that second ending and no other, and asks of it
  that the cancel had `crossed` the first;
- `turn_registry.py:106` says a refusal names the running turn; when the claim
  lapsed in between, `turn_registry.py:305-306` names `str(None)`;
- `results.py:351` promises exactly one half-open probe; nothing marks the
  first call as the probe (`356-371`), so every sibling call is sent once the
  cooldown has passed; and `404-405` takes any success while tripped for a
  probe's;
- `workspace.py:171-176` means the flip for the token this call injected;
  `mark_invalid` flips whatever row is stored by then; an endpoint empties only
  its own replica's credential cache;
- the deadline (`chat_stream_service.py:213-216`, `340-342`) that passes while
  the registry appends a frame (`turn_registry.py:665-686`) cancels that append
  and ends the turn without the timeout's answer; the fast path's tail
  (`372-402`) is outside its `try`. `UntoldEndingsAreTwo` states both;
- tokens taken on the satellite fast path and not forwarded put the next beat
  off, so `BeatsCoverSilence` leaves that route out;
- `_capture_satellite_context` records the place of a call that was rejected or
  about another area, and pairs the next handle with it; a run refused for
  substituting an area still saves it. `PairsBreakByMisuseOnly` excepts these.

Retrieval and the stores:

- `confirmed=True` approves whatever the second estimate says; the two
  registries' pending entries of failed or timed-out jobs are never swept,
  though they are documented as bounded by a time to live;
- `cube_cache.py:662-674` says an index hit cannot serve across a drift. A write
  queued with the old content, a rematerialisation that completes after its call
  gave up, and a cube that a restart cannot index again each break it;
  `raced`, the history variable of `StaleIndexNeedsARace`, marks handles whose data
  changed while a cube or the index was being written, whose entry another change of
  the index put out of sight (the file is read and replaced without a lock,
  `cube_cache.py:595-609`), or whose reconciling call was lost;
- CSV exports (`export_service.py:484`, `765`) open handles outside any active
  turn, so a cube they read lazily may be evicted;
- each concurrent writer may overshoot the frame store by the entry it adds;
- `cube_cache.py:879-881` says that a queued write holds a pinned extract directory, and
  `open_handle.py:209-212` that the directory is pinned for the write. It is pinned
  after the write semaphore and up to half an hour of waiting for a quiet turn
  (`cube_cache.py:979-993`), so a queued write's directory may age, lose files and be
  removed; `PinsHold` speaks of what is pinned. The write then fails, or reads a
  bundle that was extracted again;
- the extract cache's size pass may remove another open's staging directory, an
  entry that is read lazily, and one pinned after the scan (`open_handle.py:908`
  says both passes skip pinned entries);
- `open_handle.py:434-437` says colliding names are qualified; a name shared by
  the root and one group is not counted (`438-441`) and the group's is lost.
  Groups whose dimensions conflict leave only the first (`468-471`, against
  `376`). Times that are missing count as duplicates of each other, a bundle of
  one member is not ordered, and halving an odd chunk length does not divide it.

Masks, regions and pictures:

- a proposed list of good flags that matches nothing declared masks everything
  (`qa_flags.py:213-231` against `184-189`); no caller passes one. A one-sided
  range with a negative scale keeps its side (`aggregation_service.py:172-178`);
- `aggregation_service.py:899-901` labels whatever was chosen with the requested
  name;
- nothing at start keeps an alias from standing for a preset whose outline is
  not its box: `dispatch_extent` would retrieve the box and `dispatch` mask by the
  outline. That no name ends in "(country)", which a sum would read in two ways,
  is said by a comment (`region_composition.py:304-306`) and checked nowhere.
  The shipped tables hold neither;
- `_named_region_vocabulary` (`region_buffer.py:420-434`) leaves out the
  countries' aliases, so "within 50 km of uk" buffers a geocoded point;
- `frame_stack.py:652-683` calls k squared the ceiling of the overstatement. Areas are
  weighed by the cosine of their latitude, and a block whose smallest cell holds its
  maximum exceeds it: the bound that holds is k squared times the ratio of the areas of
  two cells of a block (`OverstatementWithinCeiling`);
- `_downsample_grid` may exceed its cell budget about twofold; a regional
  0..360 grid across the antimeridian is refused as irregular; the merged
  provenance of several panels states the first one's dates and masking; the
  statistics of a comparison of two regions of one name collapse into one;
  a percent change over a negative baseline has the wrong sign;
- `overlay_render.py:36-37` calls a code finer than any rendering can show, which
  holds only of windows wider than about a 257th of the range; rounding to six
  digits can make a chart's own scale unservable.

The proofs asked for more than the runs: each of these cases was outside the
runs' inputs, breaks the law named, and is left out of the module's case.

- `_scale_cf_bounds_to_physical` leaves a bound that is stated at one end only on that
  end also when the scale is negative (`IsMaskCase`; `MasksAreHonest`);
- a variable that calls a dimension by its placeholder's own name is skipped (`name ==
  dim: continue`) and so is not counted as a disagreement (`IsDimensionCase`;
  `OpeningsAreWhole`);
- a member that has real times and no `RangeBeginningDate` loses them where the others
  are dated by it, and a bundle of dated and undated members has no order
  (`IsBundleCase`; `OpeningsAreWhole`); items wider than eight bytes are outside the
  chunk ceiling's working size (`IsChunkCase`);
- a chart redrawn on its own scale is not what was drawn when one outlier stretches
  the codes until a step of them is wider than an entry of the scale:
  `OwnScaleRedraws` is about scales the codes resolve (`Resolves`);
- when nearly all cells of a comparison share one value, the 2nd and 98th percentile
  coincide, the scale is widened, and its last entry may show nothing:
  `ColoursCompare` promises both ends only where they differ;
- a file whose longitudes count from 0 and end on 180 exactly is not turned: its last
  cell stays at 180, where `Place` has it at -180 (`IsScene`; `CellsAreWhereTheyAre`).
  The same case asks for a sentinel below every value, and for values in a unit fine
  enough for their mean, which the code's floating point does not need;
- a crop of a single column shows no spacing, `half_cell` gives it a width of its own,
  and `OverlayIsPinned` leaves it out;
- a difference that happens to be the sentinel is no difference, one handle cannot be
  compared with itself, and an answer that labels only one of two sources cannot be
  put in order (`IsComparisonCase`; `ComparisonsAreFair`).

## 7. Plan

1. Abstract specifications: `ThreadPromise` (at most one turn per thread, each
   with one outcome) for the registry, and a store of handles (a hit serves the
   current content or nothing, but for named races) for `CubeCache`.
2. Ground sensors: the request budget and memo of `epa_aqs_tools.py`, and
   validation's pairing of stations and pixels, as pure decisions.
3. The export's zip and streaming; the frontend's reconnect loop.

The set of runs is small on purpose, each with many properties of one part; a
new question joins the run whose state it is about.

## 8. Not modelled

- Drawing, file formats and the contents of arrays beyond what a decision reads:
  values, cells and coordinates are small whole numbers, regions are intervals
  of one axis, scores are orders.
- Ground sensors, HMS smoke and validation: sequential requests to outside
  services and statistics of their answers.
- Agents and prompts: the model's choices are nondeterministic in
  `DispatchExecutor` and `TurnStream`; graph construction and wording have no
  state.
- Persistence: single statements; those with an order that matters are actions
  of the module that issues them.
- Frontend components: rendering. The send key and the resume point of
  `useChat.js` are modelled where they are used.
- Of the modelled parts: the derivation of limits from the host's memory,
  metrics and logs; wall-clock quantities (drain's timeout, the staleness of a
  silent turn, clock skew between replicas), which are choices; Redis dropping
  a whole stream; asyncio's order among several waiters for a dispatch slot;
  the metadata cache, the token's own expiry and the classification of answers
  in `ToolCall`, which also has one endpoint request at a time and one replica;
  the narration's own, shorter time to live; a write of the log that lands unheard
  (`MCTurnLog` leaves it out, the proofs name it as a hypothesis); of the Mercator
  reprojection all but which rows a row blends; a token's claims; the overlay files'
  store.

`PROJECT.json` lists each part with its status and every hazard at its line,
with the properties that watch it or a note on why none does.

## 9. Running

    tlc -config MCData.cfg MCData
    tlapm DispatchProofs.tla

The longest run (`MCData`) takes under five minutes with two workers; the longest
proofs (`TurnProofs`, `RetrievalProofs`, `ResultProofs`) ten to twenty each.
