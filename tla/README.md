# aether-agent-memory in TLA+

TLA+ modules, TLC runs and machine-checked proofs for the Python library
`aether_agent_memory` (`src/aether_agent_memory/`, written `aam/` below) and its
terminal demo (`examples/minimal_loop/`). `PROJECT.json` maps every definition to
the source lines it translates, and lists the runs, the mutants, the hazards and
the theorems.

## 1. The system

The library gives an agent three kinds of memory and decides on which storage
tier objects belong. It is an asyncio library without a server: its operations
are coroutines that callers run as tasks on one event loop.

| part | state | operations | talks to |
|---|---|---|---|
| stores (`persistence/memory_store.py`) | id -> memory: a dictionary, or one SQLite table | `upsert get list delete` | - |
| managers (`mocks/_base.py`, `working/ episodic/ semantic/manager.py`) | a default time to live | `write get query update_state delete expire_stale recall` | one store each, or one for all |
| lifecycle (`lifecycle/`, `core/`) | - | `transition`, `is_ttl_expired`, `touch` | - |
| memory service, B2 (`b2/service.py`) | - | `ingest before_inference archive_session` | managers, builder, emitter |
| context pack builder (`context/builder.py`) | - | `build` | the managers' `recall` |
| signal emitter (`signal/emitter.py`) | the signals emitted | `emit` | - |
| tier scheduler, B3 (`b3/`) | executor: object -> tier, answers by action id, failing objects | `run_once run_periodic execute` | object and resource sources |
| embedding pipeline, B1 (`b1/`) | vector sink: chunk id -> record | `process`, `delete_by_object_id` | embedding client |
| terminal demo (`examples/minimal_loop/`) | one `DemoEnv` with all of the above; the scenario, the prompt's event | four scenarios, key handler | everything above |
| settings, closed-loop script | - | - | - |

What is hard about each part, and what makes it correct:

* **Stores and managers.** One operation is several store calls with an `await`
  between them, and every write replaces the whole row. With the SQLite store
  each call suspends (`asyncio.to_thread` under an `asyncio.Lock`); with the
  in-memory store no call does. Correct: an operation looks like one step on one
  row; accesses are counted; deadlines are written once; only due memories
  expire, and a sweep leaves none of them; terminal states stay terminal.
* **Memory service.** `archive_session` copies an item, marks it and signals it,
  three awaits per item, and can die or raise at each. `before_inference` reads
  three managers at three moments and writes back what it read. Correct:
  nothing is lost by archiving, nothing is missed by a recall that overlaps,
  signals are true, retired memories stay out, an item is archived once, user
  memories stay where they are.
* **Builder.** Two cuts at `max_candidates`, a comparison of contents without
  case and spacing, and a greedy pass under a token budget. Correct: budget, no
  repetition, nothing more fits, no better memory is lost.
* **Scheduler.** Requests are snapshots; by the time they run, other requests
  have moved the objects. Answers are cached by action id, and a failed action
  is followed by a KEEP that writes a tier. Correct: a retry changes nothing; a
  request that is up to date moves an object one tier at most; periodic runs
  bring objects where they belong and then stop moving them.
* **Embedding pipeline.** The chunk loop must advance, cover the text, and
  overlap its chunks so that no boundary tears a short passage. `process` awaits vectors while other
  calls store other versions and callers delete objects; a shorter text leaves
  the old tail behind; a client may answer too few, empty or uneven vectors, or
  raise. Correct: what was reported SUCCESS last is in the sink in full, a
  failure leaves nothing there, a delete takes every version with it.
* **Terminal demo.** A worker runs four scenarios over shared state, pausing
  between their steps, while a key handler sets the event it waits for. Correct:
  versions 3 and 4 of the object are never mixed, an active memory's sources are
  stored, archiving loses no turn, and this holds where an embedder raises in
  the middle; each prompt waits for its own Enter.

## 2. The modules

| module | models | composes |
|---|---|---|
| `Lifecycle` | the states and the transition table | - |
| `MemoryContract` | abstract: what a manager promises, each operation one step on one row | `Lifecycle` |
| `MemoryManager` | `BaseMockMemoryManager` over a store, await by await | `Lifecycle`; refines `MemoryContract` |
| `MemoryService` | `MemoryService`, its managers, the recalls, the emitter, callers, crashes | `Lifecycle` |
| `ContextBuilder` | `build` and the sort and cut of the managers' `recall` | `Lifecycle` |
| `TierScheduler` | policy, executor, `run_once`, `run_periodic`, retrying callers | - |
| `TextChunker` | the loop of `chunk` in the embedding pipeline | - |
| `VectorSink` | the sink of the pipeline: upsert, delete by object | - |
| `EmbeddingPipeline` | `process` before and after its await, callers that delete | `VectorSink` |
| `DemoApp` | the worker of the terminal demo, its prompts, the key handler | `VectorSink` |
| `MemoryManagerProofs`, `MemoryServiceProofs`, `MemoryServiceRecallProofs`, `ContextBuilderProofs`, `TierSchedulerProofs`, `TextChunkerProofs`, `EmbeddingPipelineProofs`, `DemoAppProofs` | theorems (section 4) | the module they are named for |
| `MC*` | the small instances TLC checks | |

### How the code became actions

An action is what runs between two points where other tasks can run. In
`MemoryManager` and `MemoryService` a store call is one such step, because
SQLite's runs under the store's lock and the dictionary's never suspends. So
`get()` is the two actions `Get` (read, `touch`) and `Upsert`;
`archive_session` is `ArchiveSession` (query), then per item `CopyWrite`,
`MarkRead`, `MarkWrite` (the two halves of `update_state`) and `Marked` (the
signal), and finally `ArchiveReturn`. A task's local variables are the record
`call[t]` or `frame[t]`, among them the row copies whose write-back is the main
hazard of this code. The constant `Overlap` says whether the calls of different
tasks interleave. `TRUE` is SQLite. `FALSE` is the in-memory store with the mock
embedding client, whose coroutines never give up the loop; then a call runs to
its end, and the copy a task holds and the object in the store, which are the
same Python object there, cannot be told apart.

`Crash` drops all local variables and keeps the rows: the process restarts on
the same database file. The signals are kept too, because whoever received one
keeps it; the emitter's own list would be empty.

`MemoryManager` instantiates its contract explicitly (`Contract`), reading the
rows of the store as the rows of the contract. Its history variable `accesses`
counts the touches that callers were told of.

`MemoryService` splits a row in `born` (type, session, content, origin), which
no operation changes, and `state`. Beside the service's own operations callers
use the managers: `Get` and `GetWrite` are `get()` (its read and its upsert of
what it read), `UpdateState` and `UpdateWrite`, `Delete`, and `ExpireStale` with
`ExpireOne`. The deadline is left to `MemoryManager`: here a sweep of any of the
managers may find any ACTIVE row of its store due (`Sweepable`), which on the
shared store is any row. `Packs` stands for the
builder: any choice of candidates without repeated content, the property that
`ContextBuilderProofs!NoRepeats` proves of it. `SharedStore` is the wiring that
README.md of the repository (line 137) offers: one store for the three managers.
How many calls of each operation begin is a scenario picked from `Budgets`
initially; the history variables `retired` and `rewritten` remember which
memories were deleted, superseded or expired on request, and which a recall or a
`get()` wrote back in another state than they had by then (`WriteBack`).

`ContextBuilder` keeps the recall loop, the stable sorts and the greedy pass as
they are and takes any scores. A memory is its type, score, estimated tokens and
content key; the texts that `build` assembles from the selection are left out.

`TierScheduler` uses tiers `0..Coldest` (`_TIERS`). The score, in percent, is the
object's own part (`base`: frequency, semantic value, recency) plus what cheap
migrations add (`cheap`, from the resources of the request), so that one object
may be hot for one request and not for the next (`Score`). The other resources
are the set of tiers that a promotion or a demotion may go to
(`_target_available`) and the network. `MockExecutor.execute` contains no suspension, so
`RunOnce` is one step. An action id is a hash of the request's id and the
decision, so the executor's answers by action id become, per request, the
answer for each object; a fallback's id is a hash of the failed action's.

`TextChunker` is the stripped text as a function from positions to kinds of
character (a mark to cut after, a space or newline, other white space, a
letter); one action is one turn of the loop. Chunks are their positions
`start_char` and `end_char`; their ids and texts are left out.

`EmbeddingPipeline` has one await, the embedding client: `Process` is what comes
before it, `Embedded` and `EmbeddingRaised` what comes after. A request is its
object, its explicit chunk id, the other name it may get its chunk ids from, and
the number of its chunks; a vector is its dimension, 0 for an empty one. The
client answers any list of vectors, one too many or too few included. History:
`latest`, the request last stored under a key, and `erased`, the requests
answered before their object was deleted.

`DemoApp` has one action per stretch of the worker between two suspensions (its
pauses, the wait for Enter, the sleep after it); `OnKey` may fall on each of
them. The memories, objects and chunks of the script are named values. `Faults`
says whether the embedder may raise; the demo's own never does, another one
passed to `DemoEnv` may. Calls into other components appear as what they do to
the demo's state: the managers' rows as `memory`, the scheduler as its action
log, the pipeline as one upsert. The history variable `answered` says that Enter
was pressed at the prompt being shown.

## 3. The runs

Every run is exhaustive for its constants. Deadlock is not checked where calls
are bounded, since the system then rightly stops (`CHECK_DEADLOCK FALSE`); it is
checked in `tier_scheduler`.

| run | instance | shows |
|---|---|---|
| `manager_in_turn` | 2 ids, 2 tasks, 4 calls, no overlap, crashes | `ImplementsContract` (refinement), `AccessesCounted`, `SweepIsComplete`, `CallsEnd` |
| `manager_overlap` | the same with 5 overlapping calls; callers do not write EXPIRED | `TypeOK`, `DeadlineWriteOnce`, `ExpiredOnlyWhenDue` |
| `manager_terminal` | 4 overlapping calls | **violated**: `TerminalIsTerminal` |
| `service_races` | 4 ids, 2 tasks, one shared store, overlap, 26 scenarios: a recall and an archival with any two, or two archivals with any one, of a get, a deletion, an update, a sweep, another memory and a crash; the query of an archival returns 2 items at most | `TypeOK`, `ArchivedHasCopy`, `RecallMissesNothing`, `ReportedIsArchived` |
| `service_in_turn` | separate stores, no overlap, every operation but a crash, 3 scenarios | `RetiredStaysOut`, `ArchivedOnce`, `UserMemoryKept`, `StatesMoveLegally`, `CallsEnd` |
| `service_retired` | shared store, overlap, one recall and one update | **violated**: `RetiredStaysOut` |
| `service_user_memory` | shared store, one call after the other, one archival | **violated**: `UserMemoryKept` |
| `context_builder` | every store of 3 memories, 12 requests | `PackWithinBudget`, `NoRepeatedContent`, `NothingElseFits`, `BestAreCandidates` |
| `tier_scheduler` | one object, 5 tiers, a periodic scheduler and a caller with one request that it may repeat, 2 changes | `TypeOK`, `RetryChangesNothing`, `FreshRunsMoveOneTier`, `ReachesItsTier`, `MigrationsEnd` |
| `text_chunker` | every text of at most 7 characters, 5 settings | `TypeOK`, `NothingLost`, `PassagesStayWhole`, `Ends` |
| `embedding_pipeline` | 5 requests on 2 objects, up to 3 chunks, deletes at any time | `TypeOK`, `LastStoredIsWhole`, `OnlySuccessesStored`, `DeletedMeansGone` |
| `demo_app` | the whole demo, with an embedder that never raises and with one that may | `TypeOK`, `OldVersionGone`, `SourceChain`, `IsolationHolds`, `TurnsKept`, `StagesNeedEnter`, `DemoEnds` |

**The bounds.** Two tasks are enough for every race here: one call holds a copy,
another changes the row. Two ids in `MemoryManager` tell a row from the others;
operations touch one row at a time except `expire_stale`, whose loop has two
turns. Four ids in `MemoryService` are two ingested memories and a copy of
each. `Budgets` and `MaxCalls` say how many calls begin; a scenario has one call
of each operation its properties are exposed to, and two where a repetition
matters (ingest, archival). Scenarios instead of one large budget keep the races
apart: every pair of callers is tried, not all of them at once. The query limit
of 2 cuts as soon as the session has a copy besides its two items. `MaxClock` is
2: before, at and after the deadline 1. Three memories in the builder are one
that is selected, one that is passed over and one after it; `max_candidates`
runs from 1, which cuts both times, to 3, which never does. In `TierScheduler`
objects do not influence each other (each decision and each answer concerns one
object), so one is enough; the signals lie on and beside each of the code's
default thresholds, and across them as migrations get cheap or dear, and two
changes take an object from one regime to another and back. The periodic task
builds requests without limit; the caller's one may be run, or repeated, at any
later time. In `TextChunker` windows of 1 to 5 on 7 characters give texts of one
chunk and of many; the overlaps are none, half a window, and one less than the
window. The requests of `embedding_pipeline` are a longer and a shorter version
of one object, two objects under one explicit chunk id, and a blank text;
dimensions 0 to 2 are an empty vector and two that disagree. `DemoApp` has no
bound: the script is the instance. Symmetry of ids and tasks is used in
`service_races` only, which has no liveness.

**Fairness.** `WF_vars(Proceed(t))`: a coroutine that has begun is resumed,
because asyncio's ready queue and `asyncio.Lock` are first in, first out. No
fairness makes a caller begin a call. In `TierScheduler` only the periodic task
is fair, which `run_periodic` is when `iterations` is `None` and its sources
answer; the caller may hold a request for ever, run it late, or repeat it. The
chunk loop does not suspend, so `WF_vars(Next)` only says that it runs. In
`DemoApp` the worker is resumed (`WF_vars(Worker)`), and a user who sees a
prompt presses Enter in the end (`WF_vars(pc = "wait" /\ OnKey)`); without that
the demo rightly waits for ever. `EmbeddingPipeline` states none: a client that
never answers is allowed.

**What fails, and why it is a disagreement with the repository.**

* `manager_terminal`: `get` and `update_state` upsert the row they read an await
  earlier. The unit test `test_terminal_states_have_no_outgoing` says that
  nothing leaves EXPIRED and SUPERSEDED; the table agrees, the store does not.
* `service_retired`: the same write-back in `before_inference` makes a deleted
  or superseded memory ACTIVE again; the requirements (lines quoted in
  `PROJECT.json`) say that such memories must not enter a Context Pack again.
* `service_user_memory`: `archive_session` queries without a type. On a shared
  store it archives the session's semantic user memories, which semantic recall
  then no longer returns. This needs no concurrency.

The three properties hold in the other wiring: `service_in_turn` checks them
without overlap and on separate stores, and section 4 proves `RetiredStaysOut`
without overlap and `UserMemoryKept` on separate stores. `ArchivedHasCopy`,
`RecallMissesNothing`, `ReportedIsArchived`, `DeadlineWriteOnce` and
`ExpiredOnlyWhenDue` hold in spite of all of this.

**Callers.** `CallerTargets` are the states callers pass to `update_state`.
Archiving is left to `archive_session`: a caller that marks a memory ARCHIVED
itself makes no copy, and `ArchivedHasCopy` is not about it. Callers do delete
and supersede (`examples/minimal_loop/tui_app.py:494` and `:724`).

## 4. The proofs

Proved with TLAPS, for every value of the constants that satisfies the named
assumptions of the module: any number of tasks, ids, requests and calls.

* `MemoryManagerProofs`. Under every interleaving and crash: `TypeCorrect`,
  `OnlyDueExpire` (`ExpiredOnlyWhenDue`) and `DeadlinesAreFixed`
  (`DeadlineWriteOnce`). The row alone says nothing about the next row, which
  may be an old copy. So the invariant `ManagerInv` speaks of the versions of a
  memory, its row and every copy a call will write back: they have one deadline,
  one if there is a default time to live, and are EXPIRED only when due. The
  lemma that carries the proof, in eleven cases, is that every version after a
  step descends from one before it (`Descends`). Under `~Overlap`:
  `NoAccessLost` (`AccessesCounted`), `SweepsAreComplete` and `Implementation`
  (`Spec => ImplementsContract`, initial states and every step). `InTurnInv`
  says that one call is under way and that what it has read is what the store
  holds (`Current`), so that its write is the contract's one step.
* `MemoryServiceProofs`: `TypeCorrect`, `ArchiveIsSafe`
  (`Spec => []ArchivedHasCopy`) and `SignalsStayTrue`
  (`Spec => []ReportedIsArchived`). `ArchivedHasCopy` alone is not inductive: a
  frame may hold a copy of a row in state ARCHIVED, or an item that it is about
  to mark. `ArchiveInv` adds that ids held by a call belong to stored memories
  (`LocalsOK`) and that whoever is about to write ARCHIVED does so for a memory
  with a copy (`CopiedFirst`). The step proof rests on `Kept`: no step rewrites
  `born`, and a row only disappears by being retired; so copies, once there,
  stay, and only the frame of the task that moves has to be looked at
  (`OneFrame`). For the signals, a memory whose marking a call has seen through
  is settled, no longer ACTIVE unless an access wrote it back, and stays settled
  under every step (`ReportInv`). A write-back is the only step that can make a
  settled memory ACTIVE, and `rewritten` then has it: in `AccessWrite` and in
  `GetWrite` alike (`WritesBack`). Assumptions used: callers pass terminal states
  only, and the markers for absence differ from real values.
* `MemoryServiceRecallProofs`. Under every interleaving and crash:
  `RecallIsComplete` (`Spec => []RecallMissesNothing`) for every recall order
  that reads working memory before some reading of episodic memory, as the
  default does (`WorkingAhead`). Its invariant `RecallInv` says that a memory
  is live or retired, that copies agree in content with what they copy, and that
  each memory a recall must not miss is found or still ahead of it: in working
  memory, or by then as a copy in episodic memory. `UserMemoriesStay`
  (`~SharedStore`, `Spec => []UserMemoryKept`), any overlap. Under `~Overlap`:
  `RetiredStay` (`Spec => []RetiredStaysOut`) and `MovesAreLegal`
  (`Spec => StatesMoveLegally`), from the same idea as `InTurnInv` above. The
  hypotheses are exactly what the runs `service_retired` and
  `service_user_memory` drop. `MemoriesArchivedOnce`
  (`Spec => []ArchivedOnce`) has three hypotheses, calls in turn, separate
  stores and no crash, and needs each: two archivals that overlap copy the same
  item, on a shared store the copies are archived in their turn, and after a
  crash between copy and mark the next archival copies again. `OnceInv` says that a
  copy is of a working memory and has its content (`OriginsKnown`), that a
  memory with a copy is ACTIVE only while the call that made the copy marks it
  (`CopiedIsLeft`), and that what an archival has still before it has none
  (`WorkOK`); the marking of an ACTIVE item cannot fail half way then
  (`MarkingGoesOn`).
* `ContextBuilderProofs`: `BudgetKept`, `NoRepeats`, `PackIsMaximal`. The
  invariant `BuilderInv` adds that `seen` is the set of the selected keys and
  that everything the pass went by is in `seen` or no longer fits
  (`PassedOver`); since `total` only grows, it stays that way. The lemmas
  `RankInjective`, `RankSurjective` and `ByScoreType` show that the sort, defined
  by counting, is well defined for any scores with ties. `TokensAreCounted`
  (`Spec => []PackWithinBudget`): `total` is the sum over the pack. Sums over
  finite sets are handled by induction on the size of the set, in the form "a
  least counterexample does not exist" (`Least`, from the well-foundedness of
  `<`). `BestAreKept` (`Spec => []BestAreCandidates`): a memory that a cut drops
  has `max_candidates` better ones before it, in its manager's list or in the
  merge, and of those the second cut drops none without keeping as many
  (`RecalledRepresented`, `Represented`). Assumptions used: the
  estimate of a content is at least one token, requests are naturals.
* `TierSchedulerProofs`: `TypeCorrect`, `RetriesAreIdempotent`
  (`RetryChangesNothing`), `FreshRunsAreGentle` (`FreshRunsMoveOneTier`),
  `RunsHeal` (`UpToDateRunsHeal`) and `RequestsAgree` (`NoTugOfWar`).
  `SchedulerInv` adds to the types that a request that was executed once has an
  answer for each of its objects (`AnswersOK`), failures and fallbacks included,
  so that a retry finds them all; `DecideFacts` is what the policy may decide for
  any signals and thresholds. The last two theorems, stated in the proof module
  and not checked by a run of their own, are the safety halves of
  `ReachesItsTier` and `MigrationsEnd`: each turn of the periodic scheduler that
  is up to date leaves a hot or a cold object one tier nearer to its place, and
  one signal that is not torn pulls one way only at one cost of migrations,
  whatever the tiers have room for. (At another cost the score is another, and
  the object may rightly be wanted elsewhere.) They rest on the order of the thresholds (`ThresholdsApart`); without it one signal
  would ask for both directions.
* `TextChunkerProofs`: `TypeCorrect`, `TextIsCovered`, `PassagesAreWhole`
  (`PassagesStayWhole`), `LoopMovesForward`. The invariant `ChunkerInv` says that
  every short passage that begins before `start` is in one chunk
  (`WholeSoFar`). A passage that begins in this window and not before the next
  one ends in this chunk: either the next start is the overlap before its end,
  and the passage is no longer than that, or the overlap is larger than the
  chunk, the next start is one character on, and the chunk has at least half its
  window (`Boundary`), which the passage does not exceed. That is why `Passage`
  has both bounds. `TextIsCovered` is the case of one character.
  `LoopMovesForward` is the safety half of `Ends`: every turn ends the loop or
  moves `start` forward below `length`. Assumption used: the constructor's checks of its two parameters.
* `EmbeddingPipelineProofs`: `TypeCorrect`, `SuccessIsStored`
  (`LastStoredIsWhole`), `FailuresStoreNothing` (`OnlySuccessesStored`) and
  `DeleteIsComplete` (`DeletedMeansGone`), for every set of requests, however
  their objects and chunk ids overlap. `PipelineInv` adds that a record carries
  the object of its request (`ObjectOfRequest`), which is what a delete goes by,
  and that only calls that have ended count as deleted (`ErasedAnswered`).
* `DemoAppProofs`: `TypeCorrect`, `VersionsNeverMix` (`OldVersionGone`),
  `SourceChainKept` (`SourceChain`), `ChecksNeverFire` (`IsolationHolds`),
  `NoTurnIsLost` (`TurnsKept`) and `EnterIsAwaited` (`StagesNeedEnter`). The
  script is fixed, and TLC already visits all of it; the proofs give the reason.
  `DemoInv` says what the world is like at each point of the script: what the
  upload has made (`Uploaded`), that nothing of version 4 is there before all of
  version 3 is gone (`UpdateInOrder`), that each loop has a turn left
  (`LocalsOK`), and that an event that is set at a prompt was set there
  (`PromptOK`).

Every invariant and every safety property of the passing runs is proved. Only
model-checked is liveness (`CallsEnd`, `ReachesItsTier`, `MigrationsEnd`,
`Ends`, `DemoEnds`), with the fairness it needs, which this prover does not
treat, and that the three violated properties are violated.

## 5. Not modelled

* `examples/p3_closed_loop.py`: one call after the other of operations that the
  other modules model, nothing beside it and no state. `Settings`: reads a file
  and the environment into fields that no component reads.
* The score formulas, the texts of a pack, tags, logging, the `ActionLog` beyond
  the objects in the demo's; the demo's output, its layout and the pauses between
  outputs.
* agent, user and tenant filters: one scope; the session is kept because
  `archive_session` and working recall depend on it.
* Cancellation of a call (a `to_thread` write that lands late), and two
  processes on one SQLite file: nothing in the repository does either.
* The in-memory store with an embedding client that suspends (objects shared
  between store and callers): neither value of `Overlap` is that combination.
* Requests of the scheduler that name an object twice, capacities used up within
  a request, sources that raise, and sources read at different moments: a request
  may be old, but its objects and its resources belong together.
* The `now` that `expire_stale` accepts: nothing in the repository passes one, so
  a sweep goes by the clock. A caller that passes a later moment would expire
  memories before their deadline.
* In `MemoryService`, a caller that keeps a `Memory` object and passes it to
  `write()` again later: the callers in the repository write memories they have
  just made. It would undo an archival as a `get()` does.
* The time to live between sweeps: recall looks at the state only, so a memory
  that is due but not yet swept is recalled. `SweepIsComplete` is about sweeps.
* `max_candidates` cuts before duplicates are dropped, so many copies of one
  content can crowd out others. That is the code's behaviour, and
  `NothingElseFits` speaks of candidates only.
* A shorter version leaves the tail of a longer one in the sink;
  `LastStoredIsWhole` does not speak of that tail, `DeletedMeansGone` does.
* Torn signals (prefetch wanted, demotion deserved) make an object oscillate;
  the roadmap of the repository lists the missing damping, and `MigrationsEnd`
  excludes them by `Torn`.
* `get` and `delete` of the mock storage client, which have no caller.

## 6. Plan

Done: every component with state that two steps can disagree about, the
refinement of `MemoryContract`, and the proofs of section 4. What would come
next, in this order:

1. A variant of `MemoryManager` in which the store and its callers share row
   objects and the embedding client suspends.
2. Two objects in `TierScheduler`, for requests that name an object twice and
   for capacities that one run uses up.
3. Calls that are cancelled while their thread still writes.
4. The safety halves of the liveness properties: a measure that each turn of a
   call makes smaller, for `CallsEnd`, as `LoopMovesForward` is for `Ends` and
   `RunsHeal` for `ReachesItsTier`.
