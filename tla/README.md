# AgentMG2 in TLA+

AgentMG2 is a personal agent: one function, `call_tool`, runs every tool, behind a permission
gate and with an audit row; around it stand a job queue with worker threads, a scheduler that
feeds the queue, a Telegram bot through which a human approves dangerous calls, an event bus
with notifications, a router that turns text into calls, and tools for a local knowledge base,
documents and Google's services. This directory holds TLA+ modules for the parts of it where
order, concurrency and failure matter, TLC configurations that check them on small instances,
and TLAPS proofs of the main results for every instance. `PROJECT.json` maps each definition to
the lines it stands for and lists runs, mutants, findings, hazards and theorems.

    tlc -config JobQueue_safety.cfg MCJobQueue      # one run
    tlapm JobQueueProofs.tla                        # one module of proofs

## 1. Inventory

| Part | State | Operations | Why it is hard | What makes it correct |
|---|---|---|---|---|
| job queue and worker, `app/jobs` | table `jobs`; per worker a thread and a stop event | `enqueue_job`, claim (SELECT, then UPDATE), `_mark_job_finished`; `start`, `stop`, loop | worker threads race for rows; errors or a crash between claim and close; `stop` gives up its join | one holder per job; a tool is run once; the status says how it ended; a claimed job is closed; `stop` and `start` mean what they say |
| executor, `app/core/executor.py`, `approval.py` | row in `execution_history`, event on the bus | `call_tool`: look-up, validation, gate, tool, row, event | any step may fail, the audit insert silently; the handler may raise | no effect above READ without a yes; row, event and caller agree |
| telegram approval, `app/telegram_bot` | table of pending requests; per request an event and an answer | `request_approval` in a worker thread, `handle_callback` on the event loop | tap, second tap and timeout race; the fields of a request are not locked; sending fails; circular wait; a pool of threads that runs out | an answer is a tap on that very request; nothing stays pending; every command ends |
| scheduler, `app/scheduler` | table `scheduled_jobs`; a thread and a stop event | create, enable/disable, delete; round: snapshot, enqueue, advance | the snapshot goes stale; enqueue and advance are two transactions; dates overflow | runs are spaced; a removed schedule stops; a due one is run |
| database, `app/core/database.py` | the SQLite file | `db_cursor`, `init_db` | each block is a transaction of its own | a block commits whole or not at all |
| event bus, notifications, `app/events`, `app/notifications` | list of handlers, table of channels | subscribe, unsubscribe, publish; register, notify, send | the list is iterated live; handlers and channels may raise, or go while they are used | a failure reaches every channel, whatever the others do; only failures are told |
| registry, `app/core/registry.py` | table of tools | `autodiscover_tools`, the decorator, look-ups | it is used while it is filled | what is resolved can be called |
| pipelines, templates, planner | tables of pipelines and templates | register, `run_pipeline`, `run_workflow`, `run_dynamic_plan` | a name is overwritten between registration and look-up; a step fails after others had effects | a run executes its own steps; references are resolved or refused |
| reference resolver | none | `resolve_reference`, `resolve_kwargs` | indices, missing keys, strings that look like references | never an unresolved reference in a call |
| intent router, `app/router` | none | tiers 1, 2, 3 over a normalised text | fall-through, refusal of compound requests, what a language model makes up | cheaper tiers first; a model only when they miss; nothing unregistered |
| knowledge base | table `kb_content` | add, get, update, delete, search | an update reads and writes in two transactions | "only provided fields change" |
| Google clients, `app/core/google_auth.py`, `app/tools/google` | `token.json`; per process a cache of credentials and one of clients | load, refresh, store, build; 14 tools | unsynchronised caches, a file rewritten in place by several processes, answers that get lost | the file survives; things are loaded once; a report is true |
| document tools, `app/tools/excel`, `app/tools/pdf` | the files | read, append, write | load, change and save are apart; a save empties the file first; ranges at their limits | what was saved stays; a read answers what was asked |
| config, logging, errors, scripts | none | constants, wiring | no behaviour over time | not modelled |

How they interact. The bot's commands call `call_tool` in worker threads with one shared
`TelegramApprovalHandler`; `call_tool` calls the handler (which posts a message on the event
loop and waits) and publishes on the event bus, where the notifications subscribe, in the thread
of the call. The router names a tool of the registry for whoever then calls `call_tool`.
`SchedulerLoop` calls `enqueue_job`; `JobWorker` claims rows and calls `call_tool` with
`AutoApprovalHandler`. Pipelines, templates and the planner call `call_tool` step by step. The
database is the only state that survives the process. Neither `main.py` nor
`run_telegram_bot.py` starts a `JobWorker` or a `SchedulerLoop`: the models let the caller start
and stop them at any moment.

## 2. The modules

**`JobLedger`** (abstract): what the table promises to whoever enqueues a job. Jobs get ids in
order, only the oldest queued one is taken, a tool runs at most once and while its job is
running, a closed job stays closed. No workers, no threads.

**`JobQueue`**: table and workers. One step is at most one writing statement with its commit;
what is read in one step may be stale in the next. `ClaimSelect` and `ClaimUpdate` are the two
halves of the claim, `FetchClaimed` the `get_job` behind it and the test of the job type,
`MarkSucceeded`/`MarkFailed` the closing write. `DbFault` is a call of `db_cursor` that raises,
wherever the worker makes one, with the handler the code has there: before the claim nothing
happened; after it the row stays `running`; a lost `succeeded` becomes `failed`. `Crash(ws)`
kills the process of any subset of the workers. `stop` and `stop_returns` are separate because
`join` may give up after five seconds. `call_tool` is one step. `toolRuns`, `outcome` and
`mishap` are history variables; `faults` and `crashes` count against bounds.

**`Executor`**: `call_tool` from look-up to event, several invocations at a time, with any of
the four approval handlers. The variable `approval` is the interface to the handler.

**`Notifications`** extends `Executor` and opens its `Publish`: `LogAndEnter` comes into
`publish()`, `Listener` and `OnToolExecuted` call the handler at the place `at` of the live
list, `Send` tries one of the channels `notify()` copied, `PublishReturns` is the end of the
list and of the call. All this is in the thread of the call; `Subscribe`, `Unsubscribe`,
`RegisterChannel` and `UnregisterChannel` are other threads'. `told`, `steady` and `present` are
history variables.

**`TelegramApproval`**: the handler opened up. A worker thread per request, a callback task per
tap. The worker runs between any two lines of a callback; two callbacks switch only where they
await (`onLoop`). A send, an acknowledgement and an edit may fail.

**`BotCalls`**: composition of the two. It extends `Executor`, whose steps `testdelete_command`
takes for `delete_demo` (DELETE), and instantiates `TelegramApproval` on the same `approval`: the
handler's threads and callbacks stand in place of `Executor`'s `Answer`. A command that was `sent` starts when one of the `threads`
of asyncio's default pool is free; how many there are depends on the machine.

**`Scheduler`**: table, editing operations and the loop. `Check` takes the snapshot, `Enqueue`
and `Advance` are the two transactions of `_trigger`, `AdvanceOverflows` is the `fromtimestamp`
that raises. An exception drops the rest of the round. Time is a counter; `lastEnqueued`,
`unadvanced` and `offRuns` are history variables. That a row is appended to `jobs` by `Enqueue`
is recorded by its time: what becomes of it is JobQueue's business.

**`Workflow`**: the three loops that call several tools: `run_workflow`, `run_pipeline` and
`run_dynamic_plan`, each call in a thread of its own, over the two dictionaries they share.
`run_workflow` makes its steps, `RegisterOwn` puts them into the table and `LookUp` takes out
what is there under the name by then. `Call` is `resolve_kwargs` and `call_tool` of one step; it
may raise before or after the tool's effect (`Executor` says how). `PlanRefuses` is the
planner's check of a step, made only when its turn has come. A step has one argument: a
parameter, a reference to an earlier step, or a value; a parameter may itself read like a
reference. `calls`, `effects` and `overlapped` are history variables.

**`KnowledgeBase`**: the table `kb_content`. `kb_update` has two transactions: `kb_get` reads
the row, `kb_update` writes all its columns back. A row is its three changeable columns; `born`
stands for those nothing changes. Ids are given once because of AUTOINCREMENT. `provided` (what
was last passed for each column), `overlapped`, `undone` and `read` are history variables.

**`InPlaceFile`** (abstract): a file that is rewritten in place. `Truncate` opens and empties
it, `Finish` is the write and the close, `Abandon` a writer that dies or fails. It promises
little: the file is torn only while somebody writes, or after a writing that was abandoned or
shared (`TornOnlyByMishap`).

**`GoogleAuth`**: `token.json` as an `InPlaceFile` under calls of any of the 14 Google tools, in
several processes. Each step is one look at, or one store into, the caches or the file:
`LookUpService` and `LookUpCredentials` try the caches; `LoadToken`, `Refresh`, `StartSave` and
`EndSave` are the load, the refresh and the rewriting; `CacheCredentials` and `BuildClient` fill
the caches; `Request` is what the tool asks of Google, whose library may get a new token on the
way (`RenewInUse`). `Expire`, `Crash` and a new consent by `_regenerate_google_token.py` come
when they like. `alone` is the history behind `LoadedOncePerRun`.

**`LocalFiles`**: one file, an `InPlaceFile` too, under the Excel and PDF tools and Drive's
upload and download. Readers open (`OpenForReading`, `OpenForUpload`) and then read lazily
(`Read`); writers `Load` or `Fetch`, then save in `StartSave` and `EndSave`. The content is a
number of rows or pages and the set of the changes in it, enough to tell lost changes and wrong
ranges. `ExcelReadSheet`, `PdfExtractText` and the like are the arithmetic of ranges and caps.

**`IntentRouter`**: `resolve_intent`, one action per tier and provider, while `Discover` fills
the registry one tool after the other. A text is the set of patterns it matches, the tools whose
phrases are near, and whether it is compound; a language model fails, or answers with any name
and with arguments that may not be a dict.

**`MCJobQueue`**, **`MCBotCalls`**, **`MCWorkflow`**, **`MCKnowledgeBase`**, **`MCGoogleAuth`**,
**`MCLocalFiles`** and **`MCIntentRouter`** hold constants for TLC. **`JobQueueProofs`**,
**`ExecutorProofs`** (for `Notifications` and `BotCalls` too), **`SchedulerProofs`**, **`WorkflowProofs`**,
**`KnowledgeBaseProofs`**, **`GoogleAuthProofs`**, **`LocalFilesProofs`** and
**`IntentRouterProofs`** hold the proofs.

An operator named `Bug...` is a plausible wrong version of the definition below it. No
specification uses it: put in the place of that definition it must break the property that
`PROJECT.json` lists with it, which shows the property is about that code.

## 3. The runs

| Run | What it shows | Bounds |
|---|---|---|
| `JobQueue_safety` | claims are exclusive (`ExclusiveClaim`); a status tells how the tool ended (`HonestStatus`); a row is left `running` only by an error or a crash (`OrphanOnlyByMishap`); the queue implements `JobLedger` (`ImplementsLedger`) | 2 workers, 3 jobs, 2 errors, 1 crash |
| `JobQueue_liveness` | a claimed job is closed, a queued job is taken, `stop` ends the thread | 2 workers, 2 jobs, 1 error, 1 crash |
| `JobQueue_start_refused` | *violated*: after `start()` the worker runs | 1 worker, no error |
| `Notifications` | effects above READ are gated (`GatedEffect`); row, event and caller agree (`AuditTellsTheTruth`); a failure is sent to every channel (`FailureReachesEveryChannel`), and only failures are (`OnlyFailuresAreTold`), after their row | 1 call, all tools and handlers, 2 other subscribers, 2 channels |
| `BotCalls` | an answer is a tap on that request; nothing stays pending after an answer; timeouts alone end every command (`EveryCommandEnds`), and taps alone end a request (`TapsEndIt`) | 2 calls, a pool of 1 or 2 threads, 2 taps on the first message (one unreliable), none on the second |
| `Scheduler` | runs are spaced; one late run at most; what is due is run | 2 schedules, intervals 0, 2, 9, time 0..3, dates to 6, 1 mishap |
| `Workflow` | a run calls a prefix of one list of steps (`PrefixOfOnePipeline`), with references resolved (`ReferencesResolved`), with effects above READ only behind a handler (`NoHandlerNoEffect`); alone, a template's run executes its own steps (`AloneRunsOwn`) | 2 runs, 2 templates, 1 declared pipeline, lists of 0 and 2 steps |
| `Workflow_race` | *violated*: a run of a template executes its own steps | 2 runs, 1 template, 2 parameters |
| `KnowledgeBase` | nothing passed is lost unless updates overlap (`NothingLostAlone`); an update writes the row it read (`WritesWhatItRead`); a deleted row stays deleted (`DeletedForGood`) | 2 callers, 2 rows, 4 patches |
| `GoogleAuth` | `token.json` is an `InPlaceFile` (`IsRewrittenInPlace`); a call alone in its process loads nothing twice (`LoadedOncePerRun`); what a tool reports was done (`ReportedIsDone`) | 2 calls, 2 processes, one may die once, 3 tokens, 1 reading and 1 changing tool |
| `LocalFiles` | a saved change stays unless saves overlap (`SavedIsKept`); reads answer what was asked (`RangeIsHonest`); a failing call costs nobody the file (`TornOnlyByMishap`) | 3 calls of any tool, a file of up to 2 units, ranges and caps from -1 to 3 |
| `IntentRouter` | what is resolved can be called (`ResolvedIsCallable`); a model decides last and only where it may (`LlmIsTheLastResort`) | 2 requests, 6 tools being discovered, 1 unknown name, 18 texts |

Why these bounds are enough for the cases that matter. A lost race needs two workers and one
row; the oldest-first order needs a row above and one below; two errors let `succeeded` be lost
and then `failed` too. A tap can race with the timeout, with a second tap, and with a request
nobody answers, which must stay unanswered; with one thread in the pool the second command waits
for the first. One call is enough for the bus: calls share only the two lists, which any thread
may change at any time. Two schedules let one poison or outlive the round of the other, and
three ticks let an interval of 2 pass while the loop is late. Two runs are a run and the one
that overwrites its entry; two updates and two rows are an overlap, and an id that could be
given twice; a second step is one that can refer back, refer ahead, or be unregistered. Three
tokens let two calls refresh at once; three calls on a file are two overlapping writers and a
reader, or a third save after them; two units have a first, a last, and a page beyond. `Workers`
is a symmetry set in `JobQueue_safety`, `Runs` in `Workflow`, `Callers` in `KnowledgeBase`,
`Calls` in `LocalFiles`, `Calls` and `Tokens` in `GoogleAuth`; no liveness run uses symmetry.
`CHECK_DEADLOCK FALSE` is set for `Notifications`, `BotCalls`, `GoogleAuth`, `LocalFiles` and
`IntentRouter`, whose calls finish; the job queue and the scheduler never stop, and a template
can always be registered again.

**Fairness.** `JobQueue!FairSpec`: weak fairness of each live thread's own steps (`Advance`):
the operating system runs it, sleeps end and a tool returns or raises. Nothing forces anybody to
call `start`, `stop` or `enqueue_job`, and no error is forced. `BotCalls!BotFairSpec`: weak
fairness of each worker thread, in `call_tool` and in the handler, and of each callback; the
clock and the human are not fair by themselves, so `EveryCommandEnds` and `TapsEndIt` each name
the one they need. `Scheduler!FairSpec`: the loop's thread is scheduled. `DueIsRun` supposes
that the loop is eventually up for good and that no row has an impossible interval, without
which it does not hold. It speaks of schedules with a positive interval: with interval 0 a row
is due again at once.

## 4. What the runs found

* A `start()` that comes while a `stop()`ped thread is still finishing is refused as "already
  running"; the thread then ends and no worker is left (`worker.py:38`; `SchedulerLoop.start` is
  written alike).
* A handler that raises leaves `call_tool` without row and event, against its docstring.
* A request that nobody answers ends in `ApprovalDeniedError`, which is documented as "not a
  timeout".
* An interval beyond year 9999 is accepted, runs its job every round and starves the rows behind
  it.
* All runs of a template share one pipeline name, although the comment calls it unique: of two
  concurrent runs one may execute the other's parameters (`templates.py:118`).
* Of two overlapping `kb_update`s of one row, the later writes back the columns it read and
  undoes the earlier, although "only provided fields change" (`knowledge_base.py:62`).
* `token.json` is emptied before it is rewritten: a crash there, or two processes that refresh
  at once, leave a file no later run can load (`google_auth.py:74`). Expired credentials are
  loaded again and not "reused" (`google_auth.py:55`).
* Two overlapping appends to a workbook both report success and one is lost
  (`excel_write.py:88`).
* A model's arguments that are JSON but no dict are handed on as a dict (`tier3_llm.py:178`),
  and a compound request is refused, not "deferred to pipeline/LLM tiers" (`router.py:31`).
* A text/html part found first wins over a later text/plain part (`gmail_tools.py:44`).
* The Telegram channel keeps one Bot; its docstring says one per send
  (`telegram_channel.py:29`).
* `$step0.` is no reference to the resolver and reaches the tool as text
  (`reference_resolver.py:21`).

The refused `start()` and the race of templates have a run that shows them (*violated* above).
The others are told by the code, or by what a property has to except: the raising handler in
`AuditTellsTheTruth`, the overflow in `DueIsRun`, overlaps in `NothingLostAlone` and
`SavedIsKept`, the disturbed writing in `TornOnlyByMishap`, the arguments in
`ResolvedIsCallable`.

## 5. Proofs

All proofs hold for any value of the constants under the named assumptions of their modules:
bounds are naturals (`BoundsAssumption`, `SchedulerAssumption`); handlers, tools and operations
are among those the code has (`HandlersAssumption`, `ToolsAssumption`, `OpsAssumption`); what is
registered is a list of steps and a patch is one of the sort the code takes (`ListsAssumption`,
`PatchesAssumption`); texts match patterns there are (`RouterAssumption`); names that stand for
different things differ (`ListenersAssumption`, `FileAssumption`, `NamesAssumption`); a tap is on
a call (`TapsAssumption`).

`JobQueueProofs`. The invariants are not inductive alone; `IInv` adds: `IdsInOrder` (rows below
`nextId` exist, so a job enqueued later never goes before a selected one), `SelectionHolds` (the
row a worker has selected is still the least that can be queued, the reason why a stale SELECT
is harmless), `ClaimHolds` (a held row is `running`, so nobody else can claim it) and
`ToolProgress` (a queued job's tool has not been run; what has been run is told by where its
holder is). From `Invariance` follow `ClaimsAreExclusive`, `StatusIsHonest` and
`OrphansComeFromMishaps`. `QueueImplementsLedger` maps each step to a ledger step or a stutter:
ClaimUpdate to Take because of SelectionHolds, CallTool to CallTool because of ToolProgress, the
closing writes to Close because of ClaimHolds. What the ledger promises by itself, the queue
promises too: `ToolsRunAtMostOnce`, `JobsStayClosed` and `JobsAreTakenInOrder` are proved of the
ledger's five actions and hold of the queue by the refinement.

`ExecutorProofs`. `IInv` says per invocation what is settled at each point (`Progress`) and that
the path to the tool leads through a yes (`Gate`). A step of the bus is a step of `Executor` or
changes nothing there, so `BusGated` and `BusAudited` carry over to `Notifications`. `BusInv`
adds `Notified`: while a publish is under way and nobody has been taken off the list,
`_on_tool_executed` is still ahead of it, or each channel that was there throughout has been
tried or is still on the list. The lemmas on lists say what an append or a removal keeps of what
is ahead.

For the bot, `BotInv` ties each answer to a tap over look-up, write and pop: where
`request_approval` is tells whether its caller still waits (`Asking`); what is in the table was
tapped on this very request, and the event is set behind an answer only (`Heard`); no answer
returned and no denial is without its tap, but for the thread that gave up (`Judged`); an entry
belongs to a thread still inside, or to one whose send raised (`InTable`); and past its write a
callback finds an answer there (`Tapped`). `Asking` makes every step of a thread or callback
`Executor`'s `Answer` or a stutter: that is `BotImplementsExecutor`, and it carries `IInv` over
to the bot, whose part about the gate is what `AnswersAreTaps` needs. `CallsEndForGood` is an
action property that follows from `Gate`: an answer comes only to a call that still waits.
`BotAudited` and `BotLeavesForGood` are both of `Executor`'s results for the bot.

`SchedulerProofs`. `IInv` says of each schedule that an id not given yet has no history
(`Unborn`), that one switched off has run once since at most, and then is out of the snapshot
(`LateRun`), and that an interval lies between a run and the next one unless the move was lost
(`Spaced`); `Triggering` is about the row between its two transactions.

`WorkflowProofs` assumes `ListsAssumption` (what is registered is a list of steps, and `None` is
not one). `IInv` adds `BeforeLoop` (the entry a run registered is its own until another run of
its template writes it, because every template has its own name and no declared pipeline has it)
and `Calls` (in the loop the calls made are the steps that returned). `OthersKeep` says that a
step of another run can disturb nothing else, `CallKeeps` treats the one action that extends the
history. All five invariants of the run follow.

`KnowledgeBaseProofs` assumes `PatchesAssumption`. `IInv` adds `Unused` (ids above the counter
have no row) and `Holds` (between its transactions a caller knows the row as it is, unless it
was overlapped or the row deleted; its id is below the counter, so no `kb_add` gives it again).

`LocalFilesProofs`. `IInv` adds what the place of a call tells of the file it loaded (`CallOK`),
that two writers at once have spoiled the file (`FileOK`), and that what is about to be saved
contains each saved change, unless the two overlapped (`Keeps`). `ReadsFacts` is the arithmetic
of the ranges, for files of any size. `ImplementsInPlaceFile` maps each step to one of
`InPlaceFile` or a stutter.

`GoogleAuthProofs`. `IInv` adds what the place of a call tells of its token and of its effect
(`CallOK`), that a cache holds what was loaded in its process (`CacheOK`), that a call alone
loads only where nothing usable is cached (`AloneOK`), and that a token in the file was handed
out (`TokenOK`). `TokenFileIsRewritten` is the refinement of `InPlaceFile`, and through it
`TokenFileSurvives` says when the file can be unreadable.

`IntentRouterProofs`. `IInv` says what the tiers before the present one have found (`Passed`);
`RegistryGrows` keeps what was looked up true.

Every safety property of a passing run is a theorem, for any value of the constants. Only model-checked
is liveness (`ClaimedIsClosed`, `QueuedIsTaken`, `StopTakesEffect`, `EveryCommandEnds`,
`TapsEndIt`, `DueIsRun`). Liveness under fairness and `ENABLED` are
outside the prover's reach, as are induction over data and `RECURSIVE` operators; modules that
are proved about use none.

## 6. What could come next

* The resolver's walk along a path and the nested arguments of a step, as a recursive function
  over small trees, and the search for the body of a nested message in `gmail_tools.py`.
* `Scheduler` composed with `JobQueue` through the table `jobs`.

## 7. Not modelled

SQLite's locking (a transaction is taken to be atomic), the polling of the Telegram library, how
long a notification blocks its thread, `notify` with chosen channels (never called), whether a
send on the bot's loop needs a thread of the pool itself (host names are looked up there), the
arguments and results of tools, regular expressions, fuzzy scores and the language models, file
formats (cells, text, tables, OCR), the shape of Google's requests and answers and the search
for a message's body, what `kb_update` returns, readers that only list rows, configuration,
logging and the scripts `_verify*.py`. A read from a file that is emptied under it may end in a
mixture: `LocalFiles` allows it and no property rules it out, since the code does nothing
against it.
