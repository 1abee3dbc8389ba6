# dry-dock: specification and verification

Dry-dock is a self-hosted agent platform: an orchestrator (FastAPI, one asyncio
process, Postgres) holds projects, tasks and jobs; workers on other machines
connect to it by WebSocket, are granted work and report back.  This directory
holds TLA+ modules of what the orchestrator and its workers decide, store and send
to each other, TLC configurations that check them on small instances, and proofs
checked by TLAPS.  Paths below are relative to the repository; `orchestrator/` is
`backend/app/orchestrator/`, `routes/` is `backend/app/routes/`.

Everything is run in this directory:

    tlc -config lifecycle_reports.cfg MCTaskLifecycle
    tlc -config records.cfg MCRecords
    tlapm WorkbenchProofs.tla

Section 3 pairs each configuration with its module.

## 1. The system

### Components

| Component | Code | State it keeps | Operations | Module |
|---|---|---|---|---|
| Task lifecycle | `orchestrator/lifecycle.py`, `planner.py`, `routes/tasks.py`, `dashboard.py`, `models.py` | tables `tasks`, `runs`, `approval_gates`; project settings | create, enqueue, re-run, requeue failed children, delete task or project, decide and reopen gates, promote, materialize a plan | `TaskLifecycle` |
| Result handler | `routes/workers.py` `_handle_result` | rows read before the push, written after it | read, push, then gate, succeed, retry, fail, or send the parent back | `TaskLifecycle`, `Engineer` |
| Git working tree | `git_service.py` | one clone per project under a lock | clean and apply a patch, rebase, push (force-with-lease or direct), open a pull request | `GitTree`, `PatchCleaner` |
| Dispatcher | `orchestrator/dispatcher.py` | nothing between ticks | pick the head of each pool, choose a worker, claim, mark, send, roll back | `Engineer` |
| Router, registry | `router.py`, `registry.py`, `pools.py` | connected workers by id, their tiers | select; add, remove; set a priority | `Router`, `Pool` |
| Settings | `settings_service.py`, `routes/settings.py` | `app_settings`, and a cache of it in memory | load, read, set, clear | `Settings` |
| Worker socket | `routes/workers.py` `worker_socket` | a receive loop and a `LiveWorker` per connection: current task, image, chat and workbench jobs | register, each message, clean-up | with each component |
| Worker process | `worker/app/main.py` | current socket, running jobs | connect, register, run a job, send, reconnect | with each component |
| Workbench jobs | `workbench_jobs.py`, `routes/workbench.py` | `workbench_jobs`, applications, versions of documents, tags | dispatch import, tailor, cover letter, improve, tag; results; disconnect; sweep | `Workbench` |
| CV library | `workbench_jobs.py`, `routes/workbench.py` | profile, notes, entries, bullets | forms, merge an import, assemble a resume, apply a rewrite | `Library` |
| Image jobs (Darkroom) | `image_jobs.py`, `routes/image.py`, `darkroom.py`, `remote_machines.py` | `image_jobs`, files, queues of drivers | submit, re-roll, drive image by image, wake, receive, expire, sweep | `ImageJobs` |
| Generate API | `generate.py`, `routes/generate.py` | futures by job id | run, resolve, fail on disconnect, time out | `Generate` |
| Pilot chat | `chat.py`, `pilot.py`, `chat_model_ranking.py`, `routes/pilot.py`, `worker/app/main.py` | modes, message rows, accumulators in memory | post, resolve, dispatch, chunk, tool call, done, error | `Modes`, `Chat` |
| Web search | `web_search.py` | a daily counter | charge, search | `Chat` |
| Event bus | `event_bus.py`, `routes/streams.py` | a bounded queue per subscriber | publish, subscribe | `Chat` |
| Scout | `scout.py`, `routes/scout.py` | site profiles, recipe versions, learning jobs | learn, save, edit, choose a recipe | `Scout` |
| Accounts | `auth.py`, `routes/auth.py`, `routes/settings.py` | users, sessions, a "has users" latch | set up, log in and out, temporary accounts | `Accounts` |
| Runners, evals, renderer, templates, CRUD of projects, migrations | `worker/app/runners/`, `renderer/`, ... | none, or rows | prompts, text, PDF | not modelled |

### How they interact

All orchestrator code runs in one event loop: between two `await`s a coroutine
is alone, and at every `await` (a query, a commit, a send, a git command) any
other may run.  What outlives a restart is in Postgres (READ COMMITTED, and
SQLAlchemy writes only the columns whose value changed since it read them); the
registry, `current_task_id`, futures and accumulators are lost with the process.

A task goes round like this.  A person creates it, or a plan is materialized.
The dispatcher ticks: for each pool it takes the first queued task, asks the
router for a worker, commits CLAIMED with a new run row, marks the worker as
busy in memory, and sends the grant.  The worker runs each grant as a coroutine
of its own and sends `job_started`, an artifact, the result and a
`claim_request`.  The orchestrator's loop of that connection handles them one by
one: the result handler pushes to git, then writes SUCCEEDED, AWAITING_APPROVAL
with a gate, QUEUED for another attempt, or FAILED, and releases the tasks that
waited.  When a connection ends its clean-up re-queues the task its `LiveWorker`
remembers.

### What is hard, and what makes the parts correct

* **A handler that reads, waits, and writes.** Results of two runs of one task can be
  handled at once, while operators re-run, delete and decide.  Attempt numbers must
  still identify runs, no task may fail with attempts left, a claim must belong to its
  latest run.  An import is merged into a library that was read before; it must only add.
* **Retries from four places**: the result handler, the validator that sends its
  parent back, the connection clean-up, the failed send.  They must stay bounded.
* **Gates** are opened by the handler, dropped by re-runs, decided by two routes
  with different guards, and reopened.  A task must never wait for a decision
  nobody can make.
* **Two memories of one fact**: `tasks.status` and `LiveWorker.current_task_id`, the row of
  a job and the in-flight set of a connection, a settings row and its cache, accounts and
  the latch that says there are some.  Messages that cross, reconnections, restarts and
  expiry pull them apart.
* **Sockets**: a request or a result can be lost, a job can outlive its connection
  and report on the next one, a clean-up can come after the reconnection.  A job must be
  sent to one model, counted once, and end once.
* **Futures and queues**: an answer races the time-out, the send and the clean-up; an image
  arrives after its driver gave up.  Every caller must get one reply, every job must end.
* **Streams**: chunks are accumulated in memory, tool calls time out and their results come
  late, queues drop.  A stored answer must be what the model wrote, a result must go to
  the call it belongs to.
* **Text from models**: a diff with broken headers, an id that does not exist, a site recipe
  that finds nothing.  Repairs must not damage what was right.
* **Exit codes nobody reads**: a checkout or a fetch fails and the next command goes on.
  No commit may be lost, least of all the one just reported as pushed.
* **Head of line**: the dispatcher looks at one task per pool; priority tiers keep
  backups idle behind busy primaries.  Work must still get done.

`PROJECT.json` lists the hazards with their lines and the properties that are about them.

## 2. The modules

| Module | Models | Composition |
|---|---|---|
| `TaskLifecycle` | the three tables, every transaction on them | |
| `Engineer` | dispatcher, receive loops, workers, sockets, failures | extends `TaskLifecycle` and `Router`: its steps on the tables are theirs |
| `Router`, `Pool` | the choice of a worker; a pool's workers, busy marks and tiers | `Pool` extends `Router` |
| `GitTree`, `PatchCleaner` | the clone and its branches; the repair of a diff | |
| `Workbench` | the five kinds of jobs, from request to result | |
| `Library` | what forms and results do to the CV library | |
| `ImageJobs` | the Darkroom | |
| `OneReply`, `Generate` | what the generate API promises; the API | `Generate` implements `OneReply` |
| `Modes`, `Chat` | how a mode resolves and models are ranked; a conversation | `Chat` extends `Modes` |
| `Scout` | profiles, versioned recipes, learning jobs | |
| `Settings`, `Accounts` | the cache and its table; users, setup, sessions | |
| `MCTaskLifecycle`, `MCEngineer`, `MCWorkbench`, `MCChat` | small instances | |
| `MCServices` | `MCImageJobs` beside `Generate` | share no state: each moves while the other rests |
| `Records` | `Pool`, `GitTree`, `PatchCleaner`, `Library`, `Scout`, `Settings`, `Accounts` side by side | extends them |
| `MCRecords` | `Records` with `MCPool` | each moves while the others rest |
| `...Proofs` (eight) | theorems; `GitTreeProofs` has those of `GitTree` and `PatchCleaner`, `RecordsProofs`, which extends it, those of `Accounts`, `Settings`, `Library`, `Pool` and `Scout` | each extends its modules |

Definitions marked `Slip` are a plausible mistake in the code; the mutants use them.

### TaskLifecycle

Rows are functions from ids (0 is NULL); rows are inserted in id order, so a
parent has a smaller id than its child.  `task`, `run`, `gate` are the tables;
`policy` the project's three switches (auto-approve plans, auto-approve merges,
push directly to the default branch); `sending` the run whose grant the
dispatcher is sending (it is one coroutine, so there is one at most); `handling[r]`
what the open result handler of run r has in its session: the task's status,
attempt, branch and artifact and the policy *as it read them*.

Actions and code: `Claim`, `GrantSent`, `SendFailed` are `_dispatch_one_for_pool` up to
its commit, with its send, and its roll-back; `JobStarted`, `ArtifactStored` are the
message handlers; `ResultLoad` and `ResultCommit` are `_handle_result`, cut where it
waits for git, with anything in between; `WorkerLost` is the clean-up's re-queue;
`Restart` ends every open handler and send; the rest are one action per route.
`Settle` writes a column only if the handler's new value differs from the one it
*read* (`Written`): that is the ORM's unit of work, and it decides which of two
overlapping handlers wins.  `run[r].due` are the messages run r will send at most
once; they may also never come.  With `InOrder = FALSE` they arrive in any order, as
when a job outlives its connection.

Abstractions, each with its reason:

* The four kinds a validator may send back (code, refactor, test, docs) are one kind
  `"code"`, review and research are `"other"`: nothing tells them apart.
* A patch is artifact 1, a plan an index into `Plans`; `materialize_plan`'s treatment
  of unknown kinds and forward references is kept (`Known`, `Rank`, `Child`).
* Git is its outcome (`PushOutcomes`): pushed to which branch, failed before the branch
  was recorded, or failed after it (the pull request).
* Operator routes are one step each, although they check and write in two.
* Commits fail only where a row was deleted under them.
* CANCELLED is in the enum and never written.

### Router and Pool

`Select` is the set of workers the router may return (ties are broken by registration
order in the code).  `Walk` is the code's loop over the tiers that are left, as a recursive
function; `RoutingIsRight` compares the two on every fleet that registering, leaving,
working and re-prioritising leads to, and says which tiers wait for which.

### Engineer

`conn[c]` is a connection with its `LiveWorker`, in one of the phases of `worker_socket`:
waiting for the register message, in its loop, in the `finally` clause, gone, or a
"ghost" (registered, but the welcome raised before the `try`, so there is no
clean-up).  `registry`
is by worker, as in the code; `grantee` is what the dispatcher holds between its
commit, the mark and the send; `up` and `down` are the sockets, `cut` the dead ones,
`job` what runs where.  A receive loop handles one message at a time and stays in
`_handle_result` between `Handle` and `FinishResult`, while the other loops, the dispatcher
and the workers go on.

Failures: a socket dies and keeps a prefix of what was on its way up; a send on a
dead socket either raises or returns, both for the dispatcher and for the welcome; a
worker reconnects with its jobs still running; a job that must send with no
connection dies; a worker process dies; the orchestrator restarts.  Not modelled: a
send that raises although the bytes arrived.

Each step on the tables conjoins an action of `TaskLifecycle`, so that the engineer
implements it by construction; what that gives is that the tables' theorems carry over
(`EngineerProofs`), not a property to be checked.  What could be wrong is in the module's own
invariants and in the guarantees of `engineer_steady`.

### GitTree and PatchCleaner

A branch is the set of its commits; a task's commit and branch are named by the task.
`Begin` takes the lock and chooses target and base from the project's switch and the
inherited branch; then `Clone`, `Fetch`, `Checkout`, `Apply`, `CommitPatch`, `Rebase`,
`Push` are the commands in order.  Where the code ignores an exit code there is an action
for the failure that goes on to the next step: `CheckoutIgnored` leaves `head` where it
was and what the last attempt staged in the index.  `fresh` remembers whose checkout worked,
for the properties only.  Others push commits, merge and delete branches at any
moment (`PushElsewhere`, `MergeAndDelete`).

`CleanPatch` is `_clean_patch` on kinds of lines: the header rewritten for new and deleted
files, lines in a hunk that are none made context, and the tail cut off.  It is stated by
position: where the code splits the diff into sections and passes over each, `FixedLine`
says what is written for line `i` from what the section of that line has (`SectionHas`) and
whether a hunk has begun in it (`AfterHunk`).  The operator was compared with the code on
four thousand random diffs when it was written.  `CleaningIsSound`: cleaning twice is
cleaning once, no file of a patch that is new takes anything away and none that is deleted
adds anything, and what git itself would write (`Genuine`) is left as it is.

### Workbench and Library

`Workbench`: `jobs` is the table; `calls` the coroutines that dispatch, each at the row it
read, the send, the in-flight mark or the RUNNING mark, in the order of the code;
`inflight` is the connection's set.  The `finally` clause copies it (`Strand`), looks at the
stranded jobs one after another (`LookAt`, with awaits in between) and fails at its commit
those it found active (`FailInFlight`), whatever became of them: `unread` and `doomed` are what
it has in hand.
`Receive` takes a result off the wire and clears the mark; `Handle...` are the handlers of
the five kinds, with what they commit.  `ReadVersion` and `InsertVersion` are two
steps, since the application may be deleted in between, or another handler insert; tags
are read and applied in one step, so `OwnTagsStay` speaks of users who tag before a
handler starts to read or after it commits.
`Sweep(old)` is the watchdog's query, for any set of active jobs, since time is left open: a
slow worker is swept and answers later.  `CommitSweep` writes what was selected, by primary
key.  A result that is well formed may still not be merged or assembled (`HandleImport`,
`HandleTailor`): the job is an error.  A tagging job is dispatched again for
each batch until no bullet is left.

`Library` has the forms as one action each, and three results: `ReadLibrary` then
`CommitImport` (by normalised text and matched entries; it is refused if a new bullet would hang
on an entry deleted meanwhile, `Dangles`), `AssembleResume` (the ids a model
chose, kept if they exist and belong together, with degrees always told), `ImproveApply`.

### ImageJobs

`rows` and `disk` are the table and its files, `driver[j]` is `_drive_job` with the queue
it reads: find an imager, else wake the machine and poll the registry, mark RUNNING, send,
collect image by image.  `SubmitApi` takes its place in the budget and inserts in two steps,
as the code does.  A render goes on when its connection is lost, and sends what it still has
over the next one.  `Ends` is the driver's `finally` clause, which takes the job off the
connection's list.  Sides are clamped, rounded and scaled by the code's arithmetic.  `Restart`
loses drivers and queues and keeps rows.

### OneReply and Generate

`OneReply` is the promise to a caller: one reply, a text only if a worker wrote it for
this call, and a reply at last.  `Generate` has the future, the registry, the
connection's in-flight set and its clean-up; send, time-out, answer and clean-up race.
`Promise == INSTANCE OneReply WITH ...` maps a call that stands anywhere before its end to an
open one.

### Modes and Chat

`Modes`: `WebMechanism` decides between tools, a search up front and nothing; `Recommended` is
the ranking of a pool's models by group and key.  `Chat` is one conversation: forms, which
may overlap, save modes field by field while `Resolve` reads them.  A dispatch works on the
thread as `post_message` loaded it (`stage[t].mode`, `stage[t].web`; the session keeps its objects
over the commit) and on the mode's settings as they are by then.  A search is charged before
it is sent, if there is a provider and something to search for.  The worker streams, or runs
its tool loop: the bound is on the answers of the model (`rounds`), each of which may ask for
several calls (`left`), made one after another (`CallTool`, then `TakeToolResult` or
`ToolTimeout`).  The handlers keep the accumulator, and `Publish` drops the oldest event of a
full queue.  The text of an answer is the sequence of its chunks' numbers.

A connection is "open" until its worker is gone (`Lose`), "left" until the orchestrator's
clean-up (`Disconnect`), then "closed"; what the worker had sent can be received meanwhile.  A
worker may connect again before that, and the clean-up then takes it out of the registry,
which is by worker.

### Scout, Settings, Accounts

`Scout`: an errand fetches, sends and marks in the code's order, or fails at each point and
records it: it looks at the job (`RecordRead`), then commits the error (`RecordError`).  The
result handler reads versions and active recipes, then saves (two steps). What a recipe
extracts is left open.  `Settings`: a write commits its row, then writes the cache under the
lock; the load holds that lock and reads the table in between. `Accounts`: setup checks and
inserts in two steps; the latch is set by either.

## 3. What TLC checks

| Run, module | Instance | Shows |
|---|---|---|
| `lifecycle_reports`, `MCTaskLifecycle` | 2 tasks (code, validate), 2 runs, 2 gates, 2 open handlers, gated and direct-push projects, any message order, operators who re-run and delete | `LifecycleInv` (rows refer, attempts identify runs, claims are owned, failures are exhausted, handlers lag), `BranchIsInherited` |
| `lifecycle_operators`, `MCTaskLifecycle` | a plan of two chained children with 2 runs handled one at a time, or a code task and its validator with 5 runs | `AwaitingIsDecidable`, `RetriesAreBounded`, `SuccessReleases`, `ReleasedByParent` |
| `engineer_failures`, `MCEngineer` | 1 code task, 2 workers, 2 connections, 2 runs, 1 gate, every failure and every operator | `EngineInv` |
| `engineer_steady`, `MCEngineer` | 2 tasks of different priority, 2 workers, 4 runs, nothing breaks | `InFlightIsWatched`, `ExecutionIsBounded`, and under fairness `QueuedIsSettled` |
| `workbench_pairs`, `MCWorkbench` | 2 jobs, 2 workers, 2 connections, 2 bullets, symmetric; a tagging job is alone, with one worker and users | `WorkbenchInv`, `OneModelCall`, `OwnTagsStay`, `DoneStaysDone` |
| `workbench_settles`, `MCWorkbench` | 1 job of four kinds, 1 worker, 2 connections, every failure | `SettlesForGood` under fairness |
| `conversations`, `MCChat` | 1 turn, 2 workers of one pool, 2 connections, 2 chunks, 2 tool rounds of up to 2 calls, a queue of 1, 1 search a day, 2 forms; 5 models: each worker has one the other lacks, one is code-tuned, one does not tell its size | `ChatTypeOK` (with the budget), `AnswersAreWhole`, `ResultsMatchCalls`, `ToolsAreThoughtful`, `RecommendedFits`, `LastIsShown`, and under fairness `TurnsEnd` |
| `services`, `MCServices` | 2 image jobs, 2 connections, budget 1, batches of up to 2; 2 calls, 2 sockets, 2 workers | `ImageInv`, `DoneIsWhole`, `DriversServe`, `EndsOnce`, `GenInv`, and under fairness `JobsEnd` and `KeepsPromise` (the refinement) |
| `records`, `MCRecords` | 3 workers; 3 tasks in one clone; diffs of 6 lines; 2 entries, 2 bullets; 1 site, 3 recipes; 2 keys; 3 users | `RecordsTypeOK`, `RoutingIsRight`, `PushesKeepCommits`, `CleaningIsSound`, `LibraryInv`, `ImportsOnlyAdd`, `ResumeIsTrue`, `RecipesServe`, `CacheIsTable`, `NobodyLockedOut` |
| `delete_spares_running`, `restart_requeues`, `patch_arrives` | | violations, section 4 |

Why these bounds.  Two attempts are the fewest with a first, a last and a retry; two open
handlers the fewest that overlap; three tasks a chain plus its plan, with a dependency on an
entry that gets a row and one in between that does not; two connections let a worker come
back before its old one is cleaned up, and two workers let a task move.  With five runs both
bounds of `RetriesAreBounded` are reached: four attempts of the code task, five of the
validator, which operators enqueue once.  Two jobs meet on one worker, one version number
and one in-flight set; tagging has two bullets in batches of one, so that a batch can be
lost, late or counted again.  A queue of one event, a budget of one search and a budget of
one image job make the limits bite at once.  Six lines hold a whole diff with its header and
a hunk; they are one header of each kind, one hunk and one line of prose, in orders git
knows and others.

What the instances leave out, beside the constants: in `conversations` the settings and the
thread stay as they are while a browser listens, and while none does they change but no
worker takes the turn up and a lost connection is cleaned up at once, as neither has to do
with the other once a turn is sent; in the workbench runs users ask to improve one of the
two bullets, and in `workbench_settles` they leave the other alone; in `services` the second
image job renders one image on a machine that is up; in `records` one of the three tasks is
tried again after a failure, only one import is handled at a time and users add a text only
while none is and only one that is not there, few rows are deleted, Scout's rows are used in
order, and a key has **one writer at a time**: without that `CacheIsTable` is false (section
4).  Connections are used in order. Each of these is a conjunct of the instance's next-state
relation, with a comment.

`CHECK_DEADLOCK FALSE` throughout: rows, runs and connections are bounded and the system
idles when all is done.

`SuccessReleases` names what it excepts: the dashboard's merge approval, which writes
SUCCEEDED and releases nobody, and the approval of a plan that is part of a plan.  In the
API route a child is normally released when its parent starts to wait; it is pending again
when a validator was sent back meanwhile.

### Fairness

* `Running` (`engineer_steady`, `restart_requeues`) is weak fairness of the dispatcher (it ticks
  every few seconds and when poked), each receive loop (its own coroutine), each worker's
  receive loop and its reconnection (`serve` loops with back-off), the noticing of a dead
  socket (WebSocket pings), and each job (model calls have time-outs).  Nothing is assumed
  of operators, failures or results: a job may fail every time.  `QueuedIsSettled` is stated
  where nothing breaks and runs suffice for every attempt, so no bound cuts a behaviour off.
* `SettlesForGood` needs the watchdog alone, its query and its commit: its loop runs as long
  as the orchestrator does, and a job that is active long enough is old.
* `TurnsEnd`: dispatch, the worker's model and tool loop (calls time out), the receive
  loops on both sides.  It is asked of behaviours in which no worker leaves its connection: a
  turn whose worker is lost stays open (section 4).
* `JobsEnd`: each driver, whose waits all have time-outs, and the watchdog.  Nothing of imagers.
* `KeepsPromise`: the end of a pick (registry lock), of a send, and of the wait
  (`wait_for`).  Nothing of workers.

## 4. Where the code and its documentation part

Each is a run that finds the violation in the model of the code.

* `delete_spares_running` — deletion checks the root and deletes running descendants.
* `restart_requeues` — after an orchestrator restart nobody re-queues CLAIMED or RUNNING
  tasks, although the guide says the next tick does.  The property asks it only while
  workers keep coming back.
* `patch_arrives` — a patch reported as pushed can be nowhere.  A direct push that fails
  leaves a deletion staged; when the task is retried as part of a chain the checkout of
  its parent's branch is refused, nobody reads the exit code, the patch is committed to
  the local default branch, and the parent's old branch is pushed as up to date.  The
  same happens when the branch to continue was merged and deleted.  The sequence of git
  commands behaves so in a real repository.

Met in passing, with no run of their own:

* Tasks: a validator spends its parent's attempt once when it sends it back and once more
  when it is claimed, and is itself claimed anew each time, so that with `max_attempts` = 3
  a validator may run eight times (`RetriesAreBounded`); one that people create by hand is
  queued at once, whatever its parent does (`routes/workers.py:302`), and when it fails
  while its parent is at work the parent is re-queued and executed twice at the same time,
  which is why `engineer_steady` has no code tasks beside its validators; dependents start
  when a merge begins to wait, not when it succeeds, and two more races release them
  (`ReleasedByParent`): a handler that read the parent as finished, and a validator started
  by an operator that sends its parent back. What waits for a plan inside a plan stays
  pending once that plan is approved (`planner.py:77-131` accepts the kind; neither
  `routes/tasks.py:204` nor `routes/dashboard.py:496` promotes).  A welcome that cannot be
  sent leaves a dead connection registered (the "ghost" phase).  The dashboard decides gates
  that are already decided (`routes/dashboard.py:490`).  A `claim_request` that crosses with
  a grant clears `current_task_id`: the worker gets a second task (`worker/app/main.py:8`
  says "Single-job concurrency"), and its clean-up forgets the first.  The clean-up of an
  old connection removes the worker that has registered on a new one
  (`routes/workers.py:528`).
* Workbench: to record a refused dispatch the routes begin a transaction in a session whose
  refresh has already begun one, which raises: a refused job stays PENDING until the
  watchdog, where the comment at `routes/workbench.py:191-192` promises its error.  Two
  handlers could insert one version twice. The clean-up of a connection looks at its jobs,
  to skip those that are done (`workbench_jobs.py:1202-1203`), and writes at its commit,
  with awaits and no lock in between; a job whose result is stored over the worker's new
  connection meanwhile is overwritten with an error.  The watchdog has the same window
  between its query and its commit, and a dispatch marks a job RUNNING that may be done:
  these are the cases `DoneStaysDone` excepts, by what is still under way when the job is
  done.
* Chat: a turn whose worker disconnects stays open for ever; a worker that comes back before
  the clean-up is connected and not registered; the accumulator is reset when the
  first chunk is faster than the dispatch; the image tool waits 90 s, the worker's call
  60 s.  The dispatch uses the thread as it was loaded to post the message: one that is switched to
  Lightweight meanwhile still sets out with its tools, and `ToolsAreThoughtful` speaks of the
  mode the turn was posted in.
* Darkroom: the budget counts jobs, not images (`config.py:126`), and submissions that cross
  exceed it; a re-roll after retention asks for img2img with no source; files of failed jobs
  are never removed.
* Library: two imports, or an import and a form, add twins or overwrite a field; two first
  writers create two profiles.
* Scout: an errand that crashed looks at its job and commits an error after more awaits,
  over a recipe saved in between (`RecipesServe` excepts that window); a job marked RUNNING
  after its result, or whose worker dies, stays so (`orchestrator/scout.py:773-776` says the
  site is never stranded); a profile stays LEARNING after a failure; handlers that overlap
  may leave the older version in use; a result for a profile deleted meanwhile ends the
  worker's connection; a deleted Reverb profile is back after a restart.
* Git: a rebase that stops wedges the clone.  A trailing blank line before prose becomes a
  context line that `git apply` refuses; a removed line that starts with `-- ` is taken for a
  header.
* Settings: two writers of a key may leave the cache stale until a restart.
* Accounts: two setups at once make two administrators; sessions of expired temporary
  accounts go on working.

## 5. What TLAPS proves

For every value of the constants that satisfies the modules' named assumptions (bounds
are naturals, ids are distinct from the markers for none, plans are sequences of
entries, jobs and bullets are finite sets, ...).  Where a theorem is about a restricted
specification, its property is false without the restriction: section 4 says how.

**Tasks** (`TaskLifecycleProofs`).
* `TablesConsistent`: `Spec => []Tables`.  `Tables` is `TypeOK` with `RowsInOrder` (ids are
  handed out in order) and `RowsRefer` (runs and gates name tasks that exist, open
  handlers name runs that exist).  `TypeOK` is not inductive alone: a run row of a task
  without a row would send a handler to an undefined row.
* `LifecycleTheorem`: `Spec => []LifecycleInv`, with `AttemptsTheorem`, `FailedTheorem`,
  `ClaimTheorem`, `HandlersTheorem` its parts.  `Ledger` joins `AttemptsIdentifyRuns`,
  `FailedIsExhausted`, `ClaimIsRecorded` and `HandlersLag` over `Tables`.  They are one
  induction because each action keeps one by way of another: a handler's commit leaves
  nothing of a claim it handles only because it read that claim, and FAILED is exhausted
  only because handlers never read ahead.  Most actions insert no run; for those
  `LedgerStep` says once what suffices (`CountersKept`, `RunsKept`), and the action's lemma
  shows just that.
* `AwaitingTheorem`: a task that awaits approval has a pending gate.
* `BranchTheorem`: the branch a task continues is a task's of its own plan.  `BranchInv` adds
  that parents are older than children and that tasks and open handlers know only branches
  they could inherit; the subtree an operator deletes is unfolded as the least set closed
  under children, which satisfies the recursion of the walk that finds it.
* `ReleaseTheorem` and `SuccessTheorem`: a task leaves PENDING because its parent settled or
  somebody released it (`ReleaseExplained`), and a parent that settled releases (`DependInv`:
  with flat plans nobody waits behind a plan, and fanning gates belong to plans).
* `RetriesTheorem`, where every grant is sent and nobody re-runs what has failed
  (`PatientSpec`), with at least one attempt (`models.py:146` has three).  `PatientInv`
  bounds not the attempts but what a task has spent and may yet spend: its attempt, the
  attempt a waiting task will begin, the handlers that may still send it back, and the
  credit of validators not yet run.

**Engineer** (`EngineerProofs`).
* `EngineSafety`: all of the above hold of the engineer as it runs, since its steps are steps of
  `TaskLifecycle` (the lemma `EngineImplements`, by construction).
* `RegistryTheorem`: `EngineSpec => []RegistryIsOpen`, with `ConnsOK` (the types of
  connections, registry and grant) beside it in the induction.
* `EngineTheorem`: a run has at most one grant, one job and one result under way
  (`MessagesAreDue` and the types), with `InOrder = FALSE` as in both engineer runs: a job
  may outlive the connection it began on.  `WireOK` says of every message, job and grant
  which run it fits (`MessagesFit`, `JobsFit`, `GrantsFit`, `OneMessage`, `OneGrant`): a
  result is due because the job that sent it was at work, which the message itself does not
  show.
* `WatchedTheorem` and `BoundedTheorem`, where nothing breaks (`SteadySpec`: no connection ends,
  nobody decides or deletes), `InOrder = FALSE` and some attempt is allowed: the run of a
  task in flight is somewhere, and no task is at work twice.  `SteadyInv` says when a run is
  `Alive` (being sent, granted, at work, reported or handled), and that the alive run of a
  task is its latest one and every task in flight has one (`Owned`).  Two facts carry it: what
  a job sends before its result is still followed by that job or its result on the same
  connection (`Trailing`), so that no late `job_started` revives what has ended; and a task
  that waits has an attempt left (`Spare`).  `NobodySendsBack` excludes the one case in which
  both fail, the validator created by hand of section 4: the kinds asked for do not include
  both code and validators.

**Workbench** (`WorkbenchProofs`).  `WbInv` joins `WorkbenchTypeOK`, `CountedOnce`,
`DoneIsStored` and `RequestsAreTracked` with two facts no run needs but the induction does:
`Tracked`, that the work of a job is at one stage in one place (to be sent, on a wire, at a
model, or on its way back), which is what makes `OneModelCall` inductive over any number of
workers and connections, and `FreshIsEmpty`, that rows not yet inserted hold nothing.
* `WorkbenchInvariance`; from it `WorkbenchSafety` and `OneModelCallTheorem`;
  `DoneStaysDoneTheorem` and `OwnTagsTheorem` are action properties from the same invariant.
  A done job at rest stays at rest because its token is spent: by `Tracked` no result of it
  is on its way, and who looks at it from then on finds it done.

**Image jobs** (`ImageJobsProofs`).  `DarkroomInv` follows a request from the row over the
wire to the render and back: it is on its way once (`RequestedOnce`), a driver has only
images its render sent and the disk holds, drivers and active rows go together
(`DrivenWhileActive`), and the render of a job that is done is over.
* `ImagesRender` (images are of jobs that rendered them), `DoneJobsAreWhole`, `DriversAreNeeded`,
  and the action property of `JobsEndOnce`: a job that ended stays as it ended.

**Chat** (`ChatProofs`).  Four invariants, one per part: `SettingsInv`; `TurnInv` (one grant per
turn; chunks arrive in order and later than what was put together; each call before the
present one has its answer); `SearchInv`; `BusInv`, whose `LastWaits` says that the newest
publication is either shown or still in a queue.  `Linked`, in `TurnInv`, ties a dispatch to the
connection it chose, which may be left or closed by the time it sends.
* `TurnTheorem`, `ChatTypesTheorem`, `AnswersTheorem`, `ResultsTheorem`, `LastShownTheorem`,
  `RecommendedTheorem`, `ToolsTheorem`.

**Generate** (`GenerateProofs`).  `GenInv` says how futures, replies, in-flight sets and messages
fit together: what is listed is open, a waiting call has a future and a connection, every
text was written, and no call waits for a connection whose clean-up is over.
* `GenInvariance`; `ResolvedTheorem`: no future is resolved twice; `ApiPromises`: `GenSpec`
  implements the safety part of `OneReply`, step by step.

**Git** (`GitTreeProofs`).  `GitInv` adds to the types that the lock has one holder and what a
checkout that worked gives the steps after it (`Held`): the target is checked out, holds the
patch once it is committed, and contains what was last seen of the branch it continues,
which is what the lease compares.
* `PushTheorem`: a push of a branch that was checked out adds the patch and loses no commit;
  a direct push loses none of the default branch.  `patch_arrives` is what happens when the
  checkout did not work.
* `CleaningTheorem`: `PatchSpec => []CleaningIsSound`, for diffs of any length.  `FlattenPlaces`
  says where each place of a flattened sequence comes from; `CleanedIs` makes of it the
  relation `Cleaned` between a patch and what it was cleaned from, under which sections,
  marks and hunks correspond (`SectionsStay`, `MarksStay`, `HunksStay`) and what was taken for
  a new file is marked as one (`NewStaysNew`).  Hence `Cleansed`: every line of a cleaned patch
  would be written as it is.  Settling and one-sidedness follow from that; `FixedPoint`, the
  lemma that a diff whose lines stay is left alone, also gives genuine diffs.

**Records** (`RecordsProofs`), a part each:
* Accounts.  With the latch up, or a temporary account there, an administrator is
  (`AdminFirst`): hence `NobodyLockedOutTheorem`, and `SetupTheorem`: no visitor passes setup's
  check once there is an administrator, over restarts too.
* Settings.  `CacheTheorem`: where a key has one writer at a time (`OneWriterSpec`), the cache
  is the table; `CacheInv` adds what a writer between its statements still owes the cache.
* Library.  `BulletsTheorem`, `ImportsTheorem`, `ResumeTheorem` without restriction;
  `LibraryTheorem` for requests that do not overlap (`OrderlySpec`), by `ShelfInv`: what an
  import noticed as known is there still when it inserts (`Noticed`).
* Pool.  `RoutingTheorem`: `PoolSpec => []RoutingIsRight`.  The backup stays idle, nobody idle is
  passed over without a reason, and the loop picks whom `Select` does (`WalkPicks`): a round
  passes a tier nobody of which could run the task and stops at the first other one
  (`RoundPicks`), so that what it returns is, by induction on the tiers that are left, the
  strongest that are free in the first tier that can.
* Scout.  `LearnedTheorem` without restriction: what was learned last is used, and a saved job
  stays saved once its errand is past its two writes; `RecipesTheorem`, where no pattern is edited
  as an answer is handled (`SteadySpec`), by `LessonInv`.
* `TypesTheorem`: `KeepersSpec => []RecordsTypeOK`, all of them and the clone together.

Induction over data.  The library's induction theorems take an operator and cannot be used,
so the proofs take a set and a least element of it: `LeastNumber` and `Reaches` for numbers
(`GitTreeProofs`), `FiniteMinimal` for finite sets (`RecordsProofs`), all from `WFMin`, and for
the tiers that are left the strict subsets themselves.  A recursive function is a CHOOSE of a
function that satisfies its equation; that there is one is shown by giving one (`GrownIs` for
`FlattenSeq`, `WalkPicks`, `BelowIs` for the subtree an operator deletes).

Only model-checked:
* liveness: `QueuedIsSettled`, `SettlesForGood`, `TurnsEnd`, `JobsEnd` and the liveness of
  `KeepsPromise`; it and ENABLED are out of the prover's reach.  Every safety property of a
  passing run is stated by a theorem.

## 6. What is left

Worth doing next, in this order:

1. `TaskLifecycle`: operator routes split into check and write.
2. `Chat` with two turns, so that the shared budget and the queue of one browser are
   contended.
3. `GitTree` under `TaskLifecycle`: `PushOutcomes` as what the clone does.

### What the checks do not say

* `InFlightIsWatched` and `ExecutionIsBounded` are about runs in which no connection ends; what a
  mark that was cleared costs when one does is `InFlightEnds`, which the code does not have.
* `TurnsEnd` excepts every behaviour in which a worker leaves; a turn that is lost with its
  connection is no violation.
* `NobodyLockedOut` does not forbid two setups at once, `AwaitingIsDecidable` not a plan that two
  decisions materialize twice, `LifecycleInv` not a late `job_started` that sets a finished task
  RUNNING, `EngineInv` neither the ghost connection nor the worker struck off the registry by
  the clean-up of its old connection: the models have these, and no property denies them.
* A worker given a second job is allowed; what is denied is a task executed twice or
  forgotten because of it.
* The daily search budget is charged by the turns and calls of one conversation in the instance;
  `ChatTypesTheorem` has any number.
* Operator routes that check and write (`routes/tasks.py:128`) and the image budget that is
  counted before it is used (`image_jobs.py:400`) have no property.
* Result handlers of the Workbench commit in the step in which they read, but for the version of
  a document; what others may commit in between is not explored.

### Not modelled

* Runners: prompts, model calls and the parsing of answers.  What the rest sees of them is
  success or failure and an artifact, which the modules have.
* Evals (an offline benchmark), the renderer (HTML to PDF), templates and pages, the text of
  fetched pages and what a recipe extracts from it: no state, text in and text out.
* CRUD of projects, configuration, migrations: one statement each, nothing concurrent.
* GitHub's pull requests, Wake-on-LAN packets and the host agent: calls to the outside,
  whose outcome is a choice where the code looks at it.
* Log lines, heartbeats and the lists of workers: they only append or display.
