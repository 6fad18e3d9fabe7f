# taskq: a TLA+ verification project

`taskq_api` is a task-queue service: clients with API keys create tasks over
HTTP, run their commands, page through them and delete them. State is in one
SQLite or PostgreSQL database, used by one or more worker processes. This
directory holds TLA+ models of its core, the TLC runs that check them and the
TLAPS proofs about them. Paths are relative to
`src/03-development/src/taskq_api/` unless they start with `src/` or `migrations/`.

## 1. Inventory

| Component | State | Operations | Talks to |
|---|---|---|---|
| task store (`repository/task_repo.py`, `repository/session.py`, `models/orm.py`) | tables `tasks`, `task_results`; per process the mirror `_TASKS`, `_RESULTS` | create (evicts homonyms), get, update_status, add_result, delete, list; before the first of them, the seeds | the database; called by the routes and by the run threads |
| run driver (`service/runner.py` 350-526) | a daemon thread per accepted run, the child process | start_run, run_subprocess, _drive_run | task store |
| executor pool (`service/runner.py` 149-329) | semaphore, `_handles`, one asyncio task per job | submit, cancel, wait, drain | `app.lifespan` calls drain |
| rate limiter (`repository/rate_repo.py`, `service/ratelimit.py`) | table `rate_buckets`, a row per key | check (refill and consume), retry_after_seconds | `api/deps.py`, before every `/v1` handler |
| task listing (`task_repo.list`, `api/tasks.py`) | none but the client's cursor | one page per call | task store |
| results migration (`migrations/versions/v3_split_results.py`, `migrations/env.py`) | schema, `alembic_version`, rows moved | upgrade, downgrade | the database the service opens afterwards |
| migrations v1, v2 | schema | upgrade, downgrade, no data | same |
| engine (`repository/session.py` 55-130) | per process `_engine`; the tables of `Base.metadata` | first access: create_all, drop the unique index on names | the database the migrations change |
| lifespan (`app.py` 119-142) | none | drain on a graceful stop | executor pool |
| keys, scopes, CLI (`repository/key_repo.py`, `service/auth.py`, `api/deps.py`, `__main__.py`) | table `api_keys` | key create, key revoke, require_auth, verify_scope | rate limiter, every `/v1` handler |
| health, readiness (`service/health.py`, `api/health.py`) | none | ping, revision against head | engine, `alembic_version` |
| metrics, configuration, errors, redaction, schemas, middleware | none that matters | read, format, validate | everything |

Which behaviours are hard, and what correctness means for each:

* **Runs.** The 409 guard and the move to `running` are two transactions, the
  result and the final status two more, and the thread that writes them races
  deletes, evicting creates, other workers, failures, crashes and graceful stops.
  Correct: one live run per task, legal status moves only, a settled status has
  its result, a running task has a run, an accepted run gets its result, a
  result does not outlive its task, a name is carried by one task.
* **Rate limiter.** Read, test and write of a shared row, a time taken before
  the lock, fractions of tokens carried in `last_refill`. Correct: no window of
  time admits more than the burst and its refill; Retry-After is kept.
* **Executor.** A slot changes hands between callbacks, cancellations arrive at
  any point, drain works on a snapshot. Correct: the cap, no idle slot beside a
  waiter, slots come back, drain ends and reports the truth.
* **Listing.** The table moves while a client walks. Correct: pages descend,
  nothing that was there throughout is left out, the walk ends.
* **Migration.** A failure between statements, and round trips. Correct: no
  result lost, the schema is that of the named revision, the head is reached.
* **Admission.** Three layers, each with transactions of its own, beside commands
  that revoke the key and workers that die. Correct: a revoked key stays out, only
  who gets past 401 and 429 pays, no work is free and all of it is within the budget.
* **A command and its limit.** The exit, the thread that waits for it, the
  transport, the limit and cancellations race. Correct: the child ends with its
  run, what is reported happened, the run ends.
* **Deployment.** Workers create tables, and each stores the same 100 seed tasks, while
  an operator migrates. Correct: a ready worker has the whole schema and serves, the
  version is true, names stay free, nobody waits for ever.

`PROJECT.json` lists the hazards, each at its line with the properties that cover it.

## 2. Modules

| Module | Models | Atomic step |
|---|---|---|
| `TaskRuns` | task store, run driver, graceful stop, crash, restart | a transaction, or a section under the mirror lock |
| `TaskRunsProperties` | its properties, invariants and refinement mapping | |
| `TaskMachine` | abstract: the life of a task as a client may rely on it | |
| `RateBucket` | rate limiter, one bucket | stamp, SELECT, commit |
| `Executor` | executor pool | what runs between two awaits, or one callback |
| `TaskListing` | a cursor walk among concurrent writers | one page; one transaction of a writer |
| `SplitResults` | revision v3, up and down | one SQL statement |
| `Gateway` | keys, CLI, require_auth, scope check; EXTENDS `RateBucket` | as the bucket; one transaction of a command; what a handler does between two of them |
| `Subprocess` | `run_subprocess` and what asyncio and the kernel do around it | what runs between two awaits, or one event outside |
| `Deployment` | alembic's chain, first access to the engine, seeding, `/readyz` | one DDL statement or commit; create_all's check, each table (SQLite) or its commit (PostgreSQL) |
| `MC...` | constants of the instances for TLC | |
| `...Proofs` | theorems about the module they are named for | |

How they correspond to the code:

* `TaskRuns`: `status`, `nameOf`, `results` are the tables, `mem` and
  `memResults` the mirrors, `loop[w]` the request in progress on worker `w`
  (handlers are coroutines that never await, so a worker has at most one),
  `run[r]` the daemon thread of run `r`. `CreateRead/Commit/Mirror`,
  `DeleteRead/Commit/Mirror`, `StartGet/Update/Mirror/Spawn` are the handlers,
  `Execute`, `ResultCommit`, `ResultMirror`, `StatusCommit`, `StatusMirror` the
  thread. The `...Refused` and `...Vanished` actions are their other outcomes.
  `LoopFault`, `RunFault`, `Crash`, `Shutdown`, `Restart` are the failures.
  `Dialect` and `Schema` say whether foreign keys are enforced (never on SQLite:
  no PRAGMA), whether `tasks.name` has its unique index (only when migrated:
  `_relax_orm_constraints` drops the one of `create_all`) and whether a run id
  fits in `task_results.id` (not when migrated: an INTEGER).
* `RateBucket`: `row` is the `rate_buckets` row, `lock` PostgreSQL's row lock,
  `now` and `loaded` what the request has in hand. Time is in ticks, `Period`
  ticks make a token. `mark`, `counted` and `promise` are history.
* `Executor`: `job` is the state of each submitted coroutine, `waiters` and
  `free` the semaphore as CPython 3.11 implements it (external), `handles` and
  `stamp` the handle objects, `drain` and `report` the drain.
* `TaskListing`: `status` and `created` are the columns the query orders and
  filters by, `walk` the client: its cursor, the pages it got, the tasks that
  matched throughout (`steady`, history).
* `SplitResults`: `disk` is the committed database, `view` what alembic's
  connection sees, `open` whether a transaction is open on it, `mig` the
  statement that is next, with what it has read and not yet written. `ledger` is
  history: what was ever recorded. A result is a value (exit code, tails and
  duration together) and the kind of its finish time; of each the module counts how
  often a task has it. Neither SELECT of the migration has an ORDER BY and nothing
  reads the order of its writes, so a bag says all there is to lose.
* `Gateway` composes the bucket with what is before and after it: `stage[w]` is how
  far the request of worker `w` is, and `Stamp`, `Load`, `Commit`, `InsertRefused`,
  `Abort` of `RateBucket` happen in the stage "known" only. `key` is the `api_keys`
  row, `cli[o]` the command of operator `o`. `late`, `took`, `handled` are history.
* `Subprocess`: `co` is where the coroutine is, `child`, `code`, `heir` the command
  and a process it left with its pipes, `caught`, `known`, `wired` what asyncio's
  waiting thread, `proc.returncode` and the transport know. Everything but the
  coroutine is external and follows CPython 3.11 (`Popen.send_signal` asks
  for the exit itself before it kills, and takes it from the waiting thread).
* `Deployment`: `objs` and `ver` are what is committed, `mig` the alembic command with
  its uncommitted changes, `engine[w]` and `todo[w]` the first access of worker `w`:
  create_all looks at all tables first and creates the missing ones then. An access
  that fails leaves `_engine` set (`repository/session.py:93`), so `half` is final
  until a restart. `early` is history: create_all was ahead of the chain. `seeded[w]`
  is `_SEEDED`, set behind the transaction of `Seed`; `copies` is how many stored tasks
  share a seed's name, which is what the unique indexes look at.

Definitions marked as faulty variants in the modules are plausible bugs of the definition
that follows (`"mutants"` in `PROJECT.json` pairs them); with one in its place, the property named in `PROJECT.json` fails.

## 3. Runs

Passing:

| Run | Bounds | Shows |
|---|---|---|
| `OneWorker` | 1 worker, 2 tasks of one name, 2 runs, 1 fault, 1 crash, with fairness | with one worker no task runs twice at once, moves are legal, names are distinct, the mirror knows the stored tasks, `TaskMachine` is implemented; while nothing fails a running task settles and the result of an accepted run arrives |
| `TwoWorkersPostgres` | 2 workers, 2 tasks of one name, 2 runs, 1 graceful stop | two workers and their run threads: a settled status has its result, no result is orphaned, and a running task has a thread or a handler to settle it |
| `Gateway` | 2 workers, 2 operators, burst 2, 2 ticks per token, clock to 4, row locks | revoked keys stay out, 401 and 429 are free and work is not, handlers that run are within the budget, no stranded lock; window bound and Retry-After; the pipeline implements `RateBucket` |
| `ExecutorPool` | 4 jobs, 2 slots, 2 early cancels, 1 drain, with fairness | the cap, no slot is lost but to an early cancel, no idle slot, drain ends and its tally is the handles', waiters are admitted while a slot is left |
| `ListingWalk` | 4 tasks, pages of 1 in a window of 3, filter, 1 delete | order, nothing passed over, last page complete, the walk ends |
| `SplitRoundTrip` | 2 tasks with any legacy payload, 2 results, 2 downgrades, 2 failures, both databases | no result lost on either; on PostgreSQL never half a migration, and the head is reached |
| `Subprocess` | one command, 2 cancellations, with fairness | no child is left, the outcome is true, the run ends |
| `Deployment` | 2 workers, both databases, 1 downgrade to any earlier revision, 1 failure or restart, with fairness | readiness fails closed, the version is true, `rate_buckets` is there, the unique index goes; migrations reach the head and first accesses end |

Violations, each a disagreement of the code with its own documentation
(quoted in `PROJECT.json`, "findings"):

| Run | What happens |
|---|---|
| `DoubleStart` | two workers start the same task: the guard of `start_run` is not in the transaction that claims it |
| `MigratedRun` | on the migrated schema no run can store its result: a UUID for an INTEGER key |
| `RefusedSeed` | two ready workers on the migrated schema (PostgreSQL, no downgrade, no failure): `_ensure_seeded` inserts the same names in each process, the second is refused by `uq_tasks_name`, and so is every task request it gets |
| `LeakedSlot` | a job is cancelled before its first step: `_runner` never enters its `try`, so the `finally` that should release the slot (`service/runner.py:243-259`) does not run |

**Limits the models show and no run reports.** Each is behaviour of the models
that a condition of a property, or the choice of a run, leaves room for:

* `NoOrphanResults` is checked with enforced foreign keys. On SQLite a run stores
  its result after its task was deleted, although `api/tasks.py:147-148` says
  delete cascades to the rows.
* `NamesDistinct` is checked for one worker of the schema the service creates
  (`Schema = "orm"`). Two workers can each miss the other's insert. On the migrated
  schema SQLAlchemy's flush sends the INSERT before the DELETEs, so `NameTaken`
  refuses every create of a name in use, although
  `repository/task_repo.py:326-328` evicts to keep the index from tripping.
* `MirrorKnowsStoredTasks` speaks of the presence of a task. The status in the mirror
  can stay the older of two, because `update_status` writes it after its
  transaction, where `repository/task_repo.py:61-68` says it mirrors the last write.
* `RunningSettles` and `AcceptedRunRecorded` promise nothing once something has failed.
  A crash, a refused transaction or a graceful stop leaves a task `running` for ever: drain
  (`app.py:139`) sees `submit()` handles, and runs are daemon threads, although
  `app.py:122-126` says in-flight tasks finish or are stamped `interrupted`.
* `WindowBound`, `RetryHonoured` and `HandledWithinBudget` need row locks, or one
  worker. SQLite has no FOR UPDATE and opens its transaction at the UPDATE, so two
  processes spend the last token twice, although `repository/rate_repo.py:117-121`
  says SQLite serializes writers on the transaction itself.
* `SlotsComeBack` and `QueuedAreAdmitted` end where the leak of `LeakedSlot` begins: the
  first speaks of pools without an early cancel, the second of pools that have a slot
  left. In `ExecutorPool` two early cancels can take both slots (`LostSlots`); from then on
  every caller of `submit()` waits for ever, in the model as in the code.
* A caller that waits in `submit()` is not in the snapshot of drain
  (`service/runner.py:317`), may be handed the slot of a job that drain ended and
  runs on; `src/02-architecture/adr/ADR.md:211-213` calls shutdown deterministic.
* `WalkEnds` includes walks that end too early: a cursor is matched by identity
  (`repository/task_repo.py:479`), so deleting the row it names ends the walk
  with an empty page, where `src/02-architecture/SAD.md:284-286` compares
  `(created_at, id)`.
* `NothingPassedOver` and `LastPageCompletes` are about the window. Tasks created
  during a walk push its tail out of the newest 100 (`repository/task_repo.py:454`),
  where `src/02-architecture/adr/ADR.md:413-414` excludes skips. A task that is stamped
  before and committed after the page that has its place on it is not shown either.
* `SchemaMatchesRevision` and `HeadReached` are about PostgreSQL. On SQLite the
  CREATE TABLE is committed by itself, a failure after it leaves the table at v2
  and every retry is refused; `src/SPEC.md:204` promises a rollback.
* `RevokedStaysOut` is about requests that arrive after the revoke. One that was
  identified before is served.
* `AnswerTellsCharge` says nothing of a 403, because code and documents disagree. The
  code charges in the dependency (`api/deps.py:90`, and its docstring says so) and checks
  the scope in the handler (`api/tasks.py:45`), so in `Gateway` a request answered 403
  has paid and can be answered 429 in its place. The data flow of
  `src/02-architecture/SAD.md:298-304` has "2 authorise" before "3 rate limit", and ADR-007
  (`src/02-architecture/adr/ADR.md:327-329`) says "Order is fixed: authenticate
  (401 on miss/revoked) → authorise (403 on insufficient scope) → rate-limit (429 on empty
  bucket)". A body that does not fit the schema
  (422) is refused behind the charge as well.
* `NoOrphan` leaves the wait of the `finally` to a second cancellation: it cuts the
  wait short, the child is killed but not waited for.
* `OutcomeIsTrue` says nothing of the output. At the limit the first `communicate` is
  cancelled and drops what it has read, so the tail of a timed-out run is what came
  later, where `service/runner.py:378-379` says the partial output is drained for it.
  The exit code beside `timeout` may be 0 or 255: the command ended before the kill,
  or `kill()` took its status from asyncio. Nor does it say that a run that passes its
  limit ends as `timeout`: if the command ends while the first `communicate` is being
  cancelled, asyncio may have let go of the process, `proc.kill()` raises
  (`service/runner.py:395`, unlike 407 unprotected) and the run is recorded as failed.
* `RunEnds` excludes a process that keeps the pipes of a killed command: the second
  `communicate` (`service/runner.py:396`) has no limit.
* `HeadReached` of `Deployment` excludes a create_all ahead of the chain. A probe that
  meets a worker before `alembic upgrade head`, or after a `downgrade -1`, makes it
  create the tables of later revisions, and every upgrade is refused from then on.
  `src/SPEC.md:158` wants such a probe to answer 503 -- it does, and this is its price.
  It also excludes seeds stored twice: two workers that seed while a downgrade has
  taken `uq_tasks_name` leave names the upgrade cannot index.
* `MirrorKnowsStoredTasks` and `NamesDistinct` speak of the tasks that clients create. A
  seeding that is refused leaves its 100 rows in the mirror (`repository/task_repo.py:133`),
  another 100 with each request; on a schema without the index the seeds of two workers
  share their names.
* `BuiltMeansBuckets` is about workers whose first access went through. One whose
  access failed answers 200 at the head revision, and `rate_buckets` may not exist.
* `ReadyMeansMigrated`, `NamesRelaxed` and `SchemaMatchesVersion` are about PostgreSQL.
  On SQLite a reader sees each statement of a migration, and two first accesses can
  leave the unique index of names behind: one creates it after the other looked.

**Why the bounds are enough.** Each hazard needs at most two actors on one row
and a third party in between: two workers (or a worker and its run threads), two
runs of one task, one name so that the second create evicts the first task, and one fault, crash
or stop at each point (what two names add is left to the theorems). A bucket of 2 with a
clock of 4 empties, refills in part and fills up again, from a mark at any tick. Four jobs
on two slots let two wait while two run; two early cancels are enough to take every slot. Jobs are numbered as they are submitted, which keeps one of
each set of interchangeable histories. A window of 3 with pages of 1 has a page in the middle of the walk, and a fourth task
pushes the oldest out. Two operators
run two revokes, or a create and a revoke, at once. Two cancellations meet the coroutine
in its wait and in its finally. In `SplitRoundTrip` two downgrades
give up, down, up, down, up, and 2 results on top of a legacy one give both
payload shapes. In `Deployment` one downgrade may go back to any revision, or to none. The bounds (`MaxFaults`, `MaxCrashes`, `MaxShutdowns`,
`MaxClock`, `MaxDeletes`, `MaxEarlyCancels`, `MaxDrains`, `MaxWrites`,
`MaxDowngrades`, `MaxFailures`, `MaxCancels`) guard environment actions only, except `MaxClock`, which stops
time. `ExecutorPool`, `SplitRoundTrip` and `Subprocess` turn the deadlock check off: a
drained pool whose jobs are all over stops, an operator who has spent the bounds has
nothing left to do, and a run ends. In all the others some request is always enabled.

**Fairness.** A request that began goes on (the event loop runs) and a run
thread takes its steps (the operating system schedules it); `Execute` is fair
because a child that does not exit is killed at the time limit. In the executor,
fairness is of the event loop as a whole (`LoopStep`): while a callback, a task
that may end or the drain's timer is ready, the loop does not idle; no submit,
cancel or drain is forced. In `ListingWalk` the client keeps
asking while it has a cursor. In `SplitRoundTrip` a migration goes on and the
operator retries a failed upgrade, as the chained `make verify-system` does.
In `Subprocess` the loop, its timer and the waiting thread go on; the command need
not end, nor the processes it leaves. In `Deployment` an alembic command goes on, the
operator retries, and a first access goes on whenever it is let to again and again (strong
fairness: a database grants a lock to who waits for it); every worker gets task
requests again and again.
No new request, failure or restart is fair.

## 4. Theorems

All are proved by TLAPS for every value of the constants that satisfies the named
assumptions of the module, and under the extra hypothesis given here.

| Theorem | States | Hypothesis |
|---|---|---|
| `TaskRunsProofs!TypeCorrect` | `TypeOK` and that an executed run has an outcome | |
| `TaskRunsProofs!HistoryBacksStatuses` | `TerminalStatusBacked` | |
| `TaskRunsProofs!HistoryGoesWithTheTask` | `NoOrphanResults` | PostgreSQL |
| `TaskRunsProofs!NoDoubleRun` | `AtMostOneLiveRun` | one worker |
| `TaskRunsProofs!StatusMachineKept` | `OnlyLegalMoves` | one worker |
| `TaskRunsProofs!NamesStayDistinct` | `NamesDistinct` | one worker, or the migrated schema |
| `TaskRunsProofs!MirrorIsExact` | `MirrorKnowsStoredTasks` | one worker |
| `TaskRunsProofs!NoRunIsForgotten` | `RunningIsDriven` (which speaks of histories without failures and a schema results fit in) | |
| `TaskRunsProofs!OneWorkerImplements` | `ImplementsMachine`: `TaskMachine` is refined | one worker |
| `RateBucketProofs!BucketInvariant`, `NoOverdraw`, `RetryAfterHonoured` | `BucketInv`, `WindowBound`, `RetryHonoured` | locks work, or one worker |
| `GatewayProofs!GatewayImplementsBucket` | every step of the pipeline is one of `RateBucket`, or none | |
| `GatewayProofs!GatewayTyped`, `RevokedKeysStayOut`, `PrintedKeysAreStored`, `AnswersTellCharges`, `NoLockIsStranded` | `GatewayTypeOK`, `RevokedStaysOut`, `PrintedKeyStored`, `AnswerTellsCharge`, `NoStrandedLock` | |
| `GatewayProofs!PipelineKeepsBudget`, `HandlersKeepBudget` | `WindowBound` and `RetryHonoured`, `HandledWithinBudget` | locks work, or one worker |
| `SubprocessProofs!SubprocessTyped`, `ChildrenAreReaped`, `OutcomesAreTrue` | `TypeOK`, `NoOrphan`, `OutcomeIsTrue` | |
| `DeploymentProofs!DeploymentTyped`, `BuiltWorkersHaveBuckets`, `NamesAreFreed`, `VersionsAreTrue`, `ReadyWorkersSeeTheHead` | `TypeOK`, `BuiltMeansBuckets`, `NamesRelaxed`, `SchemaMatchesVersion`, `ReadyMeansMigrated` | |
| `ExecutorProofs!CapHolds` | `CapRespected` | |
| `ExecutorProofs!SlotsComeBackUncancelled` | `SlotsComeBack` | |
| `ExecutorProofs!EarlyCancelsLoseSlots` | the slots that are free, handed over or held are `MaxConcurrent - LostSlots` | |
| `ExecutorProofs!ExecutorTyped`, `NoSlotLiesIdle`, `TallyAgrees` | `TypeOK`, `NoIdleSlot`, `TallyMatchesHandles` | |
| `SplitResultsProofs!TypesHold`, `ResultsKept`, `SchemaFollowsRevision` | `TypeOK`, `ResultsSurvive`, `SchemaMatchesRevision` | |
| `TaskListingProofs!ListingTyped`, `PagesDescend`, `WalksPassNothingOver`, `LastPagesComplete` | `TypeOK`, `NewestFirst`, `NothingPassedOver`, `LastPageCompletes` | |
| `TaskListingProofs!SmallListsComplete` | `SkipsNothing` (it fails where the task of a cursor is deleted) | the table fits in the window, no filter, no delete |

`DoubleStart` shows that the hypothesis on workers is needed; those on locks and
deletes are, as the limits above say.

* *A settled status has its result.* Not inductive alone: a status might be
  settled by a thread whose row is gone, or a row taken away under a settled
  status. `HistoryInv` adds that run and handler name tasks once created
  (`TasksDrawn`; ids never come back), that a row stays until its task goes
  (`RowsFollowRuns`) and that an executed run has an outcome.
* *No result outlives its task.* Inductive with `HistoryInv`: a delete is refused over
  a row it has not loaded, an insert over a task that is gone, and ids never come back.
* *One live run.* `ClaimInv` adds that a live run holds its task in `running`
  and that a handler past the guard has the task to itself. The second
  part is where a single worker is needed: its event loop does nothing else
  between guard and thread start.
* *Distinct names.* A unique index refuses the second row of a name, so nothing is
  needed where the schema has one. Elsewhere a create must have loaded every homonym:
  `VictimsInv` says so of the handler that is about to commit, which needs the single
  worker. The limits above name the two workers that miss each other's insert.
* *The mirror.* `MirrorInv` says what it may be wrong about while a handler is between
  its commit and its section under the mirror lock: the homonyms and the new task of a
  create, the one task of a delete. That eviction in the mirror (by name) and in the
  table (by the rows loaded) take out the same tasks rests on `NamesDistinct` and
  `VictimsInv`.
* *The refinement of `TaskMachine`.* Under `HistoryInv`, `ClaimInv` and `VictimsInv` a
  task has at most one live run, so what is on record of a running task is one exit
  code (`OneInserted`), and the row of a live run is there until the task goes. Five steps
  are steps of the machine (`CreateCommit`, `DeleteCommit`, `StartUpdate`, `ResultCommit`,
  `StatusCommit`: a lemma each); every other one leaves phases alone and
  at most loses records, which is `Abandon` (`RunsAreLost`).
* *A running task is driven.* The safety core of `RunningSettles`, for any number of
  workers: the drivers of a task are its live threads and the handlers between claim and
  thread start. A thread goes only as it settles the task or finds it deleted
  (`ThreadDrives`), a handler only as it hands over to a thread (`HandlerDrives`), and
  nothing else makes a task read `running` (`ClaimsOnly`). `OneWorker` adds that
  drivers go on. Under failures it does not hold: see the limits and `MigratedRun` above.
* *The window bound.* `BucketInv` keeps a ledger: the grants counted since the
  mark plus what the row still holds do not exceed the burst plus the refill
  up to the row's own `last_refill`; and what a lock holder has read is current.
  The arithmetic of `_refill` with its two rebasings is in lemmas of its own.
* *The cap.* The sum of free slots, slots handed to a waiter and jobs in
  possession of one is kept by every step but that of a job cancelled before it
  began, which takes one away. `SlotLedger` balances it against the number of such
  cancellations and of jobs that still have that step to take: the leak of `LeakedSlot` costs
  exactly one slot each time, and there is no other.
* *No idle slot.* `Line` says that exactly the callers who wait or were handed a slot
  stand in `waiters`, each once, so whoever releases a slot finds the next one to hand it
  to; with it `NoneIdle` is inductive.
* *The tally.* Only callbacks and the drain's end write `stamp`, and an ended task stays
  as it is (`EndedStay`): a stamp that names an end names the task's own (`StampsTrue`).
* *Admission.* The pipeline implements the bucket, so the bucket's bounds are the
  pipeline's. `HandledWithinBudget` adds a ledger of its own: the handlers that
  ran, and the requests that paid and are still on their way to one, are among the
  grants the bucket counted.
* *The child.* What has ended stays known: the invariant of `SubprocessProofs` ties
  `child`, `code`, `caught`, `known` and `wired` to each stage of the coroutine.
* *The version.* `Versions` describes what the connection of a command in
  progress sees, against the version it will stamp with the statements it has
  left; what create_all adds in between is in `Extra`. Locks keep workers off the names
  the open transaction uses, which is part of `TypeOK`.
* *No result is lost.* In the middle of a migration a result is in the rows written or
  in what was read and is still to be written: `Upward` balances the two against the
  ledger, task by task; on the way down a task whose rows were merged has them in its
  payload (`Downward`). `Settled` says the committed tables hold each result in one place
  only, so a rollback to any committed state is harmless. SQLite commits a DDL
  statement on its own only while no row has been written, which is why the
  theorem needs no transactional DDL, while `SchemaMatchesRevision` does.
* *The listing.* `WalkInv` relates the pages shown, the cursor and the tasks
  that matched throughout: all of them newer than the cursor have been shown.

Every safety property of the passing runs is a theorem. Model-checked only is
liveness (`RunningSettles`, `AcceptedRunRecorded`, `DrainEnds`, `QueuedAreAdmitted`,
`WalkEnds`, `RunEnds`, `AccessEnds`, both `HeadReached`): fairness is about ENABLED, which
is beyond the prover.

## 5. Abstractions, and what is not modelled

* In `TaskRuns`, `run_subprocess` is one step with an outcome; `Subprocess` has its steps.
  A cancellation at the await of `create_subprocess_exec` (`service/runner.py:447`) is not
  in it: the coroutine has no `finally` there yet, but asyncio, which is still connecting the
  pipes, kills the child and waits for it before it lets the cancellation through, so
  `NoOrphan` does not depend on the code of the service at that point.
  Commands, tails and durations are values without structure; the cut of tails at
  4096 characters is not in `SplitResults`.
* `Gateway` has one key, its bucket and requests with it or without; fixture keys of the
  tests never reach the table (`service/auth.py:29-33`). A body that is no JSON is a 422
  before the key is looked at, and reaches nothing modelled. What the handlers behind
  the scope check do is in `TaskRuns` and `TaskListing`.
* `Deployment` has tables and the two indexes on names as objects, of the data only the
  seeds and how often their names occur; the results and the
  `result_json` column are in `SplitResults`. DDL on PostgreSQL is atomic with its command;
  a deadlock of two DDL transactions is a failure of one of them. The first
  access is made by a probe.
* One rate bucket: rows of different keys do not interact. Rounding of floats to
  microseconds is left out, and the wall clock does not step back.
* `create_with_runs` (only tests call it) and the second fallback of `delete`'s mirror.
  `_ensure_seeded` is in `Deployment`, for the names it takes; elsewhere the
  process has seeded already, and the mirror of the seeds is in no module.
* `TaskListing` has one walk; an eviction is a `Delete` there, and a run's two
  status changes are `UpdateStatus`.
* In `SplitResults` a legacy payload is absent, no JSON object, or one result with or
  without a finish time; an empty `{"runs": []}` is written by no release.
  Results at v3 are rows inserted without an id, as the round-trip test does it,
  because the service's own insert is refused there (`MigratedRun`). Offline
  mode prints SQL and changes nothing.
* `__main__.py` has no call of `main`, so `python -m taskq_api key create` does nothing;
  `Gateway` models what the commands do when they are called.
* The audit log and correlation ids carry no state. (A problem answer has an id of its
  own in the body, `errors.py:51`, not that of the header, and a request that ends in
  a 500 leaves no authenticated record, `app.py:103-114`.)
* Metrics, configuration, formatting: see the components in
  `PROJECT.json` for the reason of each.

## 6. Plan

Done, in this order: `TaskRuns` with `TaskMachine`, `RateBucket`, `Executor`,
`TaskListing`, `SplitResults`, `Gateway`, `Subprocess`, `Deployment`; then the
proofs of all their safety properties and of the refinement of `TaskMachine`.

Next, modelling: `Execute` of `TaskRuns` as a refinement by `Subprocess`, and the mirror of
the seeds.

Next, proving: what a refinement of `Execute` asks for; the safety core of the other
liveness properties, as `NoRunIsForgotten` is that of `RunningSettles`.
