------------------------------ MODULE TaskRuns ------------------------------
(***************************************************************************)
(* The task store and the run drivers of taskq_api.                        *)
(*                                                                         *)
(* Several worker processes share one database.  Every worker serves HTTP  *)
(* requests on one event loop (the handlers are coroutines that never      *)
(* await, so a worker has at most one of them in progress) and spawns a    *)
(* daemon thread per accepted run, which executes the command, inserts the *)
(* task_results row and settles tasks.status in two transactions.  Every   *)
(* worker also keeps an in-memory mirror of the rows it wrote itself.      *)
(*                                                                         *)
(* One action is one transaction, one section under the mirror lock, or    *)
(* one step outside both.  Requests that answer 404 or 409 change nothing  *)
(* and are the cases in which the first action of their handler is         *)
(* disabled.                                                               *)
(***************************************************************************)
EXTENDS Integers, FiniteSets

CONSTANTS
    Workers,        \* worker processes
    TaskIds,        \* tasks.id values: uuids, drawn once and never reused
    RunIds,         \* run ids, the task_results.id values: uuids as well
    Names,          \* tasks.name values
    None,           \* no task, no name, no outcome yet
    Dialect,        \* "sqlite" or "postgres"
    Schema,         \* "orm" (create_all) or "alembic" (migrated to head)
    MaxFaults,      \* bound: transactions and thread starts that raise
    MaxCrashes,     \* bound: worker processes killed
    MaxShutdowns    \* bound: orderly worker shutdowns

ASSUME NoneAssumption == None \notin Workers \cup TaskIds \cup Names \cup RunIds
ASSUME DeploymentAssumption ==
    /\ Dialect \in {"sqlite", "postgres"}
    /\ Schema \in {"orm", "alembic"}
ASSUME BoundsAssumption ==
    /\ MaxFaults \in Nat
    /\ MaxCrashes \in Nat
    /\ MaxShutdowns \in Nat

(* PRAGMA foreign_keys is never set, so only Postgres enforces the foreign *)
(* key task_results.task_id -> tasks.id.                                   *)
ForeignKeysEnforced == Dialect = "postgres"

(* create_all builds the unique name index and _relax_orm_constraints      *)
(* drops it again; the one the v2 migration builds has another name and    *)
(* stays.                                                                  *)
NamesUnique == Schema = "alembic"

(* The v3 migration declares task_results.id INTEGER; add_result inserts   *)
(* the uuid string of the run.                                             *)
ResultInsertable == Schema = "orm"

Terminal == {"done", "failed", "timeout"}
Statuses == {"pending", "running"} \cup Terminal
Stored   == Statuses \cup {"absent"}        \* "absent": there is no row

VARIABLES
    status,     \* tasks.status of every id, "absent" when the row is not there
    nameOf,     \* tasks.name an id was created with; None: id not drawn yet
    results,    \* the task_results rows, by run id; task_id and exit_code of
                \* a row are those the driver passed, kept in run
    mem,        \* _TASKS of every worker: the status the mirror holds
    memResults, \* _RESULTS of every worker
    loop,       \* the request handler in progress on every worker
    run,        \* the _drive_run thread of every accepted run
    up,         \* is the worker process running
    faults, crashes, shutdowns              \* spent bounds

vars == <<status, nameOf, results, mem, memResults, loop, run, up,
          faults, crashes, shutdowns>>
bounds == <<faults, crashes, shutdowns>>

Drawn == {t \in TaskIds : nameOf[t] # None}
Unused == {r \in RunIds : run[r].pc = "unused"}
RowsOf(T) == {r \in results : run[r].task \in T}

(* The exit_code column, as far as _classify_exit goes by it: a run that   *)
(* ended in time is done with exit code 0 and failed with another, and one *)
(* that hit its limit carries whatever code its child left, 0 included.    *)
ExitFor(s) == IF s = "done" THEN "zero" ELSE IF s = "failed" THEN "nonzero" ELSE "any"
ExitOf(r) == ExitFor(run[r].state)

Idle == [pc |-> "idle", task |-> None, name |-> None,
         victims |-> {}, rows |-> {}]
NoRun == [worker |-> None, task |-> None, pc |-> "unused", state |-> None]

Goto(w, pc) == loop' = [loop EXCEPT ![w].pc = pc]
Answer(w) == loop' = [loop EXCEPT ![w] = Idle]
RunGoto(r, pc) == run' = [run EXCEPT ![r].pc = pc]

Init ==
    /\ status = [t \in TaskIds |-> "absent"]
    /\ nameOf = [t \in TaskIds |-> None]
    /\ results = {}
    /\ mem = [w \in Workers |-> [t \in TaskIds |-> "absent"]]
    /\ memResults = [w \in Workers |-> {}]
    /\ loop = [w \in Workers |-> Idle]
    /\ run = [r \in RunIds |-> NoRun]
    /\ up = [w \in Workers |-> TRUE]
    /\ faults = 0 /\ crashes = 0 /\ shutdowns = 0

Ready(w) == up[w] /\ loop[w].pc = "idle"

-----------------------------------------------------------------------------
(* POST /v1/tasks: TaskRepository.create.                                  *)

(* _evict_tasks_by_name_sql and _evict_tasks_by_name_memory: the rows that *)
(* carry the name.                                                         *)
EvictsNone(n) == {}         \* faulty variant: the eviction is forgotten
Homonyms(n) == {t \in TaskIds : status[t] # "absent" /\ nameOf[t] = n}

MirrorHomonyms(n) == {t \in TaskIds : nameOf[t] = n}

(* The homonyms are loaded, their results with them.  The conjunct on      *)
(* Cardinality keeps an id free for every create in progress.              *)
CreateRead(w, n) ==
    /\ Ready(w)
    /\ Cardinality({v \in Workers : loop[v].pc = "create.commit"})
         < Cardinality(TaskIds \ Drawn)
    /\ loop' = [loop EXCEPT ![w] =
                   [Idle EXCEPT !.pc = "create.commit", !.name = n,
                                !.victims = Homonyms(n),
                                !.rows = RowsOf(Homonyms(n))]]
    /\ UNCHANGED <<status, nameOf, results, mem, memResults, run, up, bounds>>

(* What the flush may trip over.  The INSERT goes out before the DELETEs,  *)
(* so under a unique index any row of that name refuses it, evicted in the *)
(* same transaction or not; a row that was not loaded refuses the DELETE   *)
(* of its task where foreign keys are enforced.                            *)
NameTaken(n) ==
    NamesUnique /\ \E t \in TaskIds : status[t] # "absent" /\ nameOf[t] = n
StillReferenced(w) ==
    ForeignKeysEnforced /\ ~(RowsOf(loop[w].victims) \subseteq loop[w].rows)

CreateCommit(w) ==
    /\ loop[w].pc = "create.commit"
    /\ ~NameTaken(loop[w].name) /\ ~StillReferenced(w)
    /\ \E t \in TaskIds \ Drawn :
         /\ status' = [u \in TaskIds |->
                         IF u = t THEN "pending"
                         ELSE IF u \in loop[w].victims THEN "absent"
                         ELSE status[u]]
         /\ nameOf' = [nameOf EXCEPT ![t] = loop[w].name]
         /\ loop' = [loop EXCEPT ![w].pc = "create.mirror", ![w].task = t]
    /\ results' = results \ loop[w].rows
    /\ UNCHANGED <<mem, memResults, run, up, bounds>>

(* IntegrityError: rollback, 500.                                          *)
CreateRefused(w) ==
    /\ loop[w].pc = "create.commit"
    /\ NameTaken(loop[w].name) \/ StillReferenced(w)
    /\ Answer(w)
    /\ UNCHANGED <<status, nameOf, results, mem, memResults, run, up, bounds>>

CreateMirror(w) ==
    /\ loop[w].pc = "create.mirror"
    /\ mem' = [mem EXCEPT ![w] =
                 [u \in TaskIds |->
                    IF u = loop[w].task THEN "pending"
                    ELSE IF u \in MirrorHomonyms(loop[w].name) THEN "absent"
                    ELSE mem[w][u]]]
    /\ Answer(w)
    /\ UNCHANGED <<status, nameOf, results, memResults, run, up, bounds>>

-----------------------------------------------------------------------------
(* DELETE /v1/tasks/{id}: TaskRepository.delete.                           *)

DeleteRead(w, t) ==
    /\ Ready(w)
    /\ t \in Drawn
    /\ LET victims == {t} \ {u \in TaskIds : status[u] = "absent"}
       IN  loop' = [loop EXCEPT ![w] =
                      [Idle EXCEPT !.pc = IF victims = {} THEN "delete.mirror"
                                                         ELSE "delete.commit",
                                   !.task = t, !.victims = victims,
                                   !.rows = RowsOf(victims)]]
    /\ UNCHANGED <<status, nameOf, results, mem, memResults, run, up, bounds>>

DeleteCommit(w) ==
    /\ loop[w].pc = "delete.commit"
    /\ ~StillReferenced(w)
    /\ status' = [u \in TaskIds |->
                    IF u \in loop[w].victims THEN "absent" ELSE status[u]]
    /\ results' = results \ loop[w].rows
    /\ Goto(w, "delete.mirror")
    /\ UNCHANGED <<nameOf, mem, memResults, run, up, bounds>>

DeleteRefused(w) ==
    /\ loop[w].pc = "delete.commit"
    /\ StillReferenced(w)
    /\ Answer(w)
    /\ UNCHANGED <<status, nameOf, results, mem, memResults, run, up, bounds>>

DeleteMirror(w) ==
    /\ loop[w].pc = "delete.mirror"
    /\ mem' = [mem EXCEPT ![w][loop[w].task] = "absent"]
    /\ memResults' = [memResults EXCEPT ![w] =
                        {r \in memResults[w] : run[r].task # loop[w].task}]
    /\ Answer(w)
    /\ UNCHANGED <<status, nameOf, results, run, up, bounds>>

-----------------------------------------------------------------------------
(* POST /v1/tasks/{id}/run: start_run.                                     *)

(* The two guards of start_run: 404 and 409.                               *)
StartableAnyway(t) == status[t] # "absent"  \* faulty variant: no 409
Startable(t) == status[t] \notin {"absent", "running"}

(* repo.get and the guards.  The conjunct on Cardinality keeps a run id    *)
(* free for every start in progress.                                       *)
StartGet(w, t) ==
    /\ Ready(w)
    /\ Startable(t)
    /\ Cardinality({v \in Workers :
            loop[v].pc \in {"start.update", "start.mirror", "start.spawn"}})
         < Cardinality(Unused)
    /\ loop' = [loop EXCEPT ![w] = [Idle EXCEPT !.pc = "start.update",
                                                !.task = t]]
    /\ UNCHANGED <<status, nameOf, results, mem, memResults, run, up, bounds>>

StartUpdate(w) ==
    /\ loop[w].pc = "start.update"
    /\ status[loop[w].task] # "absent"
    /\ status' = [status EXCEPT ![loop[w].task] = "running"]
    /\ Goto(w, "start.mirror")
    /\ UNCHANGED <<nameOf, results, mem, memResults, run, up, bounds>>

(* The row went away after repo.get.  Either update_status finds no row    *)
(* and returns False, which start_run ignores, or the row goes away after  *)
(* it was loaded and the UPDATE raises StaleDataError.                     *)
StartVanished(w) ==
    /\ loop[w].pc = "start.update"
    /\ status[loop[w].task] = "absent"
    /\ Goto(w, "start.spawn") \/ Answer(w)
    /\ UNCHANGED <<status, nameOf, results, mem, memResults, run, up, bounds>>

StartMirror(w) ==
    /\ loop[w].pc = "start.mirror"
    /\ mem' = [mem EXCEPT ![w][loop[w].task] =
                 IF @ = "absent" THEN "absent" ELSE "running"]
    /\ Goto(w, "start.spawn")
    /\ UNCHANGED <<status, nameOf, results, memResults, run, up, bounds>>

StartSpawn(w) ==
    /\ loop[w].pc = "start.spawn"
    /\ \E r \in Unused :
         run' = [run EXCEPT ![r] = [worker |-> w, task |-> loop[w].task,
                                    pc |-> "exec", state |-> None]]
    /\ Answer(w)
    /\ UNCHANGED <<status, nameOf, results, mem, memResults, up, bounds>>

-----------------------------------------------------------------------------
(* The run thread: _drive_run.                                             *)

(* Faulty variants: the status is settled before the result is recorded; a *)
(* spawn failure propagates out of the thread.                             *)
ExecuteSettlesFirst(r, s) ==
    /\ run[r].pc = "exec"
    /\ run' = [run EXCEPT ![r].pc = "status", ![r].state = s]
    /\ UNCHANGED <<status, nameOf, results, mem, memResults, loop, up, bounds>>
ExecutePropagates(r, s) ==
    /\ run[r].pc = "exec"
    /\ run' = [run EXCEPT ![r].pc = IF s = "failed" THEN "ended" ELSE "result",
                          ![r].state = s]
    /\ UNCHANGED <<status, nameOf, results, mem, memResults, loop, up, bounds>>

(* run_subprocess, or _failed_outcome when it raises: some terminal state. *)
Execute(r, s) ==
    /\ run[r].pc = "exec"
    /\ run' = [run EXCEPT ![r].pc = "result", ![r].state = s]
    /\ UNCHANGED <<status, nameOf, results, mem, memResults, loop, up, bounds>>

ResultUnreferenced(r) == ResultInsertable   \* faulty variant: no foreign key
ResultAccepted(r) ==
    /\ ResultInsertable
    /\ ForeignKeysEnforced => status[run[r].task] # "absent"

ResultCommit(r) ==
    /\ run[r].pc = "result"
    /\ ResultAccepted(r)
    /\ results' = results \cup {r}
    /\ RunGoto(r, "result.mirror")
    /\ UNCHANGED <<status, nameOf, mem, memResults, loop, up, bounds>>

(* add_result raises out of _drive_run and ends the thread.                *)
ResultRefused(r) ==
    /\ run[r].pc = "result"
    /\ ~ResultAccepted(r)
    /\ RunGoto(r, "ended")
    /\ UNCHANGED <<status, nameOf, results, mem, memResults, loop, up, bounds>>

ResultMirror(r) ==
    /\ run[r].pc = "result.mirror"
    /\ memResults' = [memResults EXCEPT ![run[r].worker] = @ \cup {r}]
    /\ RunGoto(r, "status")
    /\ UNCHANGED <<status, nameOf, results, mem, loop, up, bounds>>

StatusCommit(r) ==
    /\ run[r].pc = "status"
    /\ status[run[r].task] # "absent"
    /\ status' = [status EXCEPT ![run[r].task] = run[r].state]
    /\ RunGoto(r, "status.mirror")
    /\ UNCHANGED <<nameOf, results, mem, memResults, loop, up, bounds>>

(* No row: update_status returns False, or its UPDATE raises; the thread   *)
(* ends either way.                                                        *)
StatusVanished(r) ==
    /\ run[r].pc = "status"
    /\ status[run[r].task] = "absent"
    /\ RunGoto(r, "ended")
    /\ UNCHANGED <<status, nameOf, results, mem, memResults, loop, up, bounds>>

StatusMirror(r) ==
    /\ run[r].pc = "status.mirror"
    /\ mem' = [mem EXCEPT ![run[r].worker][run[r].task] =
                 IF @ = "absent" THEN "absent" ELSE run[r].state]
    /\ RunGoto(r, "ended")
    /\ UNCHANGED <<status, nameOf, results, memResults, loop, up, bounds>>

-----------------------------------------------------------------------------
(* Failures: a transaction that raises (lock timeout, lost connection, a   *)
(* value the driver refuses), a thread that cannot be started, and the two *)
(* ways a worker process ends.                                             *)

LoopFault(w) ==
    /\ faults < MaxFaults
    /\ loop[w].pc \in {"create.commit", "delete.commit", "start.update",
                      "start.spawn"}
    /\ faults' = faults + 1
    /\ Answer(w)
    /\ UNCHANGED <<status, nameOf, results, mem, memResults, run, up,
                   crashes, shutdowns>>

RunFault(r) ==
    /\ faults < MaxFaults
    /\ run[r].pc \in {"result", "status"}
    /\ faults' = faults + 1
    /\ RunGoto(r, "ended")
    /\ UNCHANGED <<status, nameOf, results, mem, memResults, loop, up,
                   crashes, shutdowns>>

(* The process ends: its handler, its daemon threads and its mirror go.    *)
Die(w) ==
    /\ up[w]
    /\ up' = [up EXCEPT ![w] = FALSE]
    /\ Answer(w)
    /\ run' = [r \in RunIds |->
                 IF run[r].worker = w THEN [run[r] EXCEPT !.pc = "ended"]
                                      ELSE run[r]]
    /\ mem' = [mem EXCEPT ![w] = [t \in TaskIds |-> "absent"]]
    /\ memResults' = [memResults EXCEPT ![w] = {}]
    /\ UNCHANGED <<status, nameOf, results, faults>>

Crash(w) ==
    /\ crashes < MaxCrashes
    /\ Die(w)
    /\ crashes' = crashes + 1
    /\ UNCHANGED shutdowns

(* The server finishes its requests and leaves lifespan, which drains the  *)
(* handles of submit(); start_run registers none there, so the drain       *)
(* returns at once and the daemon threads end with the process.            *)
Shutdown(w) ==
    /\ shutdowns < MaxShutdowns
    /\ loop[w].pc = "idle"
    /\ Die(w)
    /\ shutdowns' = shutdowns + 1
    /\ UNCHANGED crashes

(* A new process for the worker: nothing in it looks at running tasks.     *)
Restart(w) ==
    /\ ~up[w]
    /\ up' = [up EXCEPT ![w] = TRUE]
    /\ UNCHANGED <<status, nameOf, results, mem, memResults, loop, run, bounds>>

-----------------------------------------------------------------------------
(* What a handler does once it has begun, and what a run thread does.      *)
LoopStep(w) ==
    \/ CreateCommit(w) \/ CreateRefused(w) \/ CreateMirror(w)
    \/ DeleteCommit(w) \/ DeleteRefused(w) \/ DeleteMirror(w)
    \/ StartUpdate(w) \/ StartVanished(w) \/ StartMirror(w) \/ StartSpawn(w)

RunStep(r) ==
    \/ \E s \in Terminal : Execute(r, s)
    \/ ResultCommit(r) \/ ResultRefused(r) \/ ResultMirror(r)
    \/ StatusCommit(r) \/ StatusVanished(r) \/ StatusMirror(r)

Request(w) ==
    \/ \E n \in Names : CreateRead(w, n)
    \/ \E t \in TaskIds : DeleteRead(w, t) \/ StartGet(w, t)

Failure ==
    \/ \E w \in Workers : LoopFault(w) \/ Crash(w) \/ Shutdown(w) \/ Restart(w)
    \/ \E r \in RunIds : RunFault(r)

Next ==
    \/ \E w \in Workers : Request(w) \/ LoopStep(w)
    \/ \E r \in RunIds : RunStep(r)
    \/ Failure

Spec == Init /\ [][Next]_vars

(* A handler does not stop half-way and a thread is scheduled; that        *)
(* Execute is fair says that the child closes its output and exits, or is  *)
(* killed at the time limit.  Requests and failures are never forced.      *)
Fairness ==
    /\ \A w \in Workers : WF_vars(LoopStep(w))
    /\ \A r \in RunIds : WF_vars(RunStep(r))

FairSpec == Spec /\ Fairness
=============================================================================
