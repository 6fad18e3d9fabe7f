----------------------------- MODULE Deployment -----------------------------
(***************************************************************************)
(* Who builds the schema.  The operator moves alembic's chain of revisions *)
(* up and down (migrations/versions, env.py); each worker process, at the  *)
(* first use of its engine, creates every ORM table it does not find and   *)
(* drops the unique index on task names (session.get_engine); its first    *)
(* task request stores a set of seed tasks, the same names in every        *)
(* process (task_repo._ensure_seeded); and /readyz tells a load balancer   *)
(* when it may serve.                                                      *)
(*                                                                         *)
(* Objects are tables and the two unique indexes on tasks.name.  Of what   *)
(* the tables hold there are only the seeds here; the results and the      *)
(* result_json column are SplitResults' concern, the mirror is TaskRuns'.  *)
(*                                                                         *)
(* On PostgreSQL alembic's command is one transaction and so is create_all.*)
(* SQLite commits each DDL statement on its own.  The locks that serialize *)
(* two DDL statements on one object are kept, the wait is not timed.       *)
(***************************************************************************)
EXTENDS Integers, Sequences

CONSTANTS
    Workers,            \* worker processes
    Databases,          \* the databases the run is made for
    MaxDowngrades,      \* bound: downgrade commands
    MaxFailures         \* bound: failing statements, lost connections, restarts

ASSUME DatabasesAssumption == Databases # {} /\ Databases \subseteq {"postgres", "sqlite"}
ASSUME BoundsAssumption == MaxDowngrades \in Nat /\ MaxFailures \in Nat

VARIABLES
    database,   \* the one TASKQ_DB_URL names
    objs,       \* the objects that are committed
    ver,        \* alembic_version: 0 for none, 1, 2, 3
    mig,        \* the alembic command in progress
    engine,     \* per worker, how far its first access is or how it ended
    todo,       \* per worker: the objects create_all has still to create
    ready,      \* per worker: the last answer of /readyz, 0 before any
    early,      \* history: create_all made a table that the chain makes
    seeded,     \* per worker: _SEEDED
    copies,     \* the largest number of stored tasks that share a seed's name
    failures, downgrades

vars == <<database, objs, ver, mig, engine, todo, ready, early, seeded, copies,
          failures, downgrades>>
workers == <<engine, todo, ready, early, seeded>>

alembic_head == 3

(* What each revision creates, in order; its downgrade drops it backwards. *)
Creates == << <<"tasks", "api_keys">>,
              <<"tags", "task_tags", "uq_tasks_name">>,
              <<"task_results">> >>
Backwards(s) == [i \in DOMAIN s |-> s[Len(s) + 1 - i]]
Made(rev) == {Creates[rev][i] : i \in DOMAIN Creates[rev]}
Upto(rev) == UNION {Made(r) : r \in 1..rev}

(* Base.metadata: sorted tables, an index right behind its table.          *)
OrmTables == {"api_keys", "rate_buckets", "tags", "tasks", "task_results", "task_tags"}
Orm == OrmTables \cup {"ix_tasks_name"}
OrmPlace == [api_keys |-> 1, rate_buckets |-> 2, tags |-> 3, tasks |-> 4,
             ix_tasks_name |-> 5, task_results |-> 6, task_tags |-> 7]
Chain == {"tasks", "api_keys", "tags", "task_tags", "uq_tasks_name", "task_results"}
Objects == Orm \cup Chain

(* A command: its target, the statements left of the revision at hand, the *)
(* version its connection has reached, and what its transaction has made   *)
(* and dropped so far.                                                     *)
NoCommand == [op |-> "none", goal |-> 0, at |-> 0, left |-> <<>>,
              made |-> {}, dropped |-> {}]

TransactionalDdl == database = "postgres"

Init ==
    /\ database \in Databases
    /\ objs = {} /\ ver = 0 /\ mig = NoCommand
    /\ engine = [w \in Workers |-> "none"]
    /\ todo = [w \in Workers |-> {}]
    /\ ready = [w \in Workers |-> 0]
    /\ seeded = [w \in Workers |-> FALSE]
    /\ early = FALSE /\ copies = 0 /\ failures = 0 /\ downgrades = 0

-----------------------------------------------------------------------------
(* alembic.                                                                *)

Statements(op, at) == IF op = "up" THEN Creates[at + 1] ELSE Backwards(Creates[at])

Upgrade ==
    /\ mig = NoCommand /\ ver < alembic_head
    /\ mig' = [NoCommand EXCEPT !.op = "up", !.goal = alembic_head, !.at = ver,
                                !.left = Statements("up", ver)]
    /\ UNCHANGED <<database, objs, ver, workers, copies, failures, downgrades>>

(* downgrade to any earlier revision, or to base.                          *)
Downgrade ==
    /\ mig = NoCommand /\ ver > 0 /\ downgrades < MaxDowngrades
    /\ \E goal \in 0..(ver - 1) :
         mig' = [NoCommand EXCEPT !.op = "down", !.goal = goal, !.at = ver,
                                  !.left = Statements("down", ver)]
    /\ downgrades' = downgrades + 1
    /\ UNCHANGED <<database, objs, ver, workers, copies, failures>>

(* The objects the command sees: what is committed, and its own changes.   *)
Seen == (objs \ mig.dropped) \cup mig.made

(* A table cannot be dropped under a foreign key, where it is enforced,    *)
(* and a unique index not be built over two equal names; an index goes     *)
(* with its table, and the tasks with theirs.                              *)
Referrers == [x \in {"tasks", "tags"} |->
    IF x = "tasks" THEN {"task_results", "task_tags"} ELSE {"task_tags"}]
Possible(x) ==
    IF mig.op = "up" THEN x \notin Seen /\ (x = "uq_tasks_name" => copies <= 1)
    ELSE /\ x \in Seen
         /\ TransactionalDdl /\ x \in DOMAIN Referrers => Referrers[x] \cap Seen = {}
Falling(x) == IF x = "tasks" THEN {"tasks", "ix_tasks_name"} ELSE {x}
Left(xs) == IF "tasks" \in xs THEN copies ELSE 0

StatementCommits ==                         \* faulty variant: no transaction around them
    /\ mig.op # "none" /\ mig.left # <<>>
    /\ LET x == Head(mig.left)
       IN  /\ Possible(x)
           /\ objs' = IF mig.op = "up" THEN Seen \cup {x} ELSE Seen \ Falling(x)
    /\ copies' = Left(objs')
    /\ mig' = [mig EXCEPT !.left = Tail(@)]
    /\ UNCHANGED <<database, ver, workers, failures, downgrades>>
Statement ==
    /\ mig.op # "none" /\ mig.left # <<>>
    /\ LET x == Head(mig.left)
           new == IF mig.op = "up" THEN Seen \cup {x} ELSE Seen \ Falling(x)
       IN  /\ Possible(x)
           /\ IF TransactionalDdl
              THEN /\ mig' = [mig EXCEPT !.left = Tail(@), !.made = new \ objs,
                                         !.dropped = objs \ new]
                   /\ UNCHANGED <<objs, copies>>
              ELSE /\ objs' = new /\ copies' = Left(new)
                   /\ mig' = [mig EXCEPT !.left = Tail(@)]
    /\ UNCHANGED <<database, ver, workers, failures, downgrades>>

(* The version is stamped behind the last statement of each revision.  The *)
(* transaction of env.py ends with the command; without transactional DDL  *)
(* alembic ends it with each revision.                                     *)
Stamp ==
    /\ mig.op # "none" /\ mig.left = <<>>
    /\ LET at == IF mig.op = "up" THEN mig.at + 1 ELSE mig.at - 1
       IN  IF at = mig.goal
           THEN mig' = NoCommand /\ objs' = Seen /\ copies' = Left(Seen) /\ ver' = at
           ELSE /\ mig' = [mig EXCEPT !.at = at, !.left = Statements(mig.op, at)]
                /\ ver' = IF TransactionalDdl THEN ver ELSE at
                /\ UNCHANGED <<objs, copies>>
    /\ UNCHANGED <<database, workers, failures, downgrades>>

(* A statement that is not possible: the transaction is rolled back.       *)
Refused ==
    /\ mig.op # "none" /\ mig.left # <<>> /\ ~Possible(Head(mig.left))
    /\ mig' = NoCommand
    /\ UNCHANGED <<database, objs, ver, workers, copies, failures, downgrades>>

CommandFails ==
    /\ mig.op # "none" /\ failures < MaxFailures
    /\ mig' = NoCommand /\ failures' = failures + 1
    /\ UNCHANGED <<database, objs, ver, workers, copies, downgrades>>

-----------------------------------------------------------------------------
(* A worker.                                                               *)

(* get_engine, the first time: create_all looks which tables are missing.  *)
FirstAccess(w) ==
    /\ engine[w] = "none"
    /\ engine' = [engine EXCEPT ![w] = "creating"]
    /\ todo' = [todo EXCEPT ![w] =
                  {x \in Orm : (IF x = "ix_tasks_name" THEN "tasks" ELSE x) \notin objs}]
    /\ UNCHANGED <<database, objs, ver, mig, ready, early, seeded, copies, failures, downgrades>>

(* The objects the next step of create_all is about: on PostgreSQL they    *)
(* appear together, when the transaction commits.                          *)
Batch(w) ==
    IF TransactionalDdl THEN todo[w]
    ELSE {x \in todo[w] : \A y \in todo[w] : OrmPlace[x] <= OrmPlace[y]}

(* A name the open transaction of alembic uses makes the worker wait.      *)
Unblocked(xs) == xs \cap (mig.made \cup mig.dropped) = {}

(* What create_all cannot create: what is there, or, on SQLite, the index  *)
(* over names that others stored twice behind the creation of the table.   *)
Collides(w) ==
    \/ Batch(w) \cap objs # {}
    \/ "ix_tasks_name" \in Batch(w) /\ copies > 1

CreateAll(w) ==
    /\ engine[w] = "creating" /\ todo[w] # {}
    /\ Unblocked(Batch(w)) /\ ~Collides(w)
    /\ objs' = objs \cup Batch(w)
    /\ early' = (early \/ Batch(w) \cap Chain # {})
    /\ todo' = [todo EXCEPT ![w] = @ \ Batch(w)]
    /\ UNCHANGED <<database, ver, mig, engine, ready, seeded, copies, failures, downgrades>>

(* The first access raises -- a table was created in the meantime, or the  *)
(* connection is lost -- and the engine stays cached as it is: no later    *)
(* access tries again.  The probe, which comes before any request is sent  *)
(* to the worker, answers 503.                                             *)
Spoil(w) ==
    /\ engine' = [engine EXCEPT ![w] = "half"]
    /\ todo' = [todo EXCEPT ![w] = {}]
    /\ ready' = [ready EXCEPT ![w] = 503]
    /\ UNCHANGED <<database, objs, ver, mig, early, seeded, copies, downgrades>>

CollisionIgnored(w) ==                      \* faulty variant: takes the rest for created
    /\ engine[w] = "creating" /\ todo[w] # {}
    /\ Unblocked(Batch(w)) /\ Collides(w)
    /\ todo' = [todo EXCEPT ![w] = {}]
    /\ UNCHANGED <<database, objs, ver, mig, engine, ready, early, seeded, copies, failures, downgrades>>
CollisionRetried(w) ==                      \* faulty variant: tries the same table again
    /\ engine[w] = "creating" /\ todo[w] # {}
    /\ Unblocked(Batch(w)) /\ Collides(w)
    /\ ready' = [ready EXCEPT ![w] = 503]
    /\ UNCHANGED <<database, objs, ver, mig, engine, todo, early, seeded, copies, failures, downgrades>>
CreateCollides(w) ==
    /\ engine[w] = "creating" /\ todo[w] # {}
    /\ Unblocked(Batch(w)) /\ Collides(w)
    /\ Spoil(w) /\ UNCHANGED failures

AccessFails(w) ==
    /\ engine[w] \in {"none", "creating"} /\ failures < MaxFailures
    /\ failures' = failures + 1
    /\ Spoil(w)

RelaxForgotten(w) ==                        \* faulty variant: the index is kept
    /\ engine[w] = "creating" /\ todo[w] = {}
    /\ engine' = [engine EXCEPT ![w] = "built"]
    /\ UNCHANGED <<database, objs, ver, mig, todo, ready, early, seeded, copies, failures, downgrades>>
(* _relax_orm_constraints.                                                 *)
Relax(w) ==
    /\ engine[w] = "creating" /\ todo[w] = {}
    /\ "ix_tasks_name" \in objs => Unblocked({"tasks", "ix_tasks_name"})
    /\ objs' = objs \ {"ix_tasks_name"}
    /\ engine' = [engine EXCEPT ![w] = "built"]
    /\ UNCHANGED <<database, ver, mig, todo, ready, early, seeded, copies, failures, downgrades>>

FailsOpen(v) == v # 1 /\ v # 2              \* faulty variant: no version is no drift
is_migration_at_head(v) == v = alembic_head

(* /readyz behind the first access: the ping answers, then the version.    *)
Readyz(w) ==
    /\ engine[w] \in {"built", "half"}
    /\ ready' = [ready EXCEPT ![w] = IF is_migration_at_head(ver) THEN 200 ELSE 503]
    /\ UNCHANGED <<database, objs, ver, mig, engine, todo, early, seeded, copies, failures, downgrades>>

Restart(w) ==
    /\ engine[w] # "none" /\ failures < MaxFailures
    /\ failures' = failures + 1
    /\ engine' = [engine EXCEPT ![w] = "none"]
    /\ todo' = [todo EXCEPT ![w] = {}]
    /\ ready' = [ready EXCEPT ![w] = 0]
    /\ seeded' = [seeded EXCEPT ![w] = FALSE]
    /\ UNCHANGED <<database, objs, ver, mig, early, copies, downgrades>>

(* A task request: TaskRepository() stores the seeds first, unless the     *)
(* process has done so.  They go in together or not at all: a seed whose   *)
(* name is taken under a unique index, or a table that is not there, fails *)
(* the request, which changes nothing here, and the next one tries again.  *)
(* The request gets that far when the key and the bucket could be read     *)
(* before; a migration that has touched one of the tables, or one that     *)
(* refers to tasks, holds a lock.                                          *)
UniqueNames == {"ix_tasks_name", "uq_tasks_name"} \cap objs # {}
TasksServed ==
    /\ {"api_keys", "rate_buckets", "tasks"} \subseteq objs
    /\ Unblocked({"api_keys", "tasks", "task_tags", "task_results",
                  "ix_tasks_name", "uq_tasks_name"})

Seed(w) ==
    /\ engine[w] \in {"built", "half"} /\ ~seeded[w]
    /\ TasksServed
    /\ UniqueNames => copies = 0
    /\ copies' = copies + 1
    /\ seeded' = [seeded EXCEPT ![w] = TRUE]
    /\ UNCHANGED <<database, objs, ver, mig, engine, todo, ready, early, failures, downgrades>>

(* The clients of a worker that serves delete seeds.                       *)
DeleteSeeds(w) ==
    /\ engine[w] \in {"built", "half"} /\ seeded[w]
    /\ TasksServed
    /\ copies > 0 /\ copies' \in 0..(copies - 1)
    /\ UNCHANGED <<database, objs, ver, mig, workers, failures, downgrades>>

-----------------------------------------------------------------------------
Migrating == Statement \/ Stamp \/ Refused
Access(w) == FirstAccess(w) \/ CreateAll(w) \/ CreateCollides(w) \/ Relax(w)

Next ==
    \/ Upgrade \/ Downgrade \/ Migrating \/ CommandFails
    \/ \E w \in Workers : Access(w) \/ AccessFails(w) \/ Readyz(w) \/ Restart(w)
                          \/ Seed(w) \/ DeleteSeeds(w)

Spec == Init /\ [][Next]_vars

(* A command that runs goes on, the operator upgrades until it worked, and *)
(* get_engine goes on to its end: one that waits for a lock is the next to *)
(* get it, so a series of migrations does not keep it for ever.  Every     *)
(* worker gets task requests again and again.                              *)
FairSpec ==
    /\ Spec /\ WF_vars(Migrating) /\ WF_vars(Upgrade)
    /\ SF_vars(\E w \in Workers : Access(w))
    /\ \A w \in Workers : WF_vars(Seed(w))

-----------------------------------------------------------------------------
(* The values of the variables; what a command has made and dropped stands *)
(* against what is committed, which nobody changes under its locks; only a *)
(* first access in progress has tables to create.                          *)
TypeOK ==
    /\ database \in Databases
    /\ objs \subseteq Objects /\ ver \in 0..alembic_head
    /\ mig \in [op : {"none", "up", "down"}, goal : 0..alembic_head, at : 0..alembic_head,
                left : Seq(Chain), made : SUBSET Chain, dropped : SUBSET Objects]
    /\ mig.made \cap objs = {} /\ mig.dropped \subseteq objs
    /\ engine \in [Workers -> {"none", "creating", "half", "built"}]
    /\ todo \in [Workers -> SUBSET Orm]
    /\ \A w \in Workers : todo[w] # {} => engine[w] = "creating"
    /\ ready \in [Workers -> {0, 200, 503}]
    /\ early \in BOOLEAN /\ seeded \in [Workers -> BOOLEAN]
    /\ copies \in Nat /\ ("tasks" \notin objs => copies = 0)
    /\ failures \in 0..MaxFailures /\ downgrades \in 0..MaxDowngrades

(* Where DDL is transactional, a worker that is told to serve finds every  *)
(* table of the head revision, however migrations, first accesses of other *)
(* workers and failures mixed before -- also a worker whose own first      *)
(* access failed.  (AC-9.4: /readyz fails closed.)                         *)
ReadyMeansMigrated ==
    [][\A w \in Workers :
         TransactionalDdl /\ ready'[w] = 200 /\ ready[w] # 200
           => Chain \subseteq objs']_vars

(* Nothing but create_all makes rate_buckets: it is there once any first   *)
(* access went through, and no downgrade takes it.                         *)
BuiltMeansBuckets ==
    \A w \in Workers : engine[w] = "built" => "rate_buckets" \in objs

(* On PostgreSQL the unique index that create_all makes always has a       *)
(* worker that is about to drop it: a worker that lost the race for the    *)
(* tables gives up, but never behind an index of its own.  Only a failure  *)
(* between the two calls leaves the index, and names unique.               *)
NamesRelaxed ==
    TransactionalDdl /\ failures = 0 /\ "ix_tasks_name" \in objs
        => \E w \in Workers : engine[w] = "creating" /\ todo[w] = {}

(* Where DDL is transactional, the version is true: the database holds     *)
(* every object of the version it names, and of a later one only tables    *)
(* that create_all makes -- none of these, where it never made any.        *)
SchemaMatchesVersion ==
    TransactionalDdl =>
        LET ahead == (objs \cap Chain) \ Upto(ver)
        IN  /\ Upto(ver) \subseteq objs
            /\ ahead \subseteq OrmTables
            /\ ~early => ahead = {}

(* Without a create_all ahead of it, and without seeds that were stored    *)
(* twice while a downgrade had taken the index, the operator gets the      *)
(* schema to its head and, having no downgrade left, keeps it there.       *)
HeadReached ==
    TransactionalDdl => <>[](ver = alembic_head) \/ <>early \/ <>(copies > 1)

(* A worker whose first access went through and which /readyz lets serve   *)
(* does serve: its task requests are not refused for ever.                 *)
ReadyServes ==
    \A w \in Workers : ready[w] = 200 /\ engine[w] = "built" ~> seeded[w]

(* First accesses end: create_all never waits for ever behind a migration  *)
(* and two of them never hold each other up.                               *)
AccessEnds == []<>(\A w \in Workers : engine[w] # "creating")
=============================================================================
