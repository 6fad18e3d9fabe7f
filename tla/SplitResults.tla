---------------------------- MODULE SplitResults ----------------------------
(***************************************************************************)
(* Revision v3 of the schema (migrations/versions/v3_split_results.py) and *)
(* the alembic run that executes it (migrations/env.py): the upgrade moves *)
(* the results kept as JSON in tasks.result_json to rows of task_results,  *)
(* the downgrade merges them back.  An operator goes up and down, any step *)
(* may fail, and results are written while the head revision is in place.  *)
(*                                                                         *)
(* A result is a value (exit code, tails and duration together) and where  *)
(* its finish time comes from: its own, the creation of its task, or none. *)
(* The migration reads tables without an ORDER BY and nobody reads the     *)
(* order of what it writes, so the results of a task are counted: of every *)
(* value, how many there are with each kind of finish time.                *)
(*                                                                         *)
(* Two databases are supported and differ in what a transaction covers.    *)
(* PostgreSQL runs DDL inside it.  SQLite, driven by Python's sqlite3 in   *)
(* its default mode, opens a transaction at the first INSERT or UPDATE: a  *)
(* DDL statement before that is committed at once.                         *)
(***************************************************************************)
EXTENDS Integers

CONSTANTS Tasks,          \* the tasks stored, none of them deleted here
          Values,         \* what a result says, its finish time apart
          Databases,      \* the databases the run is made for
          MaxWrites,      \* bound: results written at v3
          MaxDowngrades,  \* bound: times the operator goes down
          MaxFailures     \* bound: statements that fail or processes that die

ASSUME SplitConstants ==
    /\ Tasks # {} /\ Values # {}
    /\ Databases # {} /\ Databases \subseteq {"postgres", "sqlite"}
    /\ MaxWrites \in Nat /\ MaxDowngrades \in Nat /\ MaxFailures \in Nat

VARIABLES
    database,  \* the one TASKQ_DB_URL names
    disk,      \* the committed database: revision, schema and contents
    view,      \* the database as alembic's connection sees it
    open,      \* a transaction is open on that connection
    mig,       \* the migration: its direction, next statement, and what it has
               \* read and not yet written
    ledger,    \* the results recorded so far of each task, for the properties
    failures, downgrades, writes

vars == <<database, disk, view, open, mig, ledger, failures, downgrades, writes>>

Finish  == {"own", "created", "missing"}
Counts  == [Values -> [Finish -> Nat]]
Nothing == [v \in Values |-> [f \in Finish |-> 0]]
One(v, f) == [Nothing EXCEPT ![v][f] = 1]
NoRows  == [t \in Tasks |-> Nothing]

Idle   == [op |-> "none", pc |-> "idle", queue |-> NoRows]
NoJson == [text |-> "null", runs |-> Nothing]

\* What a column of the previous releases holds: nothing, text that is no
\* JSON object, or one result whose finish time may be absent.
Legacy == {NoJson, [text |-> "malformed", runs |-> Nothing]}
            \cup {[text |-> "object", runs |-> One(v, f)] :
                    v \in Values, f \in {"own", "missing"}}

\* Faulty variant: an absent finish time is left absent.
DatedNot(c) == c

\* A finish time that is absent is taken from the creation of the task.
Dated(c) ==
    [v \in Values |->
        [f \in Finish |-> IF f = "own" THEN c[v]["own"]
                          ELSE IF f = "created" THEN c[v]["created"] + c[v]["missing"]
                          ELSE 0]]

\* Faulty variant: the array of a merged payload is not looked at.
SplitSingle(p) == IF p.text = "object" THEN Dated(p.runs) ELSE Nothing

\* The results json_loads_safe and the split of "runs" read from a payload.
Split(p) == IF p.text \in {"object", "runs"} THEN Dated(p.runs) ELSE Nothing

\* The payload the downgrade writes for the results of a task.
Merge(c) ==
    [text |-> IF \E v \in Values, f \in Finish : c = One(v, f)
              THEN "object" ELSE "runs",
     runs |-> c]

Init ==
    \E legacy \in [Tasks -> Legacy] :
        /\ database \in Databases
        /\ disk = [rev |-> "v2", column |-> TRUE, table |-> FALSE,
                   payload |-> legacy, rows |-> NoRows]
        /\ view = disk /\ open = FALSE /\ mig = Idle
        /\ ledger = [t \in Tasks |-> legacy[t].runs]
        /\ failures = 0 /\ downgrades = 0 /\ writes = 0

-----------------------------------------------------------------------------
\* Faulty variant: alembic's connection commits each DDL statement.
DdlCommits(db) == view' = db /\ disk' = db /\ open' = FALSE

TransactionalDdl == database = "postgres"

\* A DDL statement stays in the transaction when there is one.
Ddl(db) ==
    /\ view' = db
    /\ IF TransactionalDdl \/ open
       THEN open' = TRUE /\ UNCHANGED disk
       ELSE disk' = db /\ UNCHANGED open

\* An INSERT or UPDATE opens a transaction if there is none.
Dml(db) == view' = db /\ open' = TRUE /\ UNCHANGED disk

Rollback == view' = disk /\ open' = FALSE /\ mig' = Idle /\ UNCHANGED disk

At(op, pc)  == mig.op = op /\ mig.pc = pc
GoTo(pc)    == mig' = [mig EXCEPT !.pc = pc]
Bookkeeping == UNCHANGED <<database, ledger, failures, downgrades, writes>>

\* alembic upgrade head, at v2.
StartUpgrade ==
    /\ mig = Idle /\ disk.rev = "v2"
    /\ mig' = [Idle EXCEPT !.op = "up", !.pc = "schema"]
    /\ UNCHANGED <<disk, view, open>> /\ Bookkeeping

CreateTable ==
    /\ At("up", "schema") /\ ~view.table
    /\ Ddl([view EXCEPT !.table = TRUE])
    /\ GoTo("read") /\ Bookkeeping

\* The SELECT over tasks, and the rows it will lead to.
ReadPayloads ==
    /\ At("up", "read")
    /\ mig' = [mig EXCEPT !.pc = "write",
                          !.queue = [t \in Tasks |-> Split(view.payload[t])]]
    /\ UNCHANGED <<disk, view, open>> /\ Bookkeeping

\* One INSERT per result, in any order.
InsertRow ==
    /\ At("up", "write")
    /\ \E t \in Tasks, v \in Values, f \in Finish :
           /\ mig.queue[t][v][f] > 0
           /\ Dml([view EXCEPT !.rows[t][v][f] = @ + 1])
           /\ mig' = [mig EXCEPT !.queue[t][v][f] = @ - 1]
    /\ Bookkeeping

DropColumn ==
    /\ At("up", "write") /\ mig.queue = NoRows
    /\ Ddl([view EXCEPT !.column = FALSE, !.payload = [t \in Tasks |-> NoJson]])
    /\ GoTo("stamp") /\ Bookkeeping

\* alembic downgrade -1, at v3.
StartDowngrade ==
    /\ mig = Idle /\ disk.rev = "v3" /\ downgrades < MaxDowngrades
    /\ mig' = [Idle EXCEPT !.op = "down", !.pc = "schema"]
    /\ downgrades' = downgrades + 1
    /\ UNCHANGED <<database, disk, view, open, ledger, failures, writes>>

AddColumn ==
    /\ At("down", "schema") /\ ~view.column
    /\ Ddl([view EXCEPT !.column = TRUE])
    /\ GoTo("read") /\ Bookkeeping

\* The SELECT over task_results, grouped by task.
ReadRows ==
    /\ At("down", "read")
    /\ mig' = [mig EXCEPT !.pc = "write", !.queue = view.rows]
    /\ UNCHANGED <<disk, view, open>> /\ Bookkeeping

\* One UPDATE per task that has rows, in any order.
UpdateTask ==
    /\ At("down", "write")
    /\ \E t \in Tasks :
           /\ mig.queue[t] # Nothing
           /\ Dml([view EXCEPT !.payload[t] = Merge(mig.queue[t])])
           /\ mig' = [mig EXCEPT !.queue[t] = Nothing]
    /\ Bookkeeping

\* Faulty variant: the downgrade copies the rows back and leaves the table.
DropTableForgotten ==
    /\ At("down", "write") /\ mig.queue = NoRows
    /\ GoTo("stamp") /\ UNCHANGED <<disk, view, open>> /\ Bookkeeping

DropTable ==
    /\ At("down", "write") /\ mig.queue = NoRows
    /\ Ddl([view EXCEPT !.table = FALSE, !.rows = NoRows])
    /\ GoTo("stamp") /\ Bookkeeping

\* alembic_version is updated and the transaction of env.py committed.
Stamp ==
    /\ mig.pc = "stamp"
    /\ view' = [view EXCEPT !.rev = IF mig.op = "up" THEN "v3" ELSE "v2"]
    /\ disk' = view' /\ open' = FALSE /\ mig' = Idle /\ Bookkeeping

\* CREATE TABLE or ADD COLUMN meets what is already there and is refused.
Refused ==
    /\ \/ At("up", "schema") /\ view.table
       \/ At("down", "schema") /\ view.column
    /\ Rollback /\ Bookkeeping

\* A statement or a conversion raises, or the process dies.
Fail ==
    /\ mig # Idle /\ failures < MaxFailures
    /\ failures' = failures + 1
    /\ Rollback /\ UNCHANGED <<database, ledger, downgrades, writes>>

\* At v3 a result is inserted without an id, as the column allows.
WriteSample ==
    /\ mig = Idle /\ disk.rev = "v3" /\ disk.table /\ writes < MaxWrites
    /\ \E t \in Tasks, v \in Values :
           /\ disk' = [disk EXCEPT !.rows[t][v]["own"] = @ + 1]
           /\ ledger' = [ledger EXCEPT ![t][v]["own"] = @ + 1]
    /\ view' = disk' /\ writes' = writes + 1
    /\ UNCHANGED <<database, open, mig, failures, downgrades>>

Upgrading   == CreateTable \/ ReadPayloads \/ InsertRow \/ DropColumn
Downgrading == AddColumn \/ ReadRows \/ UpdateTask \/ DropTable
Migrating   == Upgrading \/ Downgrading \/ Stamp \/ Refused

Next == StartUpgrade \/ StartDowngrade \/ Migrating \/ Fail \/ WriteSample

Spec == Init /\ [][Next]_vars

\* A migration that started runs on, and an operator whose upgrade failed
\* runs it again.
FairSpec == Spec /\ WF_vars(Migrating) /\ WF_vars(StartUpgrade)
-----------------------------------------------------------------------------
Contents ==
    [rev : {"v2", "v3"}, column : BOOLEAN, table : BOOLEAN,
     payload : [Tasks -> [text : {"null", "malformed", "object", "runs"}, runs : Counts]],
     rows : [Tasks -> Counts]]

\* The variables keep their types; a stored row has a finish time
\* (task_results.finished_at is NOT NULL) and without a transaction the
\* connection sees what is committed.
TypeOK ==
    /\ database \in Databases
    /\ disk \in Contents /\ view \in Contents
    /\ \A t \in Tasks, v \in Values : view.rows[t][v]["missing"] = 0
    /\ open \in BOOLEAN /\ (~open => view = disk)
    /\ mig \in [op : {"none", "up", "down"}, queue : [Tasks -> Counts],
                pc : {"idle", "schema", "read", "write", "stamp"}]
    /\ ledger \in [Tasks -> Counts]
    /\ failures \in 0 .. MaxFailures /\ downgrades \in 0 .. MaxDowngrades
    /\ writes \in 0 .. MaxWrites

\* The results of a task that the stored revision keeps.
Found(t) == IF disk.rev = "v3" THEN disk.rows[t] ELSE disk.payload[t].runs

\* The same results: one that was recorded without a finish time bears the
\* creation of its task once it was migrated.
SameResults(a, b) ==
    \A v \in Values :
        /\ a[v]["own"] = b[v]["own"]
        /\ a[v]["created"] + a[v]["missing"] = b[v]["created"] + b[v]["missing"]

\* Whatever was migrated, in whichever direction, and wherever a migration
\* failed, the revision that alembic_version names holds every result ever
\* recorded, as many times as it was recorded, with its values unchanged
\* (v3_split_results.py upgrade and downgrade, AC-7.5).
ResultsSurvive == \A t \in Tasks : SameResults(Found(t), ledger[t])

\* Where DDL is transactional, the committed schema is at every moment the
\* one of the revision that alembic_version names: a migration shows itself
\* whole or not at all (the one transaction of env.py run_migrations_online).
SchemaMatchesRevision ==
    TransactionalDdl =>
        /\ disk.table = (disk.rev = "v3")
        /\ disk.column = (disk.rev = "v2")

\* There, an operator who runs the upgrade until it succeeds reaches the
\* head and, having no downgrade left, stays there (revision chain of v3).
HeadReached == TransactionalDdl => <>[](disk.rev = "v3")
=============================================================================
