-------------------------- MODULE DeploymentProofs --------------------------
(* Theorems about Deployment, for every set of workers and every bound.    *)
EXTENDS Deployment, TLAPS, SequenceTheorems

Elements(s) == {s[i] : i \in DOMAIN s}

(***************************************************************************)
(* The chain.                                                              *)
(***************************************************************************)
LEMMA MadeSets ==
    /\ Made(1) = {"tasks", "api_keys"}
    /\ Made(2) = {"tags", "task_tags", "uq_tasks_name"}
    /\ Made(3) = {"task_results"}
BY DEF Made, Creates

LEMMA UptoSets ==
    /\ Upto(0) = {}
    /\ Upto(1) = Made(1)
    /\ Upto(2) = Made(1) \cup Made(2)
    /\ Upto(3) = Chain
<1>1. Upto(0) = {}
  BY DEF Upto
<1>2. 1..1 = {1} /\ 1..2 = {1, 2} /\ 1..3 = {1, 2, 3}
  OBVIOUS
<1>3. QED
  BY <1>1, <1>2, MadeSets DEF Upto, Chain

LEMMA StatementSets ==
    ASSUME NEW at \in 0..3
    PROVE  /\ at < 3 => /\ Statements("up", at) \in Seq(Chain)
                        /\ Elements(Statements("up", at)) = Made(at + 1)
           /\ at > 0 => /\ Statements("down", at) \in Seq(Chain)
                        /\ Elements(Statements("down", at)) = Made(at)
<1>1. CASE at = 0
  BY <1>1, MadeSets DEF Statements, Elements, Creates, Made, Chain
<1>2. CASE at = 1
  BY <1>2, MadeSets DEF Statements, Elements, Creates, Made, Chain, Backwards
<1>3. CASE at = 2
  BY <1>3, MadeSets DEF Statements, Elements, Creates, Made, Chain, Backwards
<1>4. CASE at = 3
  BY <1>4, MadeSets DEF Statements, Elements, Creates, Made, Chain, Backwards
<1>5. QED
  BY <1>1, <1>2, <1>3, <1>4

LEMMA FirstOfRest ==
    ASSUME NEW S, NEW s \in Seq(S), s # <<>>
    PROVE  /\ Head(s) \in S /\ Tail(s) \in Seq(S)
           /\ Elements(s) = {Head(s)} \cup Elements(Tail(s))
<1>1. Head(s) \in S /\ Tail(s) \in Seq(S) /\ Len(s) > 0
  OBVIOUS
<1>2. Len(Tail(s)) = Len(s) - 1 /\ \A i \in 1..Len(Tail(s)) : Tail(s)[i] = s[i + 1]
  BY <1>1
<1>3. Elements(s) \subseteq {Head(s)} \cup Elements(Tail(s))
  <2> SUFFICES ASSUME NEW i \in 1..Len(s), i # 1
               PROVE  s[i] \in Elements(Tail(s))
    BY <1>1 DEF Elements
  <2>1. i - 1 \in 1..Len(Tail(s)) /\ Tail(s)[i - 1] = s[i]
    BY <1>1, <1>2
  <2>2. QED
    <3>1. DOMAIN Tail(s) = 1..Len(Tail(s))
      BY <1>1
    <3>2. QED
      BY <2>1, <3>1 DEF Elements
<1>4. Elements(Tail(s)) \subseteq Elements(s)
  <2> SUFFICES ASSUME NEW i \in 1..Len(Tail(s))
               PROVE  Tail(s)[i] \in Elements(s)
    BY <1>1 DEF Elements
  <2>1. Tail(s)[i] = s[i + 1] /\ i + 1 \in 1..Len(s)
    BY <1>1, <1>2
  <2>2. QED
    BY <1>1, <2>1 DEF Elements
<1>5. Head(s) \in Elements(s)
  BY <1>1 DEF Elements
<1>6. QED
  BY <1>1, <1>3, <1>4, <1>5

(***************************************************************************)
(* The command in progress.                                                *)
(***************************************************************************)
Commands == [op : {"none", "up", "down"}, goal : 0..alembic_head, at : 0..alembic_head,
             left : Seq(Chain), made : SUBSET Chain, dropped : SUBSET Objects]

CommandOK ==
    /\ mig.op = "none" => mig = NoCommand
    /\ mig.op = "up" => mig.at < mig.goal
    /\ mig.op = "down" => mig.goal < mig.at
    /\ "rate_buckets" \notin mig.dropped
    /\ ~TransactionalDdl => mig.made = {} /\ mig.dropped = {}

Inv == TypeOK /\ CommandOK

LEMMA InitInv == Init => Inv
<1> SUFFICES ASSUME Init PROVE Inv
  OBVIOUS
<1>1. NoCommand \in Commands
  BY DEF NoCommand, alembic_head, Commands
<1>2. failures \in 0..MaxFailures /\ downgrades \in 0..MaxDowngrades
  BY BoundsAssumption DEF Init
<1>3. early \in BOOLEAN
  BY DEF Init
<1>4. QED
  BY <1>1, <1>2, <1>3 DEF Init, Inv, TypeOK, CommandOK, NoCommand, alembic_head, Commands

LEMMA UpgradeInv == ASSUME Inv, Upgrade PROVE Inv'
<1>1. ver \in 0..2 /\ ver \in 0..3 /\ ver < 3
  BY DEF Inv, TypeOK, Upgrade, alembic_head
<1>2. Statements("up", ver) \in Seq(Chain)
  BY <1>1, StatementSets
<1>3. /\ mig' \in Commands /\ mig'.op = "up" /\ mig'.at < mig'.goal
      /\ mig'.made = {} /\ mig'.dropped = {}
  <2>1. mig' = [op |-> "up", goal |-> 3, at |-> ver, left |-> Statements("up", ver),
                made |-> {}, dropped |-> {}]
    BY DEF Upgrade, NoCommand, alembic_head
  <2>2. QED
    BY <1>1, <1>2, <2>1 DEF Commands, alembic_head
<1>4. QED
  BY <1>3 DEF Inv, TypeOK, CommandOK, Upgrade, Commands, workers, TransactionalDdl

LEMMA DowngradeInv == ASSUME Inv, Downgrade PROVE Inv'
<1>1. ver \in 0..3 /\ ver > 0
  BY DEF Inv, TypeOK, Downgrade, alembic_head
<1>2. Statements("down", ver) \in Seq(Chain)
  BY <1>1, StatementSets
<1>3. downgrades' \in 0..MaxDowngrades
  BY BoundsAssumption DEF Inv, TypeOK, Downgrade
<1>4. /\ mig' \in Commands /\ mig'.op = "down" /\ mig'.goal < mig'.at
      /\ mig'.made = {} /\ mig'.dropped = {}
  <2>1. PICK goal \in 0..(ver - 1) :
          mig' = [NoCommand EXCEPT !.op = "down", !.goal = goal, !.at = ver,
                                   !.left = Statements("down", ver)]
    BY DEF Downgrade
  <2>2. goal \in 0..3 /\ goal < ver
    BY <1>1
  <2>3. QED
    BY <1>1, <1>2, <2>1, <2>2 DEF NoCommand, Commands, alembic_head
<1>5. QED
  BY <1>3, <1>4 DEF Inv, TypeOK, CommandOK, Downgrade, Commands, workers, TransactionalDdl

(* The copies a command leaves: as many as there were, or none.            *)
LEMMA LeftOver ==
    ASSUME TypeOK, NEW xs
    PROVE  Left(xs) \in Nat /\ ("tasks" \notin xs => Left(xs) = 0)
BY DEF TypeOK, Left

(* The objects a statement leaves.                                         *)
New == IF mig.op = "up" THEN Seen \cup {Head(mig.left)} ELSE Seen \ Falling(Head(mig.left))

LEMMA NewObjects ==
    ASSUME Inv, Statement
    PROVE  /\ Head(mig.left) \in Chain /\ mig.left \in Seq(Chain) /\ mig.left # <<>>
           /\ New \subseteq Objects
           /\ New \ objs \subseteq Chain
           /\ "rate_buckets" \in objs => "rate_buckets" \in New
<1>1. Head(mig.left) \in Chain /\ mig.left \in Seq(Chain) /\ mig.left # <<>>
  BY DEF Inv, TypeOK, Statement
<1>2. QED
  BY <1>1 DEF Inv, TypeOK, CommandOK, New, Seen, Falling, Objects, Orm, OrmTables, Chain

LEMMA StatementInv == ASSUME Inv, Statement PROVE Inv'
<1>1. /\ Head(mig.left) \in Chain /\ mig.left \in Seq(Chain) /\ mig.left # <<>>
      /\ New \subseteq Objects /\ New \ objs \subseteq Chain
      /\ "rate_buckets" \in objs => "rate_buckets" \in New
  BY NewObjects
<1>2. Tail(mig.left) \in Seq(Chain)
  BY <1>1
<1>3. CASE TransactionalDdl
  <2>1. /\ mig' = [mig EXCEPT !.left = Tail(@), !.made = New \ objs, !.dropped = objs \ New]
        /\ objs' = objs
    BY <1>3 DEF Statement, New
  <2>2. mig' \in Commands
    BY <1>1, <1>2, <2>1 DEF Inv, TypeOK, Commands
  <2>3. QED
    BY <1>1, <1>3, <2>1, <2>2 DEF Inv, TypeOK, CommandOK, Commands, Statement, workers,
                                  TransactionalDdl
<1>4. CASE ~TransactionalDdl
  <2>1. objs' = New /\ copies' = Left(New) /\ mig' = [mig EXCEPT !.left = Tail(@)]
    BY <1>4 DEF Statement, New
  <2>2. copies' \in Nat /\ ("tasks" \notin New => copies' = 0)
    BY <2>1, LeftOver DEF Inv
  <2>3. QED
    BY <1>1, <1>2, <1>4, <2>1, <2>2 DEF Inv, TypeOK, CommandOK, Statement, workers,
                                  TransactionalDdl
<1>5. QED
  BY <1>3, <1>4

LEMMA StampInv == ASSUME Inv, Stamp PROVE Inv'
<1> DEFINE at == IF mig.op = "up" THEN mig.at + 1 ELSE mig.at - 1
<1>1. /\ mig.op \in {"up", "down"} /\ at \in 0..3
      /\ mig.op = "up" => mig.at < mig.goal
      /\ mig.op = "down" => mig.goal < mig.at
      /\ mig.at \in 0..3 /\ mig.goal \in 0..3
  BY DEF Inv, TypeOK, CommandOK, Stamp, alembic_head
<1>2. Seen \subseteq Objects
  BY DEF Inv, TypeOK, Seen, Objects
<1>3. CASE at = mig.goal
  <2>1. mig' = NoCommand /\ objs' = Seen /\ copies' = Left(Seen) /\ ver' = at
    BY <1>3 DEF Stamp
  <2>2. mig' \in Commands
    BY <2>1 DEF NoCommand, alembic_head, Commands
  <2>3. copies' \in Nat /\ ("tasks" \notin Seen => copies' = 0)
    BY <2>1, LeftOver DEF Inv
  <2>4. QED
    BY <1>1, <1>2, <2>1, <2>2, <2>3
       DEF Inv, TypeOK, CommandOK, Commands, Stamp, workers, NoCommand, alembic_head
<1>4. CASE at # mig.goal
  <2>1. /\ mig' = [mig EXCEPT !.at = at, !.left = Statements(mig.op, at)]
        /\ ver' \in {ver, at} /\ objs' = objs
    BY <1>4 DEF Stamp
  <2>2. Statements(mig.op, at) \in Seq(Chain)
    BY <1>1, <1>4, StatementSets
  <2>3. mig' \in Commands
    BY <1>1, <2>1, <2>2 DEF Inv, TypeOK, Commands, alembic_head
  <2>4. /\ mig'.op = mig.op /\ mig'.goal = mig.goal /\ mig'.at = at
        /\ mig'.made = mig.made /\ mig'.dropped = mig.dropped
    BY <2>1 DEF Inv, TypeOK
  <2>5. /\ mig.op = "up" => at < mig.goal
        /\ mig.op = "down" => mig.goal < at
    BY <1>1, <1>4
  <2>6. QED
    BY <1>1, <2>1, <2>3, <2>4, <2>5
       DEF Inv, TypeOK, CommandOK, Commands, Stamp, workers, alembic_head, TransactionalDdl
<1>5. QED
  BY <1>3, <1>4

LEMMA EndInv == ASSUME Inv, Refused \/ CommandFails PROVE Inv'
<1>1. NoCommand \in Commands /\ NoCommand.op = "none"
      /\ NoCommand.made = {} /\ NoCommand.dropped = {}
  BY DEF NoCommand, alembic_head, Commands
<1>2. mig' = NoCommand /\ failures' \in 0..MaxFailures
  BY BoundsAssumption DEF Refused, CommandFails, Inv, TypeOK
<1>3. QED
  BY <1>1, <1>2 DEF Inv, TypeOK, CommandOK, Commands, Refused, CommandFails, workers,
                    TransactionalDdl

(***************************************************************************)
(* The workers.                                                            *)
(***************************************************************************)
LEMMA BatchOfTodo ==
    ASSUME NEW w \in Workers, TypeOK
    PROVE  Batch(w) \subseteq todo[w] /\ todo[w] \subseteq Orm
BY DEF Batch, TypeOK

LEMMA FirstAccessInv == ASSUME Inv, NEW w \in Workers, FirstAccess(w) PROVE Inv'
BY DEF Inv, TypeOK, CommandOK, FirstAccess, TransactionalDdl, Orm

LEMMA CreateAllInv == ASSUME Inv, NEW w \in Workers, CreateAll(w) PROVE Inv'
<1>1. Batch(w) \subseteq Orm /\ Batch(w) \cap mig.made = {}
  BY BatchOfTodo DEF Inv, CreateAll, Unblocked
<1>2. early' \in BOOLEAN
  BY DEF CreateAll, Inv, TypeOK
<1>3. todo' \in [Workers -> SUBSET Orm]
      /\ \A v \in Workers : todo'[v] # {} => engine'[v] = "creating"
  BY DEF CreateAll, Inv, TypeOK
<1>4. QED
  BY <1>1, <1>2, <1>3 DEF Inv, TypeOK, CommandOK, CreateAll, TransactionalDdl, Objects

LEMMA SpoilInv ==
    ASSUME Inv, NEW w \in Workers, Spoil(w), failures' \in 0..MaxFailures
    PROVE  Inv'
BY DEF Inv, TypeOK, CommandOK, Spoil, TransactionalDdl

LEMMA RelaxInv == ASSUME Inv, NEW w \in Workers, Relax(w) PROVE Inv'
<1>1. mig.dropped \subseteq objs \ {"ix_tasks_name"}
  BY DEF Inv, TypeOK, Relax, Unblocked
<1>2. QED
  BY <1>1 DEF Inv, TypeOK, CommandOK, Relax, TransactionalDdl

LEMMA ReadyzInv == ASSUME Inv, NEW w \in Workers, Readyz(w) PROVE Inv'
BY DEF Inv, TypeOK, CommandOK, Readyz, TransactionalDdl

LEMMA RestartInv == ASSUME Inv, NEW w \in Workers, Restart(w) PROVE Inv'
<1>1. failures' \in 0..MaxFailures
  BY BoundsAssumption DEF Inv, TypeOK, Restart
<1>2. QED
  BY <1>1 DEF Inv, TypeOK, CommandOK, Restart, TransactionalDdl

LEMMA SeedsInv ==
    ASSUME Inv, NEW w \in Workers, Seed(w) \/ DeleteSeeds(w)
    PROVE  Inv'
<1>1. copies' \in Nat /\ "tasks" \in objs
  BY DEF Inv, TypeOK, Seed, DeleteSeeds, TasksServed
<1>2. seeded' \in [Workers -> BOOLEAN]
  BY DEF Inv, TypeOK, Seed, DeleteSeeds, workers
<1>3. QED
  BY <1>1, <1>2 DEF Inv, TypeOK, CommandOK, Seed, DeleteSeeds, workers, TransactionalDdl

LEMMA NextInv == Inv /\ [Next]_vars => Inv'
<1> SUFFICES ASSUME Inv, [Next]_vars PROVE Inv'
  OBVIOUS
<1>1. CASE Upgrade \/ Downgrade
  BY <1>1, UpgradeInv, DowngradeInv
<1>2. CASE Migrating \/ CommandFails
  BY <1>2, StatementInv, StampInv, EndInv DEF Migrating
<1>3. CASE \E w \in Workers : Access(w)
  <2> PICK w \in Workers : Access(w)
    BY <1>3
  <2>1. CASE CreateCollides(w)
    <3>1. Spoil(w) /\ failures' \in 0..MaxFailures
      BY <2>1 DEF CreateCollides, Inv, TypeOK
    <3>2. QED
      BY <3>1, SpoilInv
  <2>2. CASE FirstAccess(w) \/ CreateAll(w) \/ Relax(w)
    BY <2>2, FirstAccessInv, CreateAllInv, RelaxInv
  <2>3. QED
    BY <2>1, <2>2 DEF Access
<1>4. CASE \E w \in Workers : AccessFails(w) \/ Readyz(w) \/ Restart(w)
                             \/ Seed(w) \/ DeleteSeeds(w)
  <2> PICK w \in Workers : AccessFails(w) \/ Readyz(w) \/ Restart(w)
                             \/ Seed(w) \/ DeleteSeeds(w)
    BY <1>4
  <2>1. CASE AccessFails(w)
    <3>1. Spoil(w) /\ failures' \in 0..MaxFailures
      BY <2>1, BoundsAssumption DEF AccessFails, Inv, TypeOK
    <3>2. QED
      BY <3>1, SpoilInv
  <2>2. CASE Readyz(w) \/ Restart(w) \/ Seed(w) \/ DeleteSeeds(w)
    BY <2>2, ReadyzInv, RestartInv, SeedsInv
  <2>3. QED
    BY <2>1, <2>2
<1>5. CASE UNCHANGED vars
  BY <1>5 DEF vars, workers, Inv, TypeOK, CommandOK, TransactionalDdl
<1>6. QED
  BY <1>1, <1>2, <1>3, <1>4, <1>5 DEF Next

LEMMA Invariance == Spec => []Inv
<1>1. QED
  BY InitInv, NextInv, PTL DEF Spec

(* The variables keep their types; what an open migration has made or      *)
(* dropped is not changed under it by any worker (session.py, env.py).     *)
THEOREM DeploymentTyped == Spec => []TypeOK
<1>1. Inv => TypeOK
  BY DEF Inv
<1>2. QED
  BY Invariance, <1>1, PTL

(***************************************************************************)
(* rate_buckets is there for every worker whose first access went through. *)
(***************************************************************************)
Buckets ==
    \A w \in Workers :
        \/ engine[w] = "built"
        \/ engine[w] = "creating" /\ "rate_buckets" \notin todo[w]
        => "rate_buckets" \in objs

LEMMA BucketsStay == ASSUME Inv, [Next]_vars, "rate_buckets" \in objs PROVE "rate_buckets" \in objs'
<1>1. CASE Statement
  <2>1. "rate_buckets" \in New /\ objs' \in {objs, New}
    BY <1>1, NewObjects DEF Statement, New
  <2>2. QED
    BY <2>1
<1>2. CASE Stamp
  BY <1>2 DEF Stamp, Seen, Inv, CommandOK
<1>3. CASE ~(Statement \/ Stamp)
  BY <1>3 DEF Next, Upgrade, Downgrade, Migrating, Refused, CommandFails, Access, FirstAccess,
       CreateAll, CreateCollides, Spoil, Relax, AccessFails, Readyz, Restart, Seed,
       DeleteSeeds, workers, vars
<1>4. QED
  BY <1>1, <1>2, <1>3

LEMMA BucketsStep == Inv /\ Buckets /\ [Next]_vars => Buckets'
<1> SUFFICES ASSUME Inv, Buckets, [Next]_vars, NEW v \in Workers,
                    \/ engine'[v] = "built"
                    \/ engine'[v] = "creating" /\ "rate_buckets" \notin todo'[v]
             PROVE  "rate_buckets" \in objs'
  BY DEF Buckets
<1>1. CASE UNCHANGED <<engine, todo>>
  BY <1>1, BucketsStay DEF Buckets
<1>2. CASE \E w \in Workers : FirstAccess(w)
  <2> PICK w \in Workers : FirstAccess(w)
    BY <1>2
  <2>1. "rate_buckets" \in Orm
    BY DEF Orm, OrmTables
  <2>2. QED
    BY <2>1, BucketsStay DEF FirstAccess, Buckets, Inv, TypeOK
<1>3. CASE \E w \in Workers : CreateAll(w)
  BY <1>3, BucketsStay DEF CreateAll, Buckets, Inv, TypeOK
<1>4. CASE \E w \in Workers : Relax(w)
  BY <1>4, BucketsStay DEF Relax, Buckets, Inv, TypeOK
<1>5. CASE \E w \in Workers : Spoil(w) \/ Restart(w)
  BY <1>5, BucketsStay DEF Spoil, Restart, Buckets, Inv, TypeOK
<1>6. QED
  BY <1>1, <1>2, <1>3, <1>4, <1>5
     DEF Next, Upgrade, Downgrade, Migrating, Statement, Stamp, Refused, CommandFails, workers,
         Access, CreateCollides, AccessFails, Readyz, Seed, DeleteSeeds, vars

(* A worker whose first access went through has its rate_buckets table,    *)
(* whatever collided before and whatever is downgraded later.              *)
THEOREM BuiltWorkersHaveBuckets == Spec => []BuiltMeansBuckets
<1>1. Init => Buckets
  BY DEF Init, Buckets
<1>2. Buckets => BuiltMeansBuckets
  BY DEF Buckets, BuiltMeansBuckets
<1>3. QED
  BY Invariance, BucketsStep, <1>1, <1>2, PTL DEF Spec

(***************************************************************************)
(* An index that create_all made has a worker that will drop it.           *)
(***************************************************************************)
LEMMA IndexIsCreated ==
    ASSUME Inv, [Next]_vars, "ix_tasks_name" \in objs', "ix_tasks_name" \notin objs
    PROVE  \E w \in Workers : CreateAll(w)
<1>1. ~Statement
  <2> SUFFICES ASSUME Statement PROVE FALSE
    OBVIOUS
  <2>1. New \ objs \subseteq Chain /\ objs' \in {objs, New}
    BY NewObjects DEF Statement, New
  <2>2. QED
    BY <2>1 DEF Chain
<1>2. ~Stamp
  BY DEF Stamp, Seen, Inv, TypeOK, Chain
<1>3. QED
  BY <1>1, <1>2 DEF Next, Upgrade, Downgrade, Migrating, Refused, CommandFails, Access, FirstAccess,
       CreateCollides, Spoil, Relax, AccessFails, Readyz, Restart, Seed, DeleteSeeds, workers, vars

LEMMA NamesStep == Inv /\ NamesRelaxed /\ [Next]_vars => NamesRelaxed'
<1> SUFFICES ASSUME Inv, NamesRelaxed, [Next]_vars, TransactionalDdl, failures' = 0,
                    "ix_tasks_name" \in objs'
             PROVE  \E v \in Workers : engine'[v] = "creating" /\ todo'[v] = {}
  BY DEF NamesRelaxed, TransactionalDdl, Next, Upgrade, Downgrade, Migrating, Statement, Stamp,
         Refused, CommandFails, Access, FirstAccess, CreateAll, CreateCollides, Spoil, Relax,
         AccessFails, Readyz, Restart, Seed, DeleteSeeds, workers, vars
<1>1. CASE \E w \in Workers : CreateAll(w)
  <2> PICK w \in Workers : CreateAll(w)
    BY <1>1
  <2>1. engine'[w] = "creating" /\ todo'[w] = {}
    BY DEF CreateAll, Batch, Inv, TypeOK
  <2>2. QED
    BY <2>1
<1>2. CASE "ix_tasks_name" \in objs /\ ~\E w \in Workers : CreateAll(w)
  <2>1. failures = 0 /\ ~\E w \in Workers : AccessFails(w) \/ Restart(w)
    <3>1. failures \in Nat
      BY BoundsAssumption DEF Inv, TypeOK
    <3>2. CASE UNCHANGED failures
      BY <3>1, <3>2 DEF AccessFails, Restart
    <3>3. CASE failures' = failures + 1
      BY <3>1, <3>3
    <3>4. UNCHANGED failures \/ failures' = failures + 1
      BY DEF AccessFails, Restart, Next, Upgrade, Downgrade, Migrating, Statement, Stamp, Refused,
             CommandFails, Access, FirstAccess, CreateAll, CreateCollides, Relax, Readyz, Seed,
             DeleteSeeds, vars
    <3>5. QED
      BY <3>2, <3>3, <3>4
  <2>2. PICK v \in Workers : engine[v] = "creating" /\ todo[v] = {}
    BY <1>2, <2>1 DEF NamesRelaxed
  <2>3. CASE \E w \in Workers : FirstAccess(w) \/ CreateCollides(w)
    BY <2>2, <2>3 DEF FirstAccess, CreateCollides, Spoil, Inv, TypeOK
  <2>4. ~\E w \in Workers : Relax(w)
    BY DEF Relax
  <2>5. CASE UNCHANGED <<engine, todo>>
    BY <2>2, <2>5
  <2>6. QED
    BY <1>2, <2>1, <2>3, <2>4, <2>5
       DEF Next, Upgrade, Downgrade, Migrating, Statement, Stamp, Refused, CommandFails, workers,
           Access, Readyz, Seed, DeleteSeeds, vars
<1>3. QED
  BY <1>1, <1>2, IndexIsCreated

(* Without failures, the unique index of create_all never stays: workers   *)
(* that race for the tables leave it to the one that made it.              *)
THEOREM NamesAreFreed == Spec => []NamesRelaxed
<1>1. Init => NamesRelaxed
  BY DEF Init, NamesRelaxed
<1>2. QED
  BY Invariance, NamesStep, <1>1, PTL DEF Spec

(***************************************************************************)
(* Where DDL is transactional, the version is true.  The version a command *)
(* in progress would reach with the statements it has left is, but for     *)
(* those statements, what its connection sees.                             *)
(***************************************************************************)
Coming == IF mig.op = "up" THEN mig.at + 1 ELSE mig.at - 1
Extra == IF early THEN OrmTables ELSE {}

Committed ==
    /\ Upto(ver) \subseteq objs
    /\ objs \cap Chain \subseteq Upto(ver) \cup Extra

InProgress ==
    /\ mig.op = "up" =>
         /\ Upto(Coming) \subseteq Seen \cup Elements(mig.left)
         /\ Seen \cap Chain \subseteq Upto(Coming) \cup Extra
         /\ Elements(mig.left) \subseteq Upto(Coming)
    /\ mig.op = "down" =>
         /\ Upto(Coming) \subseteq Seen
         /\ Seen \cap Chain \subseteq Upto(Coming) \cup Extra \cup Elements(mig.left)
         /\ Elements(mig.left) \cap Upto(Coming) = {}

Versions == TransactionalDdl => Committed /\ InProgress

LEMMA UptoSteps ==
    ASSUME NEW n \in 0..3
    PROVE  /\ Upto(n) \subseteq Chain
           /\ n < 3 => Upto(n + 1) = Upto(n) \cup Made(n + 1)
           /\ n > 0 => Upto(n) = Upto(n - 1) \cup Made(n) /\ Made(n) \cap Upto(n - 1) = {}
<1>1. CASE n = 0
  BY <1>1, UptoSets, MadeSets
<1>2. CASE n = 1
  BY <1>2, UptoSets, MadeSets DEF Chain
<1>3. CASE n = 2
  BY <1>3, UptoSets, MadeSets DEF Chain
<1>4. CASE n = 3
  BY <1>4, UptoSets, MadeSets DEF Chain
<1>5. QED
  BY <1>1, <1>2, <1>3, <1>4

LEMMA VersionsInit == Init => Versions
BY UptoSets DEF Init, Versions, Committed, InProgress, NoCommand

LEMMA VersionsUpgrade ==
    ASSUME Inv, Versions, TransactionalDdl, Upgrade
    PROVE  Committed' /\ InProgress'
<1>1. ver \in 0..3 /\ ver < 3
  BY DEF Inv, TypeOK, Upgrade, alembic_head
<1>2. mig' = [op |-> "up", goal |-> 3, at |-> ver, left |-> Statements("up", ver),
              made |-> {}, dropped |-> {}]
  BY DEF Upgrade, NoCommand, alembic_head
<1>3. Seen' = objs /\ Coming' = ver + 1 /\ mig'.op = "up" /\ Extra' = Extra
      /\ mig'.left = Statements("up", ver)
  <2>1. /\ mig'.op = "up" /\ mig'.at = ver /\ mig'.left = Statements("up", ver)
        /\ mig'.made = {} /\ mig'.dropped = {}
    BY <1>2
  <2>2. QED
    BY <2>1 DEF Seen, Coming, Extra, Upgrade, workers
<1>4. Elements(mig'.left) = Made(ver + 1)
  BY <1>1, <1>3, StatementSets
<1>5. Upto(ver + 1) = Upto(ver) \cup Made(ver + 1)
  BY <1>1, UptoSteps
<1>6. Committed'
  BY <1>3 DEF Versions, Committed, Upgrade
<1>7. QED
  BY <1>3, <1>4, <1>5, <1>6 DEF Versions, Committed, InProgress

LEMMA VersionsDowngrade ==
    ASSUME Inv, Versions, TransactionalDdl, Downgrade
    PROVE  Committed' /\ InProgress'
<1>1. ver \in 0..3 /\ ver > 0
  BY DEF Inv, TypeOK, Downgrade, alembic_head
<1>2. /\ mig'.op = "down" /\ mig'.at = ver /\ mig'.left = Statements("down", ver)
      /\ mig'.made = {} /\ mig'.dropped = {}
  BY DEF Downgrade, NoCommand
<1>3. Seen' = objs /\ Coming' = ver - 1 /\ Extra' = Extra
  BY <1>2 DEF Seen, Coming, Extra, Downgrade, workers
<1>4. Elements(mig'.left) = Made(ver)
  BY <1>1, <1>2, StatementSets
<1>5. Upto(ver) = Upto(ver - 1) \cup Made(ver) /\ Made(ver) \cap Upto(ver - 1) = {}
  BY <1>1, UptoSteps
<1>6. Committed'
  BY <1>3 DEF Versions, Committed, Downgrade
<1>7. QED
  BY <1>2, <1>3, <1>4, <1>5, <1>6 DEF Versions, Committed, InProgress

LEMMA VersionsStatement ==
    ASSUME Inv, Versions, TransactionalDdl, Statement
    PROVE  Committed' /\ InProgress'
<1> DEFINE x == Head(mig.left)
<1>1. /\ mig' = [mig EXCEPT !.left = Tail(@), !.made = New \ objs, !.dropped = objs \ New]
      /\ objs' = objs
  BY DEF Statement, New
<1>2. x \in Chain /\ Elements(mig.left) = {x} \cup Elements(Tail(mig.left))
  BY NewObjects, FirstOfRest
<1>3. mig'.op = mig.op /\ mig'.at = mig.at /\ mig'.left = Tail(mig.left)
  BY <1>1 DEF Inv, TypeOK
<1>4. Seen' = New
  BY <1>1 DEF Seen, Inv, TypeOK
<1>5. Coming' = Coming /\ Extra' = Extra
  BY <1>3 DEF Coming, Extra, Statement, workers
<1>6. Committed'
  BY <1>1, <1>5 DEF Versions, Committed, Statement
<1>7. CASE mig.op = "up"
  BY <1>2, <1>3, <1>4, <1>5, <1>6, <1>7 DEF Versions, InProgress, New
<1>8. CASE mig.op = "down"
  <2>1. Falling(x) \cap Chain = {x} /\ x \in Falling(x)
    BY <1>2 DEF Falling, Chain
  <2>2. Upto(Coming) \subseteq Chain
    BY <1>8, UptoSteps DEF Coming, Inv, TypeOK, CommandOK, alembic_head
  <2>3. Upto(Coming) \subseteq New
    BY <1>2, <1>8, <2>1, <2>2 DEF Versions, InProgress, New
  <2>4. New \cap Chain \subseteq Upto(Coming) \cup Extra \cup Elements(Tail(mig.left))
    BY <1>2, <1>8, <2>1 DEF Versions, InProgress, New
  <2>5. QED
    BY <1>2, <1>3, <1>4, <1>5, <1>6, <1>8, <2>3, <2>4 DEF Versions, InProgress
<1>9. QED
  BY <1>3, <1>6, <1>7, <1>8 DEF InProgress

LEMMA VersionsStamp ==
    ASSUME Inv, Versions, TransactionalDdl, Stamp
    PROVE  Committed' /\ InProgress'
<1> DEFINE at == IF mig.op = "up" THEN mig.at + 1 ELSE mig.at - 1
<1>1. /\ mig.op \in {"up", "down"} /\ at \in 0..3 /\ at = Coming
      /\ mig.op = "up" => mig.at < mig.goal
      /\ mig.op = "down" => mig.goal < mig.at
      /\ mig.at \in 0..3 /\ mig.goal \in 0..3
  BY DEF Inv, TypeOK, CommandOK, Stamp, alembic_head, Coming
<1>2. Elements(mig.left) = {} /\ Extra' = Extra
  BY DEF Stamp, Elements, Extra, workers
<1>3. Upto(at) \subseteq Seen /\ Seen \cap Chain \subseteq Upto(at) \cup Extra
  BY <1>1, <1>2 DEF Versions, InProgress
<1>4. CASE at = mig.goal
  <2>1. mig'.op = "none" /\ objs' = Seen /\ ver' = at
    BY <1>4 DEF Stamp, NoCommand
  <2>2. QED
    BY <1>2, <1>3, <2>1 DEF Committed, InProgress
<1>5. CASE at # mig.goal
  <2>1. /\ mig' = [mig EXCEPT !.at = at, !.left = Statements(mig.op, at)]
        /\ ver' = ver /\ objs' = objs
    BY <1>5 DEF Stamp
  <2>2. /\ mig'.op = mig.op /\ mig'.at = at /\ mig'.left = Statements(mig.op, at)
        /\ mig'.made = mig.made /\ mig'.dropped = mig.dropped
    BY <2>1 DEF Inv, TypeOK
  <2>3. Seen' = Seen /\ Coming' = (IF mig.op = "up" THEN at + 1 ELSE at - 1)
    BY <2>1, <2>2 DEF Seen, Coming
  <2>4. Committed'
    BY <1>2, <2>1 DEF Versions, Committed
  <2>5. CASE mig.op = "up"
    <3>1. at < 3
      BY <1>1, <1>5, <2>5
    <3>2. Elements(mig'.left) = Made(at + 1) /\ Upto(at + 1) = Upto(at) \cup Made(at + 1)
      BY <1>1, <2>2, <2>5, <3>1, StatementSets, UptoSteps
    <3>3. QED
      BY <1>2, <1>3, <2>2, <2>3, <2>4, <2>5, <3>2 DEF InProgress
  <2>6. CASE mig.op = "down"
    <3>1. at > 0
      BY <1>1, <1>5, <2>6
    <3>2. /\ Elements(mig'.left) = Made(at) /\ Upto(at) = Upto(at - 1) \cup Made(at)
          /\ Made(at) \cap Upto(at - 1) = {}
      BY <1>1, <2>2, <2>6, <3>1, StatementSets, UptoSteps
    <3>3. QED
      BY <1>2, <1>3, <2>2, <2>3, <2>4, <2>6, <3>2 DEF InProgress
  <2>7. QED
    BY <1>1, <2>5, <2>6
<1>6. QED
  BY <1>4, <1>5

LEMMA VersionsCreateAll ==
    ASSUME Inv, Versions, TransactionalDdl, NEW w \in Workers, CreateAll(w)
    PROVE  Committed' /\ InProgress'
<1>1. /\ Batch(w) \subseteq Orm /\ Batch(w) \cap mig.dropped = {}
      /\ objs' = objs \cup Batch(w) /\ mig' = mig /\ ver' = ver
  BY BatchOfTodo DEF Inv, CreateAll, Unblocked
<1>2. Seen' = Seen \cup Batch(w) /\ Coming' = Coming
  BY <1>1 DEF Seen, Coming
<1>3. Extra \subseteq Extra' /\ Batch(w) \cap Chain \subseteq Extra'
  BY <1>1 DEF CreateAll, Extra, Orm, Chain, Inv, TypeOK
<1>4. QED
  BY <1>1, <1>2, <1>3 DEF Versions, Committed, InProgress

LEMMA VersionsRelax ==
    ASSUME Inv, Versions, TransactionalDdl, NEW w \in Workers, Relax(w)
    PROVE  Committed' /\ InProgress'
<1>1. objs' = objs \ {"ix_tasks_name"} /\ mig' = mig /\ ver' = ver /\ Extra' = Extra
  BY DEF Relax, Extra
<1>2. Seen' \subseteq Seen /\ Seen \ {"ix_tasks_name"} \subseteq Seen' /\ Coming' = Coming
  BY <1>1 DEF Seen, Coming
<1>3. "ix_tasks_name" \notin Chain
  BY DEF Chain
<1>4. Upto(ver) \subseteq Chain /\ (mig.op # "none" => Upto(Coming) \subseteq Chain)
  BY UptoSteps DEF Coming, Inv, TypeOK, CommandOK, alembic_head
<1>5. Committed'
  BY <1>1, <1>3, <1>4 DEF Versions, Committed
<1>6. QED
  BY <1>1, <1>2, <1>3, <1>4, <1>5 DEF Versions, InProgress

LEMMA VersionsStep == Inv /\ Versions /\ [Next]_vars => Versions'
<1> SUFFICES ASSUME Inv, Versions, [Next]_vars, TransactionalDdl
             PROVE  Committed' /\ InProgress'
  BY DEF Versions, TransactionalDdl, Next, Upgrade, Downgrade, Migrating, Statement, Stamp,
         Refused, CommandFails, Access, FirstAccess, CreateAll, CreateCollides, Spoil, Relax,
         AccessFails, Readyz, Restart, Seed, DeleteSeeds, workers, vars
<1>1. CASE Upgrade \/ Downgrade \/ Statement \/ Stamp
  BY <1>1, VersionsUpgrade, VersionsDowngrade, VersionsStatement, VersionsStamp
<1>2. CASE \E w \in Workers : CreateAll(w) \/ Relax(w)
  BY <1>2, VersionsCreateAll, VersionsRelax
<1>3. CASE Refused \/ CommandFails
  <2>1. mig'.op = "none" /\ UNCHANGED <<objs, ver, early>>
    BY <1>3 DEF Refused, CommandFails, NoCommand, workers
  <2>2. QED
    BY <2>1 DEF Versions, Committed, InProgress, Extra
<1>4. CASE UNCHANGED <<objs, ver, mig, early>>
  BY <1>4 DEF Versions, Committed, InProgress, Extra, Seen, Coming
<1>5. QED
  BY <1>1, <1>2, <1>3, <1>4
     DEF Next, Migrating, Access, FirstAccess, CreateCollides, Spoil, AccessFails, Readyz,
         Restart, Seed, DeleteSeeds, workers, vars

LEMMA VersionsTrue == Spec => []Versions
<1>1. QED
  BY VersionsInit, VersionsStep, Invariance, PTL DEF Spec

(* On PostgreSQL the version alembic has stamped is true, in every order   *)
(* of migrations, rollbacks and first accesses: all of its objects exist,  *)
(* and of later revisions only tables that create_all put there.           *)
THEOREM VersionsAreTrue == Spec => []SchemaMatchesVersion
<1>1. Versions => SchemaMatchesVersion
  BY DEF Versions, Committed, Extra, SchemaMatchesVersion
<1>2. QED
  BY VersionsTrue, <1>1, PTL

(* On PostgreSQL /readyz answers 200 only over the whole schema of the     *)
(* head revision, also in a worker whose first access failed.              *)
THEOREM ReadyWorkersSeeTheHead == Spec => ReadyMeansMigrated
<1>1. Inv /\ Versions /\ [Next]_vars =>
        [\A w \in Workers : TransactionalDdl /\ ready'[w] = 200 /\ ready[w] # 200
                              => Chain \subseteq objs']_vars
  <2> SUFFICES ASSUME Inv, Versions, Next, TransactionalDdl, NEW v \in Workers,
                      ready'[v] = 200, ready[v] # 200
               PROVE  Chain \subseteq objs'
    OBVIOUS
  <2>1. PICK w \in Workers : Readyz(w)
    <3>1. CASE Upgrade \/ Downgrade \/ Migrating \/ CommandFails
      BY <3>1 DEF Upgrade, Downgrade, Migrating, Statement, Stamp, Refused, CommandFails, workers
    <3>2. CASE \E w \in Workers : Spoil(w) \/ Restart(w)
      BY <3>2 DEF Inv, TypeOK, Spoil, Restart
    <3>3. CASE \E w \in Workers : FirstAccess(w) \/ CreateAll(w) \/ Relax(w) \/ Seed(w)
                                    \/ DeleteSeeds(w)
      BY <3>3 DEF FirstAccess, CreateAll, Relax, Seed, DeleteSeeds, workers
    <3>4. QED
      BY <3>1, <3>2, <3>3 DEF Next, Access, CreateCollides, AccessFails
  <2>2. ver = 3 /\ objs' = objs
    BY <2>1 DEF Readyz, is_migration_at_head, alembic_head, Inv, TypeOK
  <2>3. QED
    BY <2>2, UptoSets DEF Versions, Committed
<1>2. QED
  BY Invariance, VersionsTrue, <1>1, PTL DEF Spec, ReadyMeansMigrated
=============================================================================
