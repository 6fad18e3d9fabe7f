------------------------- MODULE SplitResultsProofs -------------------------
(***************************************************************************)
(* For all tasks and values, both databases, and any number of writes,     *)
(* downgrades and failures: what revision v3 does with the results.        *)
(***************************************************************************)
EXTENDS SplitResults, TLAPS
-----------------------------------------------------------------------------
(* The counts of one task and of another, together.                        *)
Plus(a, b) == [v \in Values |-> [f \in Finish |-> a[v][f] + b[v][f]]]

\* The results json_loads_safe can find again.
Readable(p) == p.text \notin {"object", "runs"} => p.runs = Nothing

NoneMissing(c) == \A v \in Values : c[v]["missing"] = 0

\* What is committed: the results are where the revision keeps them, and
\* nowhere else.
Settled ==
    /\ \A t \in Tasks : /\ SameResults(Found(t), ledger[t])
                        /\ NoneMissing(disk.rows[t])
                        /\ Readable(disk.payload[t])
    /\ disk.rev = "v2" => disk.rows = NoRows
    /\ disk.rev = "v3" => \A t \in Tasks : disk.payload[t] = NoJson

\* Where a migration stands.
Stages ==
    /\ mig.op = "none" => mig = Idle
    /\ mig.op # "none" => mig.pc # "idle"
    /\ mig.pc \in {"idle", "schema"} => ~open
    /\ view.rev = disk.rev
    /\ mig.op = "up" => disk.rev = "v2"
    /\ mig.op = "down" => disk.rev = "v3"

\* What its connection sees there.
Upward ==
    mig.op = "up" =>
        /\ mig.pc = "read" =>
               view.rows = NoRows /\ view.payload = disk.payload
        /\ mig.pc = "write" =>
               \A t \in Tasks : /\ SameResults(Plus(view.rows[t], mig.queue[t]), ledger[t])
                                /\ NoneMissing(mig.queue[t])
        /\ mig.pc = "stamp" =>
               \A t \in Tasks : /\ SameResults(view.rows[t], ledger[t])
                                /\ view.payload[t] = NoJson
Downward ==
    mig.op = "down" =>
        /\ mig.pc = "read" =>
               view.rows = disk.rows /\ view.payload = disk.payload
        /\ mig.pc = "write" =>
               \A t \in Tasks :
                   IF mig.queue[t] = Nothing
                   THEN /\ SameResults(view.payload[t].runs, ledger[t])
                        /\ Readable(view.payload[t])
                   ELSE SameResults(mig.queue[t], ledger[t])
        /\ mig.pc = "stamp" =>
               /\ view.rows = NoRows
               /\ \A t \in Tasks : /\ SameResults(view.payload[t].runs, ledger[t])
                                   /\ Readable(view.payload[t])

Schema ==
    TransactionalDdl =>
        /\ disk.table = (disk.rev = "v3") /\ disk.column = (disk.rev = "v2")
        /\ mig.pc \in {"read", "write"} => view.table /\ view.column
        /\ mig.pc = "stamp" => /\ view.table = (mig.op = "up")
                               /\ view.column = (mig.op = "down")

IInv == TypeOK /\ Settled /\ Stages /\ Upward /\ Downward /\ Schema

-----------------------------------------------------------------------------
Payload == [text : {"null", "malformed", "object", "runs"}, runs : Counts]

LEMMA CountsTyped ==
    /\ Nothing \in Counts /\ NoRows \in [Tasks -> Counts]
    /\ \A v \in Values, f \in Finish : One(v, f) \in Counts
    /\ NoneMissing(Nothing) /\ NoJson \in Payload /\ Readable(NoJson)
<1>1. Nothing \in Counts
  BY DEF Nothing, Counts
<1>2. \A v \in Values, f \in Finish : One(v, f) \in Counts
  BY <1>1 DEF One, Counts
<1>3. NoneMissing(Nothing)
  BY DEF NoneMissing, Nothing, Finish
<1>4. QED
  BY <1>1, <1>2, <1>3 DEF NoRows, NoJson, Payload, Readable

LEMMA SameCounts ==
    ASSUME NEW a \in Counts, NEW b \in Counts, NEW c \in Counts
    PROVE  /\ SameResults(a, a)
           /\ SameResults(a, b) => SameResults(b, a)
           /\ SameResults(a, b) /\ SameResults(b, c) => SameResults(a, c)
<1>1. \A d \in Counts : \A v \in Values :
        d[v]["own"] \in Nat /\ d[v]["created"] \in Nat /\ d[v]["missing"] \in Nat
  BY DEF Counts, Finish
<1>2. QED
  BY <1>1 DEF SameResults

LEMMA DatedKeeps ==
    ASSUME NEW c \in Counts
    PROVE  Dated(c) \in Counts /\ NoneMissing(Dated(c)) /\ SameResults(Dated(c), c)
<1>1. \A v \in Values : c[v] \in [Finish -> Nat]
  BY DEF Counts
<1>2. \A v \in Values :
        c[v]["own"] \in Nat /\ c[v]["created"] \in Nat /\ c[v]["missing"] \in Nat
  BY <1>1 DEF Finish
<1>3. \A v \in Values :
        /\ Dated(c)[v]["own"] = c[v]["own"] /\ Dated(c)[v]["missing"] = 0
        /\ Dated(c)[v]["created"] = c[v]["created"] + c[v]["missing"]
  BY DEF Dated, Finish
<1>4. Dated(c) \in Counts
  BY <1>2 DEF Dated, Counts, Finish
<1>5. QED
  BY <1>2, <1>3, <1>4 DEF SameResults, NoneMissing

(* What the upgrade reads from a payload is every result in it.            *)
LEMMA SplitKeeps ==
    ASSUME NEW p \in Payload, Readable(p)
    PROVE  Split(p) \in Counts /\ NoneMissing(Split(p)) /\ SameResults(Split(p), p.runs)
<1>1. p.runs \in Counts
  BY DEF Payload
<1>2. CASE p.text \in {"object", "runs"}
  BY <1>1, <1>2, DatedKeeps DEF Split
<1>3. CASE p.text \notin {"object", "runs"}
  BY <1>1, <1>3, CountsTyped, SameCounts DEF Split, Readable
<1>4. QED
  BY <1>2, <1>3

LEMMA MergeReads ==
    ASSUME NEW c \in Counts
    PROVE  Merge(c) \in Payload /\ Merge(c).runs = c /\ Readable(Merge(c))
BY DEF Merge, Payload, Readable

(* One more row, one fewer to write.                                       *)
LEMMA OneMore ==
    ASSUME NEW a \in Counts, NEW b \in Counts, NEW v \in Values, NEW f \in Finish,
           b[v][f] > 0
    PROVE  LET more == [a EXCEPT ![v][f] = @ + 1]
               less == [b EXCEPT ![v][f] = @ - 1]
           IN  /\ more \in Counts /\ less \in Counts
               /\ Plus(more, less) = Plus(a, b)
               /\ NoneMissing(b) => NoneMissing(less)
               /\ NoneMissing(a) /\ NoneMissing(b) => NoneMissing(more)
<1> DEFINE more == [a EXCEPT ![v][f] = @ + 1]
           less == [b EXCEPT ![v][f] = @ - 1]
<1>1. /\ \A w \in Values, g \in Finish : a[w][g] \in Nat /\ b[w][g] \in Nat
      /\ \A w \in Values : a[w] \in [Finish -> Nat] /\ b[w] \in [Finish -> Nat]
  BY DEF Counts
<1>2. b[v][f] - 1 \in Nat /\ a[v][f] + 1 \in Nat
  BY <1>1
<1>3. more \in Counts /\ less \in Counts
  BY <1>1, <1>2 DEF Counts
<1>4. \A w \in Values, g \in Finish :
        /\ more[w][g] = IF w = v /\ g = f THEN a[w][g] + 1 ELSE a[w][g]
        /\ less[w][g] = IF w = v /\ g = f THEN b[w][g] - 1 ELSE b[w][g]
  BY <1>1 DEF Counts
<1>5. \A w \in Values, g \in Finish : more[w][g] + less[w][g] = a[w][g] + b[w][g]
  BY <1>1, <1>4
<1>6. Plus(more, less) = Plus(a, b)
  BY <1>5 DEF Plus
<1>7. NoneMissing(b) => NoneMissing(less)
  BY <1>1, <1>4, f # "missing" \/ f = "missing" DEF NoneMissing, Finish
<1>8. NoneMissing(a) /\ NoneMissing(b) => NoneMissing(more)
  BY <1>1, <1>4 DEF NoneMissing, Finish
<1>9. QED
  BY <1>3, <1>6, <1>7, <1>8

LEMMA PlusNothing ==
    ASSUME NEW a \in Counts
    PROVE  Plus(a, Nothing) = a /\ Plus(Nothing, a) = a
<1>1. \A v \in Values, f \in Finish : a[v][f] \in Nat
  BY DEF Counts
<1>2. \A v \in Values, f \in Finish : a[v][f] + 0 = a[v][f] /\ 0 + a[v][f] = a[v][f]
  BY <1>1
<1>3. a = [v \in Values |-> [f \in Finish |-> a[v][f]]]
  BY DEF Counts
<1>4. \A v \in Values, f \in Finish : Nothing[v][f] = 0
  BY DEF Nothing
<1>5. QED
  BY <1>2, <1>3, <1>4 DEF Plus

LEMMA PlusTyped ==
    ASSUME NEW a \in Counts, NEW b \in Counts
    PROVE  Plus(a, b) \in Counts
<1>1. \A v \in Values, f \in Finish : a[v][f] + b[v][f] \in Nat
  BY DEF Counts
<1>2. QED
  BY <1>1 DEF Plus, Counts

-----------------------------------------------------------------------------
LEMMA InitInvariant == Init => IInv
<1>1. SUFFICES ASSUME NEW legacy \in [Tasks -> Legacy],
                      /\ database \in Databases
                      /\ disk = [rev |-> "v2", column |-> TRUE, table |-> FALSE,
                                 payload |-> legacy, rows |-> NoRows]
                      /\ view = disk /\ open = FALSE /\ mig = Idle
                      /\ ledger = [t \in Tasks |-> legacy[t].runs]
                      /\ failures = 0 /\ downgrades = 0 /\ writes = 0
               PROVE  IInv
  BY DEF Init
<1>2. \A p \in Legacy : p \in Payload /\ Readable(p)
  <2>1. SUFFICES ASSUME NEW p \in Legacy
                 PROVE  p \in Payload /\ Readable(p)
    OBVIOUS
  <2>2. CASE p \in {NoJson, [text |-> "malformed", runs |-> Nothing]}
    BY <2>2, CountsTyped DEF NoJson, Payload, Readable
  <2>3. ASSUME NEW v \in Values, NEW f \in {"own", "missing"},
               p = [text |-> "object", runs |-> One(v, f)]
        PROVE  p \in Payload /\ Readable(p)
    BY <2>3, CountsTyped DEF Finish, Payload, Readable
  <2>4. QED
    BY <2>2, <2>3 DEF Legacy
<1>3. legacy \in [Tasks -> Payload]
  BY <1>2
<1>4. \A t \in Tasks : legacy[t].runs \in Counts
  BY <1>3 DEF Payload
<1>5. \A t \in Tasks : NoneMissing(NoRows[t])
  BY CountsTyped DEF NoRows
<1>6. TypeOK
  <2>1. disk \in Contents
    BY <1>1, <1>3, CountsTyped DEF Contents, Payload
  <2>2. mig \in [op : {"none", "up", "down"}, queue : [Tasks -> Counts],
                 pc : {"idle", "schema", "read", "write", "stamp"}]
    BY <1>1, CountsTyped DEF Idle
  <2>3. ledger \in [Tasks -> Counts]
    BY <1>1, <1>4
  <2>4. \A t \in Tasks, v \in Values : view.rows[t][v]["missing"] = 0
    BY <1>1, <1>5 DEF NoneMissing
  <2>5. /\ failures \in 0 .. MaxFailures /\ downgrades \in 0 .. MaxDowngrades
        /\ writes \in 0 .. MaxWrites
    BY <1>1, SplitConstants DEF SplitConstants
  <2>6. open \in BOOLEAN /\ view = disk /\ database \in Databases
    BY <1>1
  <2>7. QED
    BY <2>1, <2>2, <2>3, <2>4, <2>5, <2>6 DEF TypeOK
<1>7. Settled
  BY <1>1, <1>2, <1>3, <1>4, <1>5, SameCounts DEF Settled, Found
<1>8. Stages /\ Upward /\ Downward /\ Schema
  BY <1>1 DEF Stages, Upward, Downward, Schema, Idle
<1>9. QED
  BY <1>6, <1>7, <1>8 DEF IInv

\* The connection is back at what is committed.
LEMMA RolledBack ==
    ASSUME IInv, view' = disk, open' = FALSE, mig' = Idle,
           UNCHANGED <<disk, database, ledger, downgrades, writes>>,
           failures' \in 0 .. MaxFailures
    PROVE  IInv'
<1>1. TypeOK'
  <2>1. mig' \in [op : {"none", "up", "down"}, queue : [Tasks -> Counts],
                  pc : {"idle", "schema", "read", "write", "stamp"}]
    BY CountsTyped DEF Idle
  <2>2. QED
    BY <2>1 DEF IInv, TypeOK, Settled, NoneMissing
<1>2. Settled'
  BY DEF IInv, Settled, Found
<1>3. Stages' /\ Upward' /\ Downward' /\ Schema'
  BY DEF IInv, Stages, Upward, Downward, Schema, Idle, TransactionalDdl
<1>4. QED
  BY <1>1, <1>2, <1>3 DEF IInv

LEMMA RefusedStep ==
    ASSUME IInv, Refused \/ Fail
    PROVE  IInv'
<1>1. failures' \in 0 .. MaxFailures
  BY SplitConstants DEF Refused, Fail, Bookkeeping, IInv, TypeOK, SplitConstants
<1>2. QED
  BY <1>1, RolledBack DEF Refused, Fail, Rollback, Bookkeeping

LEMMA StartStep ==
    ASSUME IInv, StartUpgrade \/ StartDowngrade
    PROVE  IInv'
<1>1. mig = Idle /\ UNCHANGED <<disk, view, open, database, ledger, failures, writes>>
  BY DEF StartUpgrade, StartDowngrade, Bookkeeping
<1>2. ~open
  BY <1>1 DEF IInv, Stages, Idle
<1>3. \/ mig' = [Idle EXCEPT !.op = "up", !.pc = "schema"] /\ disk.rev = "v2"
      \/ mig' = [Idle EXCEPT !.op = "down", !.pc = "schema"] /\ disk.rev = "v3"
  BY DEF StartUpgrade, StartDowngrade
<1>4. downgrades' \in 0 .. MaxDowngrades
  BY SplitConstants
  DEF StartUpgrade, StartDowngrade, Bookkeeping, IInv, TypeOK, SplitConstants
<1>5. TypeOK'
  <2>1. mig' \in [op : {"none", "up", "down"}, queue : [Tasks -> Counts],
                  pc : {"idle", "schema", "read", "write", "stamp"}]
    BY <1>3, CountsTyped DEF Idle
  <2>2. QED
    BY <1>1, <1>4, <2>1 DEF IInv, TypeOK
<1>6. Settled'
  BY <1>1 DEF IInv, Settled, Found
<1>7. Stages' /\ Upward' /\ Downward' /\ Schema'
  BY <1>1, <1>2, <1>3
  DEF IInv, Stages, Upward, Downward, Schema, Idle, TransactionalDdl
<1>8. QED
  BY <1>5, <1>6, <1>7 DEF IInv

LEMMA WriteStep ==
    ASSUME IInv, WriteSample
    PROVE  IInv'
<1>1. PICK t \in Tasks, v \in Values :
        /\ disk' = [disk EXCEPT !.rows[t][v]["own"] = @ + 1]
        /\ ledger' = [ledger EXCEPT ![t][v]["own"] = @ + 1]
  BY DEF WriteSample
<1>2. /\ mig = Idle /\ disk.rev = "v3" /\ view' = disk' /\ writes' \in 0 .. MaxWrites
      /\ UNCHANGED <<database, open, mig, failures, downgrades>>
  BY SplitConstants DEF WriteSample, IInv, TypeOK, SplitConstants
<1>3. /\ disk.rows \in [Tasks -> Counts] /\ ledger \in [Tasks -> Counts]
      /\ disk \in Contents
  BY DEF IInv, TypeOK, Contents
<1>4. /\ ~open /\ view = disk
  BY <1>2 DEF IInv, Stages, Idle, TypeOK
<1> DEFINE more(c) == [c EXCEPT ![v]["own"] = @ + 1]
<1>5. ASSUME NEW c \in Counts
      PROVE  /\ more(c) \in Counts
             /\ NoneMissing(c) => NoneMissing(more(c))
             /\ \A d \in Counts : SameResults(c, d) => SameResults(more(c), more(d))
  <2>1. \A d \in Counts : \A w \in Values : d[w] \in [Finish -> Nat]
    BY DEF Counts
  <2>2. \A d \in Counts : \A w \in Values, f \in Finish : d[w][f] \in Nat
    BY <2>1
  <2>3. \A d \in Counts : \A w \in Values, f \in Finish :
          more(d)[w][f] = IF w = v /\ f = "own" THEN d[w][f] + 1 ELSE d[w][f]
    BY <2>1 DEF Counts
  <2>4. {"own", "created", "missing"} = Finish
    BY DEF Finish
  <2>5. more(c) \in Counts
    BY <2>2, <2>4 DEF Counts
  <2> HIDE DEF more
  <2>6. NoneMissing(c) => NoneMissing(more(c))
    BY <2>3, <2>4 DEF NoneMissing
  <2>7. \A d \in Counts : SameResults(c, d) => SameResults(more(c), more(d))
    BY <2>3, <2>4 DEF SameResults
  <2>8. QED
    BY <2>5, <2>6, <2>7
<1>6. /\ disk' = [disk EXCEPT !.rows[t] = more(disk.rows[t])]
      /\ ledger' = [ledger EXCEPT ![t] = more(ledger[t])]
  BY <1>1
<1>7. /\ more(disk.rows[t]) \in Counts /\ more(ledger[t]) \in Counts
      /\ NoneMissing(disk.rows[t]) => NoneMissing(more(disk.rows[t]))
      /\ SameResults(disk.rows[t], ledger[t]) =>
           SameResults(more(disk.rows[t]), more(ledger[t]))
  BY <1>3, <1>5
<1> HIDE DEF more
<1>8. /\ disk' \in Contents /\ disk'.rev = disk.rev /\ disk'.payload = disk.payload
      /\ disk'.table = disk.table /\ disk'.column = disk.column
      /\ disk'.rows = [disk.rows EXCEPT ![t] = more(disk.rows[t])]
  BY <1>3, <1>6, <1>7 DEF Contents
<1>9. \A u \in Tasks : /\ SameResults(disk.rows[u], ledger[u])
                       /\ NoneMissing(disk.rows[u])
  BY <1>2 DEF IInv, Settled, Found
<1>10. \A u \in Tasks : /\ SameResults(disk'.rows[u], ledger'[u])
                        /\ NoneMissing(disk'.rows[u])
  BY <1>3, <1>6, <1>7, <1>8, <1>9
<1>11. TypeOK'
  BY <1>2, <1>3, <1>4, <1>6, <1>7, <1>8, <1>10 DEF IInv, TypeOK, NoneMissing
<1>12. Settled'
  BY <1>2, <1>8, <1>10 DEF IInv, Settled, Found
<1>13. Stages' /\ Upward' /\ Downward' /\ Schema'
  BY <1>2, <1>4, <1>8
  DEF IInv, Stages, Upward, Downward, Schema, Idle, TransactionalDdl
<1>14. QED
  BY <1>11, <1>12, <1>13 DEF IInv

-----------------------------------------------------------------------------
MigType == [op : {"none", "up", "down"}, queue : [Tasks -> Counts],
            pc : {"idle", "schema", "read", "write", "stamp"}]

\* A DDL statement is in the transaction, or committed where there is none.
LEMMA DdlCases ==
    ASSUME NEW db, Ddl(db), open \in BOOLEAN
    PROVE  /\ view' = db
           /\ open' \in BOOLEAN
           /\ \/ disk' = disk /\ open'
              \/ ~TransactionalDdl /\ ~open /\ disk' = db /\ ~open'
BY DEF Ddl

\* The schema is changed, by the first statement of either direction.
LEMMA CreateStep ==
    ASSUME IInv, CreateTable \/ AddColumn
    PROVE  IInv'
<1>1. /\ mig.pc = "schema" /\ mig' = [mig EXCEPT !.pc = "read"]
      /\ UNCHANGED <<database, ledger, failures, downgrades, writes>>
  BY DEF CreateTable, AddColumn, At, GoTo, Bookkeeping
<1>2. PICK db \in {[view EXCEPT !.table = TRUE], [view EXCEPT !.column = TRUE]} :
        /\ Ddl(db)
        /\ mig.op = "up" => db = [view EXCEPT !.table = TRUE]
        /\ mig.op = "down" => db = [view EXCEPT !.column = TRUE]
  BY DEF CreateTable, AddColumn, At
<1>3. /\ mig \in MigType /\ mig' \in MigType /\ mig.op \in {"up", "down"}
      /\ mig'.op = mig.op /\ mig'.pc = "read"
  BY <1>1 DEF IInv, TypeOK, MigType, CreateTable, AddColumn, At
<1>4. /\ ~open /\ view = disk /\ disk \in Contents /\ open \in BOOLEAN
      /\ view.rev = disk.rev
  BY <1>1 DEF IInv, TypeOK, Stages
<1>5. /\ db \in Contents /\ db.rev = disk.rev
      /\ db.payload = disk.payload /\ db.rows = disk.rows
      /\ mig.op = "up" => db.table /\ db.column = disk.column
      /\ mig.op = "down" => db.column /\ db.table = disk.table
  BY <1>2, <1>4 DEF Contents
<1>6. /\ view' = db /\ open' \in BOOLEAN
      /\ \/ disk' = disk /\ open'
         \/ ~TransactionalDdl /\ disk' = db /\ ~open'
  BY <1>2, <1>4, DdlCases
<1>7. /\ disk' \in Contents /\ disk'.rev = disk.rev
      /\ disk'.payload = disk.payload /\ disk'.rows = disk.rows
      /\ TransactionalDdl => disk' = disk
      /\ open' \in BOOLEAN /\ (~open' => view' = disk')
  BY <1>4, <1>5, <1>6
<1>8. TypeOK'
  <2>1. \A t \in Tasks, v \in Values : view'.rows[t][v]["missing"] = 0
    BY <1>4, <1>5, <1>6 DEF IInv, TypeOK
  <2>2. database' \in Databases /\ ledger' \in [Tasks -> Counts]
        /\ failures' \in 0 .. MaxFailures /\ downgrades' \in 0 .. MaxDowngrades
        /\ writes' \in 0 .. MaxWrites
    BY <1>1 DEF IInv, TypeOK
  <2>3. QED
    BY <1>3, <1>5, <1>6, <1>7, <2>1, <2>2 DEF TypeOK, MigType
<1>9. Settled'
  BY <1>1, <1>7 DEF IInv, Settled, Found
<1>10. Stages'
  BY <1>3, <1>5, <1>6, <1>7 DEF IInv, Stages
<1>11. Upward' /\ Downward'
  BY <1>3, <1>4, <1>5, <1>6, <1>7 DEF IInv, Settled, Stages, Upward, Downward
<1>12. Schema'
  BY <1>1, <1>3, <1>4, <1>5, <1>6, <1>7
  DEF IInv, Stages, Schema, TransactionalDdl
<1>13. QED
  BY <1>8, <1>9, <1>10, <1>11, <1>12 DEF IInv

LEMMA ReadPayloadsStep ==
    ASSUME IInv, ReadPayloads
    PROVE  IInv'
<1> DEFINE found == [t \in Tasks |-> Split(view.payload[t])]
<1>1. /\ mig.op = "up" /\ mig.pc = "read"
      /\ mig' = [mig EXCEPT !.pc = "write", !.queue = found]
      /\ UNCHANGED <<disk, view, open, database, ledger, failures, downgrades, writes>>
  BY DEF ReadPayloads, At, Bookkeeping
<1>2. /\ view.rows = NoRows /\ view.payload = disk.payload /\ disk.rev = "v2"
      /\ view.payload \in [Tasks -> Payload]
  BY <1>1 DEF IInv, Upward, Stages, TypeOK, Contents, Payload
<1>3. ASSUME NEW t \in Tasks
      PROVE  /\ found[t] \in Counts /\ NoneMissing(found[t])
             /\ SameResults(Plus(view.rows[t], found[t]), ledger[t])
  <2>1. /\ Readable(view.payload[t]) /\ SameResults(view.payload[t].runs, ledger[t])
        /\ view.payload[t].runs \in Counts /\ ledger[t] \in Counts
    BY <1>2 DEF IInv, Settled, Found, Payload, TypeOK
  <2>2. /\ found[t] \in Counts /\ NoneMissing(found[t])
        /\ SameResults(found[t], view.payload[t].runs)
    BY <1>2, <2>1, SplitKeeps
  <2>3. SameResults(found[t], ledger[t])
    BY <2>1, <2>2, SameCounts
  <2>4. Plus(view.rows[t], found[t]) = found[t]
    BY <1>2, <2>2, PlusNothing DEF NoRows
  <2>5. QED
    BY <2>2, <2>3, <2>4
<1>4. found \in [Tasks -> Counts]
  BY <1>3
<1> HIDE DEF found
<1>5. /\ mig' \in MigType /\ mig'.op = "up" /\ mig'.pc = "write" /\ mig'.queue = found
  BY <1>1, <1>4 DEF IInv, TypeOK, MigType
<1>6. TypeOK'
  BY <1>1, <1>5 DEF IInv, TypeOK, MigType
<1>7. Settled'
  BY <1>1 DEF IInv, Settled, Found
<1>8. Stages' /\ Schema'
  BY <1>1, <1>5 DEF IInv, Stages, Schema, TransactionalDdl
<1>9. Upward' /\ Downward'
  BY <1>1, <1>3, <1>5 DEF Upward, Downward
<1>10. QED
  BY <1>6, <1>7, <1>8, <1>9 DEF IInv

LEMMA InsertRowStep ==
    ASSUME IInv, InsertRow
    PROVE  IInv'
<1>1. PICK t \in Tasks, v \in Values, f \in Finish :
        /\ mig.queue[t][v][f] > 0
        /\ view' = [view EXCEPT !.rows[t][v][f] = @ + 1]
        /\ mig' = [mig EXCEPT !.queue[t][v][f] = @ - 1]
        /\ open' = TRUE /\ disk' = disk
  BY DEF InsertRow, Dml
<1>2. /\ mig.op = "up" /\ mig.pc = "write" /\ open' = TRUE
      /\ UNCHANGED <<disk, database, ledger, failures, downgrades, writes>>
  BY <1>1 DEF InsertRow, At, Bookkeeping
<1>3. /\ view \in Contents /\ mig \in MigType
      /\ view.rows \in [Tasks -> Counts] /\ mig.queue \in [Tasks -> Counts]
      /\ \A u \in Tasks : NoneMissing(view.rows[u])
  BY DEF IInv, TypeOK, Contents, MigType, NoneMissing
<1> DEFINE more == [view.rows[t] EXCEPT ![v][f] = @ + 1]
           less == [mig.queue[t] EXCEPT ![v][f] = @ - 1]
<1>4. \A u \in Tasks : /\ SameResults(Plus(view.rows[u], mig.queue[u]), ledger[u])
                       /\ NoneMissing(mig.queue[u])
  BY <1>2 DEF IInv, Upward
<1>5. /\ more \in Counts /\ less \in Counts
      /\ Plus(more, less) = Plus(view.rows[t], mig.queue[t])
      /\ NoneMissing(less) /\ NoneMissing(more)
  <2>1. /\ view.rows[t] \in Counts /\ mig.queue[t] \in Counts
        /\ mig.queue[t][v][f] > 0
        /\ NoneMissing(view.rows[t]) /\ NoneMissing(mig.queue[t])
    BY <1>1, <1>3, <1>4
  <2>2. /\ more \in Counts /\ less \in Counts
        /\ Plus(more, less) = Plus(view.rows[t], mig.queue[t])
        /\ NoneMissing(mig.queue[t]) => NoneMissing(less)
        /\ NoneMissing(view.rows[t]) /\ NoneMissing(mig.queue[t]) => NoneMissing(more)
    BY <2>1, OneMore, Zenon
  <2>3. QED
    BY <2>1, <2>2
<1>6. /\ view' = [view EXCEPT !.rows = [view.rows EXCEPT ![t] = more]]
      /\ mig' = [mig EXCEPT !.queue = [mig.queue EXCEPT ![t] = less]]
  BY <1>1, Zenon
<1> HIDE DEF more, less
<1>7. /\ view' \in Contents /\ view'.rows = [view.rows EXCEPT ![t] = more]
      /\ view'.rev = view.rev /\ view'.table = view.table /\ view'.column = view.column
  BY <1>3, <1>5, <1>6 DEF Contents
<1>8. /\ mig' \in MigType /\ mig'.queue = [mig.queue EXCEPT ![t] = less]
      /\ mig'.op = "up" /\ mig'.pc = "write"
  BY <1>2, <1>3, <1>5, <1>6 DEF MigType
<1>9. \A u \in Tasks :
        /\ SameResults(Plus(view'.rows[u], mig'.queue[u]), ledger[u])
        /\ NoneMissing(mig'.queue[u]) /\ NoneMissing(view'.rows[u])
  BY <1>3, <1>4, <1>5, <1>7, <1>8
<1>10. TypeOK'
  BY <1>2, <1>7, <1>8, <1>9 DEF IInv, TypeOK, MigType, NoneMissing
<1>11. Settled'
  BY <1>2 DEF IInv, Settled, Found
<1>12. Stages' /\ Schema'
  BY <1>2, <1>7, <1>8 DEF IInv, Stages, Schema, TransactionalDdl
<1>13. Upward' /\ Downward'
  BY <1>2, <1>8, <1>9 DEF Upward, Downward
<1>14. QED
  BY <1>10, <1>11, <1>12, <1>13 DEF IInv

LEMMA DropColumnStep ==
    ASSUME IInv, DropColumn
    PROVE  IInv'
<1> DEFINE db == [view EXCEPT !.column = FALSE, !.payload = [t \in Tasks |-> NoJson]]
<1>1. /\ mig.op = "up" /\ mig.pc = "write" /\ mig.queue = NoRows /\ Ddl(db)
      /\ mig' = [mig EXCEPT !.pc = "stamp"]
      /\ UNCHANGED <<database, ledger, failures, downgrades, writes>>
  BY DEF DropColumn, At, GoTo, Bookkeeping
<1>2. /\ view \in Contents /\ disk \in Contents /\ open \in BOOLEAN
      /\ mig \in MigType /\ disk.rev = "v2" /\ view.rev = "v2"
      /\ ledger \in [Tasks -> Counts]
      /\ ~open => view = disk
  BY <1>1 DEF IInv, TypeOK, MigType, Stages
<1>3. /\ db \in Contents /\ db.rev = "v2" /\ db.rows = view.rows
      /\ db.table = view.table /\ ~db.column
      /\ \A t \in Tasks : db.payload[t] = NoJson
  BY <1>2, CountsTyped DEF Contents, Payload
<1> HIDE DEF db
<1>4. /\ view' = db /\ open' \in BOOLEAN
      /\ \/ disk' = disk /\ open'
         \/ ~TransactionalDdl /\ ~open /\ disk' = db /\ ~open'
  BY <1>1, <1>2, DdlCases
<1>5. mig' \in MigType /\ mig'.op = "up" /\ mig'.pc = "stamp"
  BY <1>1, <1>2 DEF MigType
<1>6. \A t \in Tasks : SameResults(view.rows[t], ledger[t])
  <2>1. ASSUME NEW t \in Tasks
        PROVE  SameResults(view.rows[t], ledger[t])
    <3>1. /\ SameResults(Plus(view.rows[t], mig.queue[t]), ledger[t])
          /\ view.rows[t] \in Counts
      BY <1>1, <1>2 DEF IInv, Upward, Contents
    <3>2. mig.queue[t] = Nothing
      BY <1>1 DEF NoRows
    <3>3. QED
      BY <3>1, <3>2, PlusNothing
  <2>2. QED
    BY <2>1
<1>7. TypeOK'
  <2>1. \A t \in Tasks, v \in Values : view'.rows[t][v]["missing"] = 0
    BY <1>3, <1>4 DEF IInv, TypeOK
  <2>2. database' \in Databases /\ ledger' \in [Tasks -> Counts]
        /\ failures' \in 0 .. MaxFailures /\ downgrades' \in 0 .. MaxDowngrades
        /\ writes' \in 0 .. MaxWrites
    BY <1>1 DEF IInv, TypeOK
  <2>3. disk' \in Contents /\ view' \in Contents /\ (~open' => view' = disk')
    BY <1>2, <1>3, <1>4
  <2>4. QED
    BY <1>4, <1>5, <2>1, <2>2, <2>3 DEF TypeOK, MigType
<1>8. Settled'
  <2>1. CASE disk' = disk
    BY <1>1, <2>1 DEF IInv, Settled, Found
  <2>2. CASE ~open /\ disk' = db
    <3>1. disk.rows = NoRows /\ disk'.rows = NoRows
      BY <1>2, <1>3, <2>2 DEF IInv, Settled
    <3>2. ASSUME NEW t \in Tasks
          PROVE  /\ SameResults(NoJson.runs, ledger[t])
                 /\ disk'.payload[t] = NoJson /\ NoneMissing(disk'.rows[t])
      <4>1. NoRows[t] = Nothing /\ NoJson.runs = Nothing
        BY DEF NoRows, NoJson
      <4>2. SameResults(Nothing, ledger[t])
        BY <1>2, <1>6, <2>2, <3>1, <4>1
      <4>3. QED
        BY <1>3, <2>2, <3>1, <4>1, <4>2, CountsTyped
    <3>3. QED
      BY <1>1, <1>3, <2>2, <3>1, <3>2, CountsTyped DEF Settled, Found
  <2>3. QED
    BY <1>4, <2>1, <2>2
<1>9. Stages'
  BY <1>2, <1>3, <1>4, <1>5 DEF Stages
<1>10. Upward' /\ Downward'
  BY <1>1, <1>3, <1>4, <1>5, <1>6 DEF Upward, Downward
<1>11. Schema'
  <2>1. TransactionalDdl => /\ disk' = disk /\ view.table
                            /\ disk.table = FALSE /\ disk.column = TRUE
    BY <1>1, <1>2, <1>4 DEF IInv, Schema
  <2>2. view'.column = FALSE /\ (view.table => view'.table = TRUE)
    BY <1>2, <1>3, <1>4 DEF Contents
  <2>3. TransactionalDdl' = TransactionalDdl
    BY <1>1 DEF TransactionalDdl
  <2>4. QED
    BY <1>2, <1>5, <2>1, <2>2, <2>3 DEF Schema
<1>12. QED
  BY <1>7, <1>8, <1>9, <1>10, <1>11 DEF IInv

LEMMA ReadRowsStep ==
    ASSUME IInv, ReadRows
    PROVE  IInv'
<1>1. /\ mig.op = "down" /\ mig.pc = "read"
      /\ mig' = [mig EXCEPT !.pc = "write", !.queue = view.rows]
      /\ UNCHANGED <<disk, view, open, database, ledger, failures, downgrades, writes>>
  BY DEF ReadRows, At, Bookkeeping
<1>2. /\ view.rows = disk.rows /\ view.payload = disk.payload /\ disk.rev = "v3"
      /\ view.rows \in [Tasks -> Counts]
  BY <1>1 DEF IInv, Downward, Stages, TypeOK, Contents
<1>3. /\ mig' \in MigType /\ mig'.op = "down" /\ mig'.pc = "write"
      /\ mig'.queue = view.rows
  BY <1>1, <1>2 DEF IInv, TypeOK, MigType
<1>4. ASSUME NEW t \in Tasks
      PROVE  IF view.rows[t] = Nothing
             THEN /\ SameResults(view.payload[t].runs, ledger[t])
                  /\ Readable(view.payload[t])
             ELSE SameResults(view.rows[t], ledger[t])
  <2>1. /\ SameResults(view.rows[t], ledger[t]) /\ view.payload[t] = NoJson
    BY <1>2 DEF IInv, Settled, Found
  <2>2. view.payload[t].runs = Nothing /\ Readable(view.payload[t])
    BY <2>1, CountsTyped DEF NoJson
  <2>3. QED
    BY <2>1, <2>2
<1>5. TypeOK'
  BY <1>1, <1>3 DEF IInv, TypeOK, MigType
<1>6. Settled'
  BY <1>1 DEF IInv, Settled, Found
<1>7. Stages' /\ Schema'
  BY <1>1, <1>3 DEF IInv, Stages, Schema, TransactionalDdl
<1>8. Upward' /\ Downward'
  BY <1>1, <1>3, <1>4 DEF Upward, Downward
<1>9. QED
  BY <1>5, <1>6, <1>7, <1>8 DEF IInv

LEMMA UpdateTaskStep ==
    ASSUME IInv, UpdateTask
    PROVE  IInv'
<1>1. PICK t \in Tasks :
        /\ mig.queue[t] # Nothing
        /\ view' = [view EXCEPT !.payload[t] = Merge(mig.queue[t])]
        /\ mig' = [mig EXCEPT !.queue[t] = Nothing]
        /\ open' = TRUE /\ disk' = disk
  BY DEF UpdateTask, Dml
<1>2. /\ mig.op = "down" /\ mig.pc = "write"
      /\ UNCHANGED <<database, ledger, failures, downgrades, writes>>
  BY DEF UpdateTask, At, Bookkeeping
<1>3. /\ view \in Contents /\ mig \in MigType
      /\ mig.queue \in [Tasks -> Counts] /\ view.payload \in [Tasks -> Payload]
  BY DEF IInv, TypeOK, Contents, MigType, Payload
<1> DEFINE merged == Merge(mig.queue[t])
<1>4. /\ merged \in Payload /\ merged.runs = mig.queue[t] /\ Readable(merged)
  BY <1>3, MergeReads
<1>5. SameResults(mig.queue[t], ledger[t])
  BY <1>1, <1>2 DEF IInv, Downward
<1>6. /\ view' = [view EXCEPT !.payload = [view.payload EXCEPT ![t] = merged]]
      /\ mig' = [mig EXCEPT !.queue = [mig.queue EXCEPT ![t] = Nothing]]
  BY <1>1
<1> HIDE DEF merged
<1>7. /\ view' \in Contents
      /\ view'.payload = [view.payload EXCEPT ![t] = merged]
      /\ view'.rev = view.rev /\ view'.rows = view.rows
      /\ view'.table = view.table /\ view'.column = view.column
  BY <1>3, <1>4, <1>6 DEF Contents, Payload
<1>8. /\ mig' \in MigType /\ mig'.queue = [mig.queue EXCEPT ![t] = Nothing]
      /\ mig'.op = "down" /\ mig'.pc = "write"
  BY <1>2, <1>3, <1>6, CountsTyped DEF MigType
<1>9. ASSUME NEW u \in Tasks
      PROVE  IF mig'.queue[u] = Nothing
             THEN /\ SameResults(view'.payload[u].runs, ledger[u])
                  /\ Readable(view'.payload[u])
             ELSE SameResults(mig'.queue[u], ledger[u])
  <2>1. CASE u = t
    BY <1>3, <1>4, <1>5, <1>7, <1>8, <2>1
  <2>2. CASE u # t
    <3>1. mig'.queue[u] = mig.queue[u] /\ view'.payload[u] = view.payload[u]
      BY <1>3, <1>7, <1>8, <2>2
    <3>2. QED
      BY <1>2, <3>1 DEF IInv, Downward
  <2>3. QED
    BY <2>1, <2>2
<1>10. TypeOK'
  BY <1>1, <1>2, <1>7, <1>8 DEF IInv, TypeOK, MigType
<1>11. Settled'
  BY <1>1, <1>2 DEF IInv, Settled, Found
<1>12. Stages' /\ Schema'
  BY <1>1, <1>2, <1>7, <1>8 DEF IInv, Stages, Schema, TransactionalDdl
<1>13. Upward' /\ Downward'
  BY <1>2, <1>8, <1>9 DEF Upward, Downward
<1>14. QED
  BY <1>10, <1>11, <1>12, <1>13 DEF IInv

LEMMA DropTableStep ==
    ASSUME IInv, DropTable
    PROVE  IInv'
<1> DEFINE db == [view EXCEPT !.table = FALSE, !.rows = NoRows]
<1>1. /\ mig.op = "down" /\ mig.pc = "write" /\ mig.queue = NoRows /\ Ddl(db)
      /\ mig' = [mig EXCEPT !.pc = "stamp"]
      /\ UNCHANGED <<database, ledger, failures, downgrades, writes>>
  BY DEF DropTable, At, GoTo, Bookkeeping
<1>2. /\ view \in Contents /\ disk \in Contents /\ open \in BOOLEAN
      /\ mig \in MigType /\ disk.rev = "v3" /\ view.rev = "v3"
      /\ ~open => view = disk
  BY <1>1 DEF IInv, TypeOK, MigType, Stages
<1>3. /\ db \in Contents /\ db.rev = "v3" /\ db.rows = NoRows
      /\ ~db.table /\ db.column = view.column /\ db.payload = view.payload
  BY <1>2, CountsTyped DEF Contents
<1> HIDE DEF db
<1>4. /\ view' = db /\ open' \in BOOLEAN
      /\ \/ disk' = disk /\ open'
         \/ ~TransactionalDdl /\ ~open /\ disk' = db /\ ~open'
  BY <1>1, <1>2, DdlCases
<1>5. mig' \in MigType /\ mig'.op = "down" /\ mig'.pc = "stamp"
  BY <1>1, <1>2 DEF MigType
<1>6. \A t \in Tasks : /\ SameResults(view.payload[t].runs, ledger[t])
                       /\ Readable(view.payload[t])
  <2>1. \A t \in Tasks : mig.queue[t] = Nothing
    BY <1>1 DEF NoRows
  <2>2. QED
    BY <1>1, <2>1 DEF IInv, Downward
<1>7. \A t \in Tasks : NoRows[t] = Nothing /\ NoneMissing(NoRows[t])
  BY CountsTyped DEF NoRows
<1>8. TypeOK'
  <2>1. \A t \in Tasks, v \in Values : view'.rows[t][v]["missing"] = 0
    BY <1>3, <1>4, <1>7 DEF NoneMissing
  <2>2. database' \in Databases /\ ledger' \in [Tasks -> Counts]
        /\ failures' \in 0 .. MaxFailures /\ downgrades' \in 0 .. MaxDowngrades
        /\ writes' \in 0 .. MaxWrites
    BY <1>1 DEF IInv, TypeOK
  <2>3. disk' \in Contents /\ view' \in Contents /\ (~open' => view' = disk')
    BY <1>2, <1>3, <1>4
  <2>4. QED
    BY <1>4, <1>5, <2>1, <2>2, <2>3 DEF TypeOK, MigType
<1>9. Settled'
  <2>1. CASE disk' = disk
    BY <1>1, <2>1 DEF IInv, Settled, Found
  <2>2. CASE ~open /\ disk' = db
    <3>1. \A t \in Tasks : disk'.payload[t] = NoJson
      BY <1>2, <1>3, <2>2 DEF IInv, Settled
    <3>2. \A t \in Tasks : SameResults(disk'.rows[t], ledger[t])
      <4>1. \A t \in Tasks : view.payload[t].runs = disk'.rows[t]
        BY <1>3, <1>7, <2>2, <3>1 DEF NoJson
      <4>2. QED
        BY <1>6, <4>1
    <3>3. QED
      BY <1>1, <1>3, <1>7, <2>2, <3>1, <3>2, CountsTyped DEF Settled, Found
  <2>3. QED
    BY <1>4, <2>1, <2>2
<1>10. Stages'
  BY <1>2, <1>3, <1>4, <1>5 DEF Stages
<1>11. Upward' /\ Downward'
  BY <1>1, <1>3, <1>4, <1>5, <1>6 DEF Upward, Downward
<1>12. Schema'
  <2>1. TransactionalDdl => /\ disk' = disk /\ view.column
                            /\ disk.table = TRUE /\ disk.column = FALSE
    BY <1>1, <1>2, <1>4 DEF IInv, Schema
  <2>2. view'.table = FALSE /\ (view.column => view'.column = TRUE)
    BY <1>2, <1>3, <1>4 DEF Contents
  <2>3. TransactionalDdl' = TransactionalDdl
    BY <1>1 DEF TransactionalDdl
  <2>4. QED
    BY <1>2, <1>5, <2>1, <2>2, <2>3 DEF Schema
<1>13. QED
  BY <1>8, <1>9, <1>10, <1>11, <1>12 DEF IInv

\* The version is stamped and all of it committed.
LEMMA StampStep ==
    ASSUME IInv, Stamp
    PROVE  IInv'
<1>1. /\ mig.pc = "stamp" /\ disk' = view' /\ open' = FALSE /\ mig' = Idle
      /\ view' = [view EXCEPT !.rev = IF mig.op = "up" THEN "v3" ELSE "v2"]
      /\ UNCHANGED <<database, ledger, failures, downgrades, writes>>
  BY DEF Stamp, Bookkeeping
<1>2. /\ view \in Contents /\ mig \in MigType /\ mig.op \in {"up", "down"}
      /\ \A t \in Tasks : NoneMissing(view.rows[t])
  BY <1>1 DEF IInv, TypeOK, MigType, Stages, Idle, NoneMissing
<1>3. /\ view' \in Contents /\ view'.rows = view.rows
      /\ view'.payload = view.payload
      /\ view'.table = view.table /\ view'.column = view.column
      /\ view'.rev = IF mig.op = "up" THEN "v3" ELSE "v2"
  BY <1>1, <1>2 DEF Contents
<1>4. mig' \in MigType /\ mig'.op = "none" /\ mig'.pc = "idle"
  BY <1>1, CountsTyped DEF Idle, MigType
<1>5. TypeOK'
  <2>1. \A t \in Tasks, v \in Values : view'.rows[t][v]["missing"] = 0
    BY <1>2, <1>3 DEF NoneMissing
  <2>2. database' \in Databases /\ ledger' \in [Tasks -> Counts]
        /\ failures' \in 0 .. MaxFailures /\ downgrades' \in 0 .. MaxDowngrades
        /\ writes' \in 0 .. MaxWrites
    BY <1>1 DEF IInv, TypeOK
  <2>3. open' \in BOOLEAN
    BY <1>1
  <2>4. QED
    BY <1>1, <1>3, <1>4, <2>1, <2>2, <2>3 DEF TypeOK, MigType
<1>6. Settled'
  <2>1. CASE mig.op = "up"
    <3>1. \A t \in Tasks : /\ SameResults(view.rows[t], ledger[t])
                           /\ view.payload[t] = NoJson
      BY <1>1, <2>1 DEF IInv, Upward
    <3>2. QED
      BY <1>1, <1>2, <1>3, <2>1, <3>1, CountsTyped DEF Settled, Found
  <2>2. CASE mig.op = "down"
    <3>1. /\ view.rows = NoRows
          /\ \A t \in Tasks : /\ SameResults(view.payload[t].runs, ledger[t])
                              /\ Readable(view.payload[t])
      BY <1>1, <2>2 DEF IInv, Downward
    <3>2. QED
      BY <1>1, <1>2, <1>3, <2>2, <3>1 DEF Settled, Found
  <2>3. QED
    BY <1>2, <2>1, <2>2
<1>7. Stages' /\ Upward' /\ Downward'
  BY <1>1, <1>4 DEF Stages, Upward, Downward
<1>8. Schema'
  BY <1>1, <1>2, <1>3, <1>4 DEF IInv, Schema, TransactionalDdl
<1>9. QED
  BY <1>5, <1>6, <1>7, <1>8 DEF IInv

-----------------------------------------------------------------------------
LEMMA StepInvariant == IInv /\ [Next]_vars => IInv'
<1>1. SUFFICES ASSUME IInv, [Next]_vars
               PROVE  IInv'
  OBVIOUS
<1>2. CASE UNCHANGED vars
  <2>1. TypeOK'
    BY <1>1, <1>2 DEF vars, IInv, TypeOK
  <2>2. Settled'
    BY <1>1, <1>2 DEF vars, IInv, Settled, Found
  <2>3. Stages' /\ Schema'
    BY <1>1, <1>2 DEF vars, IInv, Stages, Schema, TransactionalDdl
  <2>4. Upward' /\ Downward'
    BY <1>1, <1>2 DEF vars, IInv, Upward, Downward
  <2>5. QED
    BY <2>1, <2>2, <2>3, <2>4 DEF IInv
<1>3. CASE Upgrading
  BY <1>1, <1>3, CreateStep, ReadPayloadsStep, InsertRowStep, DropColumnStep
  DEF Upgrading
<1>4. CASE Downgrading
  BY <1>1, <1>4, CreateStep, ReadRowsStep, UpdateTaskStep, DropTableStep
  DEF Downgrading
<1>5. CASE StartUpgrade \/ StartDowngrade \/ Stamp \/ Refused \/ Fail \/ WriteSample
  BY <1>1, <1>5, StartStep, StampStep, RefusedStep, WriteStep
<1>6. QED
  BY <1>1, <1>2, <1>3, <1>4, <1>5 DEF Next, Migrating

(* The types, and that a stored row has a finish time.                     *)
THEOREM TypesHold == Spec => []TypeOK
<1>1. IInv => TypeOK
  BY DEF IInv
<1>2. QED
  BY <1>1, InitInvariant, StepInvariant, PTL DEF Spec

(* AC-7.5 for every database content, on PostgreSQL and on SQLite: no      *)
(* migration, and no migration that failed, loses, doubles or alters a     *)
(* result.                                                                 *)
THEOREM ResultsKept == Spec => []ResultsSurvive
<1>1. IInv => ResultsSurvive
  BY DEF IInv, Settled, ResultsSurvive
<1>2. QED
  BY <1>1, InitInvariant, StepInvariant, PTL DEF Spec

(* On PostgreSQL no intermediate schema is ever committed.                 *)
THEOREM SchemaFollowsRevision == Spec => []SchemaMatchesRevision
<1>1. IInv => SchemaMatchesRevision
  BY DEF IInv, Schema, SchemaMatchesRevision
<1>2. QED
  BY <1>1, InitInvariant, StepInvariant, PTL DEF Spec
=============================================================================
