------------------------- MODULE TaskRunsProperties -------------------------
(***************************************************************************)
(* What the task store and the run drivers of TaskRuns must keep, and the  *)
(* abstract machine one worker implements.                                 *)
(***************************************************************************)
EXTENDS TaskRuns

SingleWorker == \A v, w \in Workers : v = w

LivePcs == {"exec", "result", "result.mirror", "status"}
Live(r) == run[r].pc \in LivePcs
RunsOf(t) == {r \in RunIds : Live(r) /\ run[r].task = t}

-----------------------------------------------------------------------------
LoopPcs == {"idle", "create.commit", "create.mirror", "delete.commit",
            "delete.mirror", "start.update", "start.mirror", "start.spawn"}
RunPcs == LivePcs \cup {"unused", "status.mirror", "ended"}

Handlers == [pc : LoopPcs, task : TaskIds \cup {None}, name : Names \cup {None},
             victims : SUBSET TaskIds, rows : SUBSET RunIds]
Threads == [worker : Workers \cup {None}, task : TaskIds \cup {None},
            pc : RunPcs, state : Terminal \cup {None}]

(* Every row, mirror entry, handler and run thread holds a value of the    *)
(* kind the code stores there.                                             *)
TypeOK ==
    /\ status \in [TaskIds -> Stored]
    /\ nameOf \in [TaskIds -> Names \cup {None}]
    /\ results \subseteq RunIds
    /\ mem \in [Workers -> [TaskIds -> Stored]]
    /\ memResults \in [Workers -> SUBSET RunIds]
    /\ loop \in [Workers -> Handlers]
    /\ run \in [RunIds -> Threads]
    /\ up \in [Workers -> BOOLEAN]
    /\ faults \in 0..MaxFaults
    /\ crashes \in 0..MaxCrashes
    /\ shutdowns \in 0..MaxShutdowns

(* The 409 guard of start_run: at no time do two threads execute the same  *)
(* task, although the guard reads the status in one transaction and claims *)
(* the task in a second one, and the thread starts after both.             *)
AtMostOneLiveRun ==
    \A r1, r2 \in RunIds :
        Live(r1) /\ Live(r2) /\ run[r1].task = run[r2].task => r1 = r2

(* _drive_run commits the result before the status: a client that reads a  *)
(* terminal status finds a run in the history whose exit code explains it, *)
(* whatever other workers, deletes and crashes do in between.              *)
TerminalStatusBacked ==
    \A t \in TaskIds :
        status[t] \in Terminal =>
            \E r \in RowsOf({t}) : ExitOf(r) = ExitFor(status[t])

(* The status machine of start_run and _drive_run: pending -> running ->   *)
(* done | failed | timeout, a terminal task may run again, and a run that  *)
(* settles never overwrites a status another run has settled.              *)
LegalMove(t) ==
    \/ status'[t] = status[t]
    \/ status[t] = "absent" /\ status'[t] = "pending" /\ nameOf[t] = None
    \/ status[t] \in {"pending"} \cup Terminal /\ status'[t] = "running"
    \/ status[t] = "running" /\ status'[t] \in Terminal
    \/ status'[t] = "absent"
OnlyLegalMoves == [][\A t \in TaskIds : LegalMove(t)]_vars

(* Deleting a task takes its history with it: a task_results row never     *)
(* outlives its task, not even when the delete races the run's own insert. *)
NoOrphanResults == \A r \in results : status[run[r].task] # "absent"

(* create evicts the tasks that carry the name before it inserts, so a     *)
(* name identifies at most one stored task.                                *)
NamesDistinct ==
    \A t, u \in TaskIds :
        /\ status[t] # "absent"
        /\ status[u] # "absent"
        /\ nameOf[t] = nameOf[u]
        => t = u

(* delete answers 404 from what the database and the mirror hold: between  *)
(* requests, and until a restart empties it, the mirror of a worker that   *)
(* serves alone knows exactly the stored tasks, whatever transactions      *)
(* failed before.                                                          *)
MirrorKnowsStoredTasks ==
    crashes + shutdowns = 0 =>
        \A w \in Workers : loop[w].pc = "idle" =>
            \A t \in TaskIds : (mem[w][t] = "absent") <=> (status[t] = "absent")

(* start_run claims the task before it has a thread for it, and _drive_run *)
(* gives it up as its last transaction: while nothing fails, a task that   *)
(* reads running has a thread that will settle it or a handler that is     *)
(* about to start one, whichever workers claim, settle or delete it.       *)
Driven(t) ==
    \/ RunsOf(t) # {}
    \/ \E w \in Workers : /\ loop[w].pc \in {"start.mirror", "start.spawn"}
                          /\ loop[w].task = t
RunningIsDriven ==
    faults + crashes + shutdowns = 0 /\ ResultInsertable =>
        \A t \in TaskIds : status[t] = "running" => Driven(t)

-----------------------------------------------------------------------------
(* The inductive strengthenings: what makes TerminalStatusBacked stable,   *)
(* and what makes AtMostOneLiveRun stable under one worker.                *)

Started(r) == run[r].pc # "unused"
Executed(r) == run[r].pc \in {"result", "result.mirror", "status", "status.mirror"}
Starting(w) == loop[w].pc \in {"start.update", "start.mirror", "start.spawn"}

(* Whatever names a task names one that was once created, so a row that    *)
(* went away does not come back under a run or a handler that knew it.     *)
TasksDrawn ==
    /\ \A t \in TaskIds : status[t] # "absent" => t \in Drawn
    /\ \A r \in RunIds : IF Started(r) THEN run[r].task \in Drawn
                                       ELSE run[r].worker = None
    /\ \A w \in Workers : Starting(w) => loop[w].task \in Drawn
    /\ \A w \in Workers : loop[w].pc = "create.commit" => loop[w].name \in Names

(* A run has an outcome once it executed.                                  *)
OutcomeKnown == \A r \in RunIds : Executed(r) => run[r].state \in Terminal

(* The row of a run stays until its task goes, and the rows a handler is   *)
(* about to delete belong to its victims.                                  *)
RowsFollowRuns ==
    /\ \A r \in results : Started(r) /\ run[r].pc \notin {"exec", "result"}
    /\ \A r \in RunIds :
         /\ run[r].pc \in {"result.mirror", "status"}
         /\ status[run[r].task] # "absent"
         => r \in results
    /\ \A w \in Workers : \A r \in loop[w].rows :
         Started(r) /\ run[r].pc \notin {"exec", "result"}
                    /\ run[r].task \in loop[w].victims

(* For every deployment: the history backs the statuses.                   *)
HistoryInv ==
    OutcomeKnown /\ TasksDrawn /\ RowsFollowRuns /\ TerminalStatusBacked

(* For one worker: a live run holds its task in running, and the handler   *)
(* that is about to start a run has the task for itself.                   *)
ClaimInv ==
    /\ AtMostOneLiveRun
    /\ \A r \in RunIds : Live(r) => status[run[r].task] \in {"running", "absent"}
    /\ \A w \in Workers :
         Starting(w) =>
           /\ \A r \in RunIds : ~(Live(r) /\ run[r].task = loop[w].task)
           /\ loop[w].pc = "start.update" => status[loop[w].task] # "running"
           /\ loop[w].pc # "start.update"
                => status[loop[w].task] \in {"running", "absent"}

(* What a handler is about to delete: a create the tasks that bore the     *)
(* name when it looked, and with one worker all that bear it since; a      *)
(* delete the task it was asked for.                                       *)
VictimsInv ==
    /\ \A w \in Workers : loop[w].pc = "create.commit" =>
          /\ Homonyms(loop[w].name) \subseteq loop[w].victims
          /\ \A u \in loop[w].victims : nameOf[u] = loop[w].name
    /\ \A w \in Workers : loop[w].pc = "delete.commit" =>
          loop[w].victims = {loop[w].task} /\ loop[w].task \in Drawn

(* For one worker that was never restarted: its mirror knows the stored    *)
(* tasks, except those its handler has yet to enter or to take out.        *)
Agree(w, t) == (mem[w][t] = "absent") <=> (status[t] = "absent")
MirrorInv ==
    crashes + shutdowns = 0 =>
        \A w \in Workers :
            /\ loop[w].pc \notin {"create.mirror", "delete.mirror"} =>
                   \A t \in TaskIds : Agree(w, t)
            /\ loop[w].pc = "create.mirror" =>
                   /\ loop[w].task \in TaskIds /\ status[loop[w].task] # "absent"
                   /\ nameOf[loop[w].task] = loop[w].name
                   /\ \A t \in TaskIds : nameOf[t] # loop[w].name => Agree(w, t)
            /\ loop[w].pc = "delete.mirror" =>
                   /\ loop[w].task \in TaskIds /\ status[loop[w].task] = "absent"
                   /\ \A t \in TaskIds \ {loop[w].task} : Agree(w, t)

-----------------------------------------------------------------------------
(* What the two promises below are made for: nothing has failed so far.    *)
Disturbed == faults + crashes + shutdowns > 0

(* A claimed task does not stay claimed: the run that was accepted settles *)
(* it, or the task is deleted -- unless a transaction, a thread or the     *)
(* worker fails on the way, which strands it (nothing restarts a run).     *)
RunningSettles ==
    \A t \in TaskIds :
        status[t] = "running" ~> (status[t] # "running" \/ Disturbed)

(* The run_id of a 202 answer is worth polling: its result arrives in the  *)
(* history, unless its task is deleted first or something fails.           *)
Gone(r) == \E t \in TaskIds : run[r].task = t /\ status[t] = "absent"
AcceptedRunRecorded ==
    \A r \in RunIds :
        run[r].pc = "exec" ~> (r \in results \/ Gone(r) \/ Disturbed)

-----------------------------------------------------------------------------
(* One worker implements the abstract machine: the phase of a task is its  *)
(* status, and what is on record is the exit code the live run of a        *)
(* running task has already inserted.                                      *)
Inserted(t) == RunsOf(t) \cap results
Phase(t) ==
    IF status[t] # "absent" THEN status[t]
    ELSE IF nameOf[t] = None THEN "unborn" ELSE "deleted"
OnRecord(t) ==
    IF status[t] = "running" /\ Inserted(t) # {}
    THEN ExitOf(CHOOSE r \in Inserted(t) : TRUE) ELSE "none"

Machine == INSTANCE TaskMachine WITH
    phase <- [t \in TaskIds |-> Phase(t)],
    recorded <- [t \in TaskIds |-> OnRecord(t)]

(* Every behaviour of the handlers, threads, faults and crashes of one     *)
(* worker is a behaviour of the abstract machine.                          *)
ImplementsMachine == Machine!Spec
=============================================================================
