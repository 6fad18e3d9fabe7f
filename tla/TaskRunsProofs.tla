--------------------------- MODULE TaskRunsProofs ---------------------------
(***************************************************************************)
(* Proofs about TaskRuns, for every number of workers, tasks, runs and     *)
(* names, both dialects and both schemas.                                  *)
(***************************************************************************)
EXTENDS TaskRunsProperties, TLAPS

(* Moving a handler or a thread on keeps its record well-typed.            *)
LEMMA HandlerTyped ==
  ASSUME NEW h \in Handlers, NEW pc \in LoopPcs
  PROVE  /\ [h EXCEPT !.pc = pc] \in Handlers
         /\ \A t \in TaskIds : [h EXCEPT !.pc = pc, !.task = t] \in Handlers
  BY DEF Handlers

LEMMA IdleTyped == Idle \in Handlers
  BY DEF Idle, Handlers, LoopPcs

LEMMA ThreadTyped ==
  ASSUME NEW h \in Threads, NEW pc \in RunPcs
  PROVE  /\ [h EXCEPT !.pc = pc] \in Threads
         /\ \A s \in Terminal : [h EXCEPT !.pc = pc, !.state = s] \in Threads
  BY DEF Threads

(* The types are kept by every step.  What a driver writes to tasks.status *)
(* is the outcome of its run, so they depend on the run having one.        *)
LEMMA TypeStep ==
  ASSUME TypeOK, OutcomeKnown, [Next]_vars
  PROVE  TypeOK'
<1> USE DEF OutcomeKnown, Executed, TypeOK, LoopPcs, RunPcs, LivePcs, Stored, Statuses, Terminal,
            Idle, bounds
<1>1. ASSUME NEW w \in Workers, NEW n \in Names, CreateRead(w, n)
      PROVE  TypeOK'
  BY <1>1 DEF Handlers, CreateRead, Homonyms, RowsOf
<1>2. ASSUME NEW w \in Workers, CreateCommit(w) PROVE TypeOK'
  <2>1. PICK t \in TaskIds \ Drawn :
          /\ status' = [u \in TaskIds |->
                          IF u = t THEN "pending"
                          ELSE IF u \in loop[w].victims THEN "absent"
                          ELSE status[u]]
          /\ nameOf' = [nameOf EXCEPT ![t] = loop[w].name]
          /\ loop' = [loop EXCEPT ![w].pc = "create.mirror", ![w].task = t]
    BY <1>2 DEF CreateCommit
  <2>2. status' \in [TaskIds -> Stored]
    BY <2>1
  <2>3. nameOf' \in [TaskIds -> Names \cup {None}]
    BY <2>1 DEF Handlers
  <2>4. loop' \in [Workers -> Handlers]
    BY <2>1, HandlerTyped
  <2> QED
    BY <1>2, <2>2, <2>3, <2>4 DEF CreateCommit
<1>3. ASSUME NEW w \in Workers, CreateRefused(w) PROVE TypeOK'
  BY <1>3 DEF Handlers, CreateRefused, Answer
<1>4. ASSUME NEW w \in Workers, CreateMirror(w) PROVE TypeOK'
  BY <1>4 DEF Handlers, CreateMirror, Answer
<1>5. ASSUME NEW w \in Workers, NEW t \in TaskIds, DeleteRead(w, t)
      PROVE  TypeOK'
  BY <1>5 DEF Handlers, DeleteRead, RowsOf
<1>6. ASSUME NEW w \in Workers, DeleteCommit(w) PROVE TypeOK'
  BY <1>6, HandlerTyped DEF DeleteCommit, Goto
<1>7. ASSUME NEW w \in Workers, DeleteRefused(w) PROVE TypeOK'
  BY <1>7 DEF Handlers, DeleteRefused, Answer
<1>8. ASSUME NEW w \in Workers, DeleteMirror(w) PROVE TypeOK'
  BY <1>8 DEF Handlers, DeleteMirror, Answer
<1>9. ASSUME NEW w \in Workers, NEW t \in TaskIds, StartGet(w, t)
      PROVE  TypeOK'
  BY <1>9 DEF Handlers, StartGet
<1>10. ASSUME NEW w \in Workers, StartUpdate(w) PROVE TypeOK'
  BY <1>10, HandlerTyped DEF StartUpdate, Goto
<1>11. ASSUME NEW w \in Workers, StartVanished(w) PROVE TypeOK'
  <2>1. ASSUME Goto(w, "start.spawn") PROVE loop' \in [Workers -> Handlers]
    BY <2>1, HandlerTyped DEF Goto
  <2>2. ASSUME Answer(w) PROVE loop' \in [Workers -> Handlers]
    BY <2>2, IdleTyped DEF Answer
  <2> QED
    BY <1>11, <2>1, <2>2 DEF StartVanished
<1>12. ASSUME NEW w \in Workers, StartMirror(w) PROVE TypeOK'
  <2>1. loop' \in [Workers -> Handlers]
    BY <1>12, HandlerTyped DEF StartMirror, Goto
  <2>2. [mem[w] EXCEPT ![loop[w].task] =
            IF @ = "absent" THEN "absent" ELSE "running"] \in [TaskIds -> Stored]
    OBVIOUS
  <2>3. mem' \in [Workers -> [TaskIds -> Stored]]
    BY <1>12, <2>2 DEF StartMirror
  <2> QED
    BY <1>12, <2>1, <2>3 DEF StartMirror
<1>13. ASSUME NEW w \in Workers, StartSpawn(w) PROVE TypeOK'
  BY <1>13 DEF Handlers, Threads, Handlers, StartSpawn, Answer, Unused
<1>14. ASSUME NEW r \in RunIds, NEW s \in Terminal, Execute(r, s)
       PROVE  TypeOK'
  BY <1>14, ThreadTyped DEF Execute
<1>15. ASSUME NEW r \in RunIds, ResultCommit(r) PROVE TypeOK'
  BY <1>15, ThreadTyped DEF ResultCommit, RunGoto
<1>16. ASSUME NEW r \in RunIds, ResultRefused(r) PROVE TypeOK'
  BY <1>16, ThreadTyped DEF ResultRefused, RunGoto
<1>17. ASSUME NEW r \in RunIds, ResultMirror(r) PROVE TypeOK'
  BY <1>17, ThreadTyped DEF ResultMirror, RunGoto
<1>18. ASSUME NEW r \in RunIds, StatusCommit(r) PROVE TypeOK'
  BY <1>18, ThreadTyped DEF StatusCommit, RunGoto
<1>19. ASSUME NEW r \in RunIds, StatusVanished(r) PROVE TypeOK'
  BY <1>19, ThreadTyped DEF StatusVanished, RunGoto
<1>20. ASSUME NEW r \in RunIds, StatusMirror(r) PROVE TypeOK'
  <2>1. run' \in [RunIds -> Threads]
    BY <1>20, ThreadTyped DEF StatusMirror, RunGoto
  <2>2. run[r].state \in Stored
    BY <1>20 DEF StatusMirror
  <2>3. \A w \in Workers :
          [mem[w] EXCEPT ![run[r].task] =
             IF @ = "absent" THEN "absent" ELSE run[r].state]
               \in [TaskIds -> Stored]
    BY <2>2
  <2>4. mem' \in [Workers -> [TaskIds -> Stored]]
    BY <1>20, <2>3 DEF StatusMirror
  <2> QED
    BY <1>20, <2>1, <2>4 DEF StatusMirror
<1>21. ASSUME NEW w \in Workers, LoopFault(w) PROVE TypeOK'
  BY <1>21, BoundsAssumption DEF Handlers, LoopFault, Answer
<1>22. ASSUME NEW r \in RunIds, RunFault(r) PROVE TypeOK'
  <2>1. run' \in [RunIds -> Threads]
    BY <1>22, ThreadTyped DEF RunFault, RunGoto
  <2>2. faults' \in 0..MaxFaults
    BY <1>22, BoundsAssumption DEF RunFault
  <2> QED
    BY <1>22, <2>1, <2>2 DEF RunFault
<1>23. ASSUME NEW w \in Workers, Crash(w) PROVE TypeOK'
  <2>1. run' \in [RunIds -> Threads]
    BY <1>23, ThreadTyped DEF Crash, Die
  <2>2. loop' \in [Workers -> Handlers]
    BY <1>23, IdleTyped DEF Crash, Die, Answer
  <2>3. crashes' \in 0..MaxCrashes
    BY <1>23, BoundsAssumption DEF Crash
  <2> QED
    BY <1>23, <2>1, <2>2, <2>3 DEF Crash, Die
<1>24. ASSUME NEW w \in Workers, Shutdown(w) PROVE TypeOK'
  <2>1. run' \in [RunIds -> Threads]
    BY <1>24, ThreadTyped DEF Shutdown, Die
  <2>2. loop' \in [Workers -> Handlers]
    BY <1>24, IdleTyped DEF Shutdown, Die, Answer
  <2>3. shutdowns' \in 0..MaxShutdowns
    BY <1>24, BoundsAssumption DEF Shutdown
  <2> QED
    BY <1>24, <2>1, <2>2, <2>3 DEF Shutdown, Die
<1>25. ASSUME NEW w \in Workers, Restart(w) PROVE TypeOK'
  BY <1>25 DEF Restart
<1>26. CASE UNCHANGED vars
  BY <1>26 DEF vars
<1> QED
  BY <1>1, <1>2, <1>3, <1>4, <1>5, <1>6, <1>7, <1>8, <1>9, <1>10, <1>11,
     <1>12, <1>13, <1>14, <1>15, <1>16, <1>17, <1>18, <1>19, <1>20, <1>21,
     <1>22, <1>23, <1>24, <1>25, <1>26
     DEF Next, Request, LoopStep, RunStep, Failure

(* A run has an outcome from the step that executes it on.                 *)
LEMMA OutcomeStep ==
  ASSUME TypeOK, OutcomeKnown, [Next]_vars
  PROVE  OutcomeKnown'
<1> USE DEF OutcomeKnown, Executed, TypeOK, Threads
<1>1. CASE UNCHANGED run
  BY <1>1
<1>2. ASSUME NEW w \in Workers, StartSpawn(w) PROVE OutcomeKnown'
  BY <1>2 DEF StartSpawn
<1>3. ASSUME NEW r \in RunIds, NEW s \in Terminal, Execute(r, s)
      PROVE  OutcomeKnown'
  BY <1>3 DEF Execute
<1>4. ASSUME NEW r \in RunIds, RunStep(r) PROVE OutcomeKnown'
  <2>1. ASSUME NEW pc \in RunPcs, RunGoto(r, pc), Executed(r) \/ pc = "ended"
        PROVE  OutcomeKnown'
    BY <2>1 DEF RunGoto, RunPcs
  <2> QED
    BY <1>3, <1>4, <2>1 DEF RunStep, ResultCommit, ResultRefused, ResultMirror,
       StatusCommit, StatusVanished, StatusMirror, RunPcs, LivePcs
<1>5. ASSUME NEW r \in RunIds, RunFault(r) PROVE OutcomeKnown'
  BY <1>5 DEF RunFault, RunGoto
<1>6. ASSUME NEW w \in Workers, Die(w) PROVE OutcomeKnown'
  BY <1>6 DEF Die
<1> QED
  BY <1>1, <1>2, <1>4, <1>5, <1>6
     DEF Next, vars, Request, LoopStep, Failure, CreateRead, CreateCommit,
         CreateRefused, CreateMirror, DeleteRead, DeleteCommit, DeleteRefused,
         DeleteMirror, StartGet, StartUpdate, StartVanished, StartMirror,
         LoopFault, Crash, Shutdown, Restart

LEMMA InitTyped == Init => TypeOK
  BY BoundsAssumption DEF Init, TypeOK, Idle, NoRun, Handlers, Threads,
     LoopPcs, RunPcs, LivePcs, Stored, Statuses, Terminal

(* The variables of the specification hold values of their types in every  *)
(* reachable state: no handler, thread, fault or crash breaks them.        *)
THEOREM TypeCorrect == Spec => [](TypeOK /\ OutcomeKnown)
<1>1. Init => TypeOK /\ OutcomeKnown
  BY InitTyped DEF OutcomeKnown, Executed, Init, NoRun
<1>2. TypeOK /\ OutcomeKnown /\ [Next]_vars => (TypeOK /\ OutcomeKnown)'
  BY TypeStep, OutcomeStep
<1> QED
  BY <1>1, <1>2, PTL DEF Spec

-----------------------------------------------------------------------------
(* How a step of a thread moves it on; every other thread stays as it was. *)
LEMMA ThreadMoves ==
  ASSUME TypeOK, NEW r \in RunIds, NEW pc \in RunPcs, RunGoto(r, pc)
  PROVE  \A q \in RunIds :
           /\ run'[q].task = run[q].task
           /\ run'[q].state = run[q].state
           /\ run'[q].worker = run[q].worker
           /\ run'[q].pc = IF q = r THEN pc ELSE run[q].pc
  BY DEF TypeOK, Threads, RunGoto

LEMMA ThreadExecutes ==
  ASSUME TypeOK, NEW r \in RunIds, NEW s \in Terminal, Execute(r, s)
  PROVE  /\ run[r].pc = "exec"
         /\ run'[r].task = run[r].task
         /\ run'[r].state = s
         /\ run'[r].pc = "result"
         /\ \A q \in RunIds \ {r} : run'[q] = run[q]
         /\ UNCHANGED <<status, nameOf, results, loop>>
  BY DEF TypeOK, Threads, Execute

LEMMA ThreadSpawns ==
  ASSUME TypeOK, NEW w \in Workers, StartSpawn(w)
  PROVE  /\ loop[w].pc = "start.spawn"
         /\ \E r \in RunIds :
              /\ run[r].pc = "unused"
              /\ run'[r].task = loop[w].task
              /\ run'[r].pc = "exec"
              /\ \A q \in RunIds \ {r} : run'[q] = run[q]
         /\ loop'[w].pc = "idle" /\ loop'[w].rows = {}
         /\ \A v \in Workers \ {w} : loop'[v] = loop[v]
         /\ UNCHANGED <<status, nameOf, results>>
  BY DEF TypeOK, StartSpawn, Unused, Answer, Idle

LEMMA ThreadsDie ==
  ASSUME TypeOK, NEW w \in Workers, Die(w)
  PROVE  \A q \in RunIds :
           /\ run'[q].task = run[q].task
           /\ run'[q].state = run[q].state
           /\ run'[q].worker = run[q].worker
           /\ run'[q].pc = IF run[q].worker = w THEN "ended" ELSE run[q].pc
  BY DEF TypeOK, Threads, Die

LEMMA OthersUntouched ==
  ASSUME TypeOK, NEW w \in Workers, Die(w)
  PROVE  /\ loop'[w].pc = "idle" /\ loop'[w].rows = {}
         /\ \A v \in Workers \ {w} : loop'[v] = loop[v]
         /\ UNCHANGED <<status, nameOf, results>>
  BY DEF TypeOK, Die, Answer, Idle

(* How a handler moves on.                                                 *)
LEMMA HandlerMoves ==
  ASSUME TypeOK, NEW w \in Workers, NEW pc \in LoopPcs, Goto(w, pc)
  PROVE  \A v \in Workers :
           /\ loop'[v].task = loop[v].task
           /\ loop'[v].name = loop[v].name
           /\ loop'[v].victims = loop[v].victims
           /\ loop'[v].rows = loop[v].rows
           /\ loop'[v].pc = IF v = w THEN pc ELSE loop[v].pc
  BY DEF TypeOK, Handlers, Goto

LEMMA HandlerAnswers ==
  ASSUME TypeOK, NEW w \in Workers, Answer(w)
  PROVE  \A v \in Workers : loop'[v] = IF v = w THEN Idle ELSE loop[v]
  BY DEF TypeOK, Answer

(* Tasks that runs and handlers know were created once.                    *)
LEMMA DrawnStep ==
  ASSUME TypeOK, TasksDrawn, [Next]_vars
  PROVE  TasksDrawn'
<1> USE DEF TasksDrawn, Drawn, Started, Starting
<1>1. ASSUME NEW w \in Workers, NEW n \in Names, CreateRead(w, n) PROVE TasksDrawn'
  BY <1>1 DEF CreateRead, Idle, Handlers, TypeOK
<1>2. ASSUME NEW w \in Workers, CreateCommit(w) PROVE TasksDrawn'
  BY <1>2, NoneAssumption DEF CreateCommit, Handlers, TypeOK
<1>3. ASSUME NEW w \in Workers, CreateRefused(w) PROVE TasksDrawn'
  BY <1>3, HandlerAnswers DEF CreateRefused, Idle
<1>4. ASSUME NEW w \in Workers, CreateMirror(w) PROVE TasksDrawn'
  BY <1>4, HandlerAnswers DEF CreateMirror, Idle
<1>5. ASSUME NEW w \in Workers, NEW t \in TaskIds, DeleteRead(w, t) PROVE TasksDrawn'
  BY <1>5 DEF DeleteRead, Idle, Handlers, TypeOK
<1>6. ASSUME NEW w \in Workers, DeleteCommit(w) PROVE TasksDrawn'
  BY <1>6, HandlerMoves DEF DeleteCommit, LoopPcs
<1>7. ASSUME NEW w \in Workers, DeleteRefused(w) PROVE TasksDrawn'
  BY <1>7, HandlerAnswers DEF DeleteRefused, Idle
<1>8. ASSUME NEW w \in Workers, DeleteMirror(w) PROVE TasksDrawn'
  BY <1>8, HandlerAnswers DEF DeleteMirror, Idle
<1>9. ASSUME NEW w \in Workers, NEW t \in TaskIds, StartGet(w, t) PROVE TasksDrawn'
  BY <1>9 DEF StartGet, Idle, Handlers, TypeOK, Startable
<1>10. ASSUME NEW w \in Workers, StartUpdate(w) PROVE TasksDrawn'
  BY <1>10, HandlerMoves DEF StartUpdate, LoopPcs
<1>11. ASSUME NEW w \in Workers, StartVanished(w) PROVE TasksDrawn'
  BY <1>11, HandlerMoves, HandlerAnswers DEF StartVanished, LoopPcs, Idle
<1>12. ASSUME NEW w \in Workers, StartMirror(w) PROVE TasksDrawn'
  BY <1>12, HandlerMoves DEF StartMirror, LoopPcs
<1>13. ASSUME NEW w \in Workers, StartSpawn(w) PROVE TasksDrawn'
  BY <1>13, ThreadSpawns
<1>14. ASSUME NEW w \in Workers, LoopFault(w) PROVE TasksDrawn'
  BY <1>14, HandlerAnswers DEF LoopFault, Idle
<1>15. ASSUME NEW w \in Workers, Crash(w) PROVE TasksDrawn'
  <2>1. Die(w)
    BY <1>15 DEF Crash
  <2>2. \A q \in RunIds : Started(q)' <=> Started(q)
    BY <2>1, ThreadsDie, NoneAssumption
  <2> QED
    BY <2>1, <2>2, ThreadsDie, OthersUntouched
<1>16. ASSUME NEW w \in Workers, Shutdown(w) PROVE TasksDrawn'
  <2>1. Die(w)
    BY <1>16 DEF Shutdown
  <2>2. \A q \in RunIds : Started(q)' <=> Started(q)
    BY <2>1, ThreadsDie, NoneAssumption
  <2> QED
    BY <2>1, <2>2, ThreadsDie, OthersUntouched
<1>17. ASSUME NEW w \in Workers, Restart(w) PROVE TasksDrawn'
  BY <1>17 DEF Restart
<1>18. ASSUME NEW r \in RunIds, NEW s \in Terminal, Execute(r, s) PROVE TasksDrawn'
  BY <1>18, ThreadExecutes
<1>19. ASSUME NEW r \in RunIds, ResultCommit(r) PROVE TasksDrawn'
  BY <1>19, ThreadMoves DEF ResultCommit, RunPcs, LivePcs
<1>20. ASSUME NEW r \in RunIds, ResultRefused(r) PROVE TasksDrawn'
  BY <1>20, ThreadMoves DEF ResultRefused, RunPcs, LivePcs
<1>21. ASSUME NEW r \in RunIds, ResultMirror(r) PROVE TasksDrawn'
  BY <1>21, ThreadMoves DEF ResultMirror, RunPcs, LivePcs
<1>22. ASSUME NEW r \in RunIds, StatusCommit(r) PROVE TasksDrawn'
  BY <1>22, ThreadMoves DEF StatusCommit, RunPcs, LivePcs
<1>23. ASSUME NEW r \in RunIds, StatusVanished(r) PROVE TasksDrawn'
  BY <1>23, ThreadMoves DEF StatusVanished, RunPcs, LivePcs
<1>24. ASSUME NEW r \in RunIds, StatusMirror(r) PROVE TasksDrawn'
  BY <1>24, ThreadMoves DEF StatusMirror, RunPcs, LivePcs
<1>25. ASSUME NEW r \in RunIds, RunFault(r) PROVE TasksDrawn'
  BY <1>25, ThreadMoves DEF RunFault, RunPcs, LivePcs
<1>26. CASE UNCHANGED vars
  BY <1>26 DEF vars
<1> QED
  BY <1>1, <1>2, <1>3, <1>4, <1>5, <1>6, <1>7, <1>8, <1>9, <1>10, <1>11,
     <1>12, <1>13, <1>14, <1>15, <1>16, <1>17, <1>18, <1>19, <1>20,
     <1>21, <1>22, <1>23, <1>24, <1>25, <1>26
     DEF Next, Request, LoopStep, RunStep, Failure

(* What update_status writes, and that it neither creates nor removes rows. *)
LEMMA StatusSettles ==
  ASSUME TypeOK, OutcomeKnown, NEW r \in RunIds, StatusCommit(r)
  PROVE  /\ run[r].state \in Terminal
         /\ \A t \in TaskIds :
              status'[t] = IF t = run[r].task THEN run[r].state ELSE status[t]
         /\ \A t \in TaskIds :
              status[t] # "absent" => status'[t] # "absent"
         /\ \A t \in TaskIds :
              status'[t] # "absent" => status[t] # "absent"
<1>1. run[r].state \in Terminal
  BY DEF OutcomeKnown, Executed, StatusCommit
<1> QED
  BY <1>1 DEF TypeOK, StatusCommit, Terminal

LEMMA StatusClaims ==
  ASSUME TypeOK, NEW w \in Workers, StartUpdate(w)
  PROVE  /\ \A t \in TaskIds :
              status'[t] = IF t = loop[w].task THEN "running" ELSE status[t]
         /\ \A t \in TaskIds : (status'[t] = "absent") <=> (status[t] = "absent")
  BY DEF TypeOK, StartUpdate

(* The ids in the database and in the handlers are run ids.                *)
LEMMA RowsAreRuns ==
  ASSUME TypeOK
  PROVE  results \subseteq RunIds /\ \A w \in Workers : loop[w].rows \subseteq RunIds
  BY DEF TypeOK, Handlers

(* A run's row stays until its task goes.                                  *)
LEMMA RowsStep ==
  ASSUME TypeOK, OutcomeKnown, TasksDrawn, RowsFollowRuns, [Next]_vars
  PROVE  RowsFollowRuns'
<1> USE DEF RowsFollowRuns, TasksDrawn, Drawn, Started
<1>1. ASSUME NEW w \in Workers, NEW n \in Names, CreateRead(w, n)
      PROVE  RowsFollowRuns'
  BY <1>1 DEF CreateRead, Idle, Handlers, TypeOK, RowsOf, Homonyms
<1>2. ASSUME NEW w \in Workers, CreateCommit(w) PROVE RowsFollowRuns'
  BY <1>2, RowsAreRuns DEF CreateCommit, Handlers, TypeOK
<1>3. ASSUME NEW w \in Workers, CreateRefused(w) PROVE RowsFollowRuns'
  BY <1>3, HandlerAnswers, RowsAreRuns DEF CreateRefused, Idle
<1>4. ASSUME NEW w \in Workers, CreateMirror(w) PROVE RowsFollowRuns'
  BY <1>4, HandlerAnswers, RowsAreRuns DEF CreateMirror, Idle
<1>5. ASSUME NEW w \in Workers, NEW t \in TaskIds, DeleteRead(w, t)
      PROVE  RowsFollowRuns'
  BY <1>5 DEF DeleteRead, Idle, Handlers, TypeOK, RowsOf
<1>6. ASSUME NEW w \in Workers, DeleteCommit(w) PROVE RowsFollowRuns'
  BY <1>6, HandlerMoves, RowsAreRuns DEF DeleteCommit, LoopPcs
<1>7. ASSUME NEW w \in Workers, DeleteRefused(w) PROVE RowsFollowRuns'
  BY <1>7, HandlerAnswers, RowsAreRuns DEF DeleteRefused, Idle
<1>8. ASSUME NEW w \in Workers, DeleteMirror(w) PROVE RowsFollowRuns'
  BY <1>8, HandlerAnswers, RowsAreRuns DEF DeleteMirror, Idle
<1>9. ASSUME NEW w \in Workers, NEW t \in TaskIds, StartGet(w, t)
      PROVE  RowsFollowRuns'
  BY <1>9, RowsAreRuns DEF StartGet, Idle, Handlers, TypeOK
<1>10. ASSUME NEW w \in Workers, StartUpdate(w) PROVE RowsFollowRuns'
  BY <1>10, HandlerMoves, RowsAreRuns, StatusClaims DEF StartUpdate, LoopPcs
<1>11. ASSUME NEW w \in Workers, StartVanished(w) PROVE RowsFollowRuns'
  BY <1>11, HandlerMoves, HandlerAnswers, RowsAreRuns DEF StartVanished,
     LoopPcs, Idle
<1>12. ASSUME NEW w \in Workers, StartMirror(w) PROVE RowsFollowRuns'
  BY <1>12, HandlerMoves, RowsAreRuns DEF StartMirror, LoopPcs
<1>13. ASSUME NEW w \in Workers, StartSpawn(w) PROVE RowsFollowRuns'
  BY <1>13, ThreadSpawns, RowsAreRuns
<1>14. ASSUME NEW w \in Workers, LoopFault(w) PROVE RowsFollowRuns'
  BY <1>14, HandlerAnswers, RowsAreRuns DEF LoopFault, Idle
<1>15. ASSUME NEW w \in Workers, Crash(w) PROVE RowsFollowRuns'
  <2>1. Die(w)
    BY <1>15 DEF Crash
  <2> QED
    BY <2>1, ThreadsDie, OthersUntouched, RowsAreRuns, NoneAssumption
<1>16. ASSUME NEW w \in Workers, Shutdown(w) PROVE RowsFollowRuns'
  <2>1. Die(w)
    BY <1>16 DEF Shutdown
  <2> QED
    BY <2>1, ThreadsDie, OthersUntouched, RowsAreRuns, NoneAssumption
<1>17. ASSUME NEW w \in Workers, Restart(w) PROVE RowsFollowRuns'
  BY <1>17, RowsAreRuns DEF Restart
<1>18. ASSUME NEW r \in RunIds, NEW s \in Terminal, Execute(r, s)
       PROVE  RowsFollowRuns'
  BY <1>18, ThreadExecutes, RowsAreRuns
<1>19. ASSUME NEW r \in RunIds, ResultCommit(r) PROVE RowsFollowRuns'
  <2>1. \A q \in RunIds : /\ run'[q].task = run[q].task
                          /\ run'[q].pc = IF q = r THEN "result.mirror" ELSE run[q].pc
    BY <1>19, ThreadMoves DEF ResultCommit, RunPcs, LivePcs
  <2>2. run[r].pc = "result" /\ results' = results \cup {r}
        /\ UNCHANGED <<status, loop>>
    BY <1>19 DEF ResultCommit
  <2> QED
    BY <2>1, <2>2, RowsAreRuns
<1>20. ASSUME NEW r \in RunIds, ResultRefused(r) PROVE RowsFollowRuns'
  <2>1. \A q \in RunIds : /\ run'[q].task = run[q].task
                          /\ run'[q].pc = IF q = r THEN "ended" ELSE run[q].pc
    BY <1>20, ThreadMoves DEF ResultRefused, RunPcs, LivePcs
  <2>2. run[r].pc = "result" /\ UNCHANGED <<status, results, loop>>
    BY <1>20 DEF ResultRefused
  <2> QED
    BY <2>1, <2>2, RowsAreRuns
<1>21. ASSUME NEW r \in RunIds, ResultMirror(r) PROVE RowsFollowRuns'
  <2>1. \A q \in RunIds : /\ run'[q].task = run[q].task
                          /\ run'[q].pc = IF q = r THEN "status" ELSE run[q].pc
    BY <1>21, ThreadMoves DEF ResultMirror, RunPcs, LivePcs
  <2>2. run[r].pc = "result.mirror" /\ UNCHANGED <<status, results, loop>>
    BY <1>21 DEF ResultMirror
  <2> QED
    BY <2>1, <2>2, RowsAreRuns
<1>22. ASSUME NEW r \in RunIds, StatusCommit(r) PROVE RowsFollowRuns'
  <2>1. \A q \in RunIds : /\ run'[q].task = run[q].task
                          /\ run'[q].pc = IF q = r THEN "status.mirror" ELSE run[q].pc
    BY <1>22, ThreadMoves DEF StatusCommit, RunPcs, LivePcs
  <2>2. run[r].pc = "status" /\ UNCHANGED <<results, loop>>
    BY <1>22 DEF StatusCommit
  <2> QED
    BY <2>1, <2>2, <1>22, RowsAreRuns, StatusSettles
<1>23. ASSUME NEW r \in RunIds, StatusVanished(r) PROVE RowsFollowRuns'
  <2>1. \A q \in RunIds : /\ run'[q].task = run[q].task
                          /\ run'[q].pc = IF q = r THEN "ended" ELSE run[q].pc
    BY <1>23, ThreadMoves DEF StatusVanished, RunPcs, LivePcs
  <2>2. run[r].pc = "status" /\ UNCHANGED <<status, results, loop>>
    BY <1>23 DEF StatusVanished
  <2> QED
    BY <2>1, <2>2, RowsAreRuns
<1>24. ASSUME NEW r \in RunIds, StatusMirror(r) PROVE RowsFollowRuns'
  <2>1. \A q \in RunIds : /\ run'[q].task = run[q].task
                          /\ run'[q].pc = IF q = r THEN "ended" ELSE run[q].pc
    BY <1>24, ThreadMoves DEF StatusMirror, RunPcs, LivePcs
  <2>2. run[r].pc = "status.mirror" /\ UNCHANGED <<status, results, loop>>
    BY <1>24 DEF StatusMirror
  <2> QED
    BY <2>1, <2>2, RowsAreRuns
<1>25. ASSUME NEW r \in RunIds, RunFault(r) PROVE RowsFollowRuns'
  <2>1. \A q \in RunIds : /\ run'[q].task = run[q].task
                          /\ run'[q].pc = IF q = r THEN "ended" ELSE run[q].pc
    BY <1>25, ThreadMoves DEF RunFault, RunPcs, LivePcs
  <2>2. run[r].pc \in {"result", "status"} /\ UNCHANGED <<status, results, loop>>
    BY <1>25 DEF RunFault
  <2> QED
    BY <2>1, <2>2, RowsAreRuns
<1>26. CASE UNCHANGED vars
  BY <1>26 DEF vars
<1> QED
  BY <1>1, <1>2, <1>3, <1>4, <1>5, <1>6, <1>7, <1>8, <1>9, <1>10, <1>11,
     <1>12, <1>13, <1>14, <1>15, <1>16, <1>17, <1>18, <1>19, <1>20, <1>21,
     <1>22, <1>23, <1>24, <1>25, <1>26
     DEF Next, Request, LoopStep, RunStep, Failure

(* What TerminalStatusBacked says of one task, and that it survives a step  *)
(* which leaves the status of the task and its rows alone.                 *)
Backed(t) ==
  status[t] \in Terminal =>
    \E r \in results : /\ run[r].task = t
                       /\ ExitFor(run[r].state) = ExitFor(status[t])

LEMMA BackedKept ==
  ASSUME NEW t \in TaskIds, Backed(t), status'[t] = status[t],
         \A r \in results : run[r].task = t =>
            r \in results' /\ run'[r].task = t /\ run'[r].state = run[r].state
  PROVE  Backed(t)'
  BY DEF Backed

(* The history goes on backing the statuses: rows leave only with their    *)
(* task, and a status becomes terminal only through the run whose row is   *)
(* already there.                                                          *)
LEMMA BackedStep ==
  ASSUME TypeOK, OutcomeKnown, TasksDrawn, RowsFollowRuns,
         TerminalStatusBacked, [Next]_vars
  PROVE  TerminalStatusBacked'
<1> SUFFICES ASSUME NEW t \in TaskIds PROVE Backed(t)'
  BY DEF TerminalStatusBacked, Backed, RowsOf, ExitOf
<1>0. Backed(t)
  BY DEF TerminalStatusBacked, Backed, RowsOf, ExitOf
<1>1. CASE UNCHANGED <<status, results, run>>
  BY <1>0, <1>1, BackedKept
<1>2. ASSUME NEW w \in Workers, CreateCommit(w) \/ DeleteCommit(w)
      PROVE  Backed(t)'
  <2>1. /\ UNCHANGED run
        /\ results' = results \ loop[w].rows
        /\ status'[t] \in {status[t], "absent", "pending"}
        /\ t \in loop[w].victims => status'[t] \notin Terminal
    BY <1>2 DEF CreateCommit, DeleteCommit, Terminal
  <2>2. CASE status'[t] # status[t] \/ t \in loop[w].victims
    BY <2>1, <2>2 DEF Backed, Terminal
  <2>3. CASE status'[t] = status[t] /\ t \notin loop[w].victims
    <3>1. \A r \in results : run[r].task = t => r \notin loop[w].rows
      BY <2>3 DEF RowsFollowRuns
    <3> QED
      BY <1>0, <2>1, <2>3, <3>1, BackedKept
  <2> QED
    BY <2>2, <2>3
<1>3. ASSUME NEW w \in Workers, StartUpdate(w) PROVE Backed(t)'
  <2>1. UNCHANGED <<results, run>>
    BY <1>3 DEF StartUpdate
  <2>2. CASE t = loop[w].task
    BY <1>3, <2>2, StatusClaims DEF Backed, Terminal
  <2>3. CASE t # loop[w].task
    BY <1>0, <1>3, <2>1, <2>3, StatusClaims, BackedKept
  <2> QED
    BY <2>2, <2>3
<1>4. ASSUME NEW w \in Workers, StartSpawn(w) PROVE Backed(t)'
  <2>1. \A q \in results : run'[q] = run[q]
    BY <1>4, ThreadSpawns, RowsAreRuns DEF RowsFollowRuns, Started
  <2> QED
    BY <1>0, <1>4, <2>1, ThreadSpawns, BackedKept
<1>5. ASSUME NEW r \in RunIds, NEW s \in Terminal, Execute(r, s)
      PROVE  Backed(t)'
  <2>1. \A q \in results : run'[q] = run[q]
    BY <1>5, ThreadExecutes, RowsAreRuns DEF RowsFollowRuns
  <2> QED
    BY <1>0, <1>5, <2>1, ThreadExecutes, BackedKept
<1>6. ASSUME NEW r \in RunIds,
             \/ ResultCommit(r) \/ ResultRefused(r) \/ ResultMirror(r)
             \/ StatusVanished(r) \/ StatusMirror(r) \/ RunFault(r)
      PROVE  Backed(t)'
  <2>1. \A q \in RunIds : run'[q].task = run[q].task /\ run'[q].state = run[q].state
    BY <1>6, ThreadMoves DEF ResultCommit, ResultRefused, ResultMirror,
       StatusVanished, StatusMirror, RunFault, RunPcs, LivePcs
  <2>2. UNCHANGED status /\ results \subseteq results'
    BY <1>6 DEF ResultCommit, ResultRefused, ResultMirror, StatusVanished,
       StatusMirror, RunFault
  <2> QED
    BY <1>0, <2>1, <2>2, RowsAreRuns, BackedKept
<1>7. ASSUME NEW r \in RunIds, StatusCommit(r) PROVE Backed(t)'
  <2>1. \A q \in RunIds : run'[q].task = run[q].task /\ run'[q].state = run[q].state
    BY <1>7, ThreadMoves DEF StatusCommit, RunPcs, LivePcs
  <2>2. UNCHANGED results /\ run[r].pc = "status" /\ status[run[r].task] # "absent"
    BY <1>7 DEF StatusCommit
  <2>3. CASE t = run[r].task
    <3>1. r \in results
      BY <2>2 DEF RowsFollowRuns
    <3>2. status'[t] = run[r].state
      BY <1>7, <2>3, StatusSettles
    <3> QED
      BY <2>1, <2>2, <2>3, <3>1, <3>2 DEF Backed
  <2>4. CASE t # run[r].task
    BY <1>0, <1>7, <2>1, <2>2, <2>4, StatusSettles, RowsAreRuns, BackedKept
  <2> QED
    BY <2>3, <2>4
<1>8. ASSUME NEW w \in Workers, Die(w) PROVE Backed(t)'
  BY <1>0, <1>8, ThreadsDie, OthersUntouched, RowsAreRuns, BackedKept
<1> QED
  BY <1>1, <1>2, <1>3, <1>4, <1>5, <1>6, <1>7, <1>8
     DEF Next, vars, Request, LoopStep, RunStep, Failure, CreateRead,
         CreateRefused, CreateMirror, DeleteRead, DeleteRefused, DeleteMirror,
         StartGet, StartVanished, StartMirror, LoopFault, Crash, Shutdown, Restart

(* A terminal status is always explained by a recorded run, for every      *)
(* number of workers, whatever deletes, faults and crashes do in between.  *)
THEOREM HistoryBacksStatuses == Spec => []TerminalStatusBacked
<1> DEFINE Inv == TypeOK /\ HistoryInv
<1>1. Init => Inv
  BY InitTyped DEF HistoryInv, OutcomeKnown, TasksDrawn, RowsFollowRuns,
     TerminalStatusBacked, RowsOf, Init, Idle, NoRun, Executed, Started,
     Starting, Terminal
<1>2. Inv /\ [Next]_vars => Inv'
  BY TypeStep, OutcomeStep, DrawnStep, RowsStep, BackedStep DEF HistoryInv
<1>3. Inv => TerminalStatusBacked
  BY DEF HistoryInv
<1> QED
  BY <1>1, <1>2, <1>3, PTL DEF Spec

(* Where the foreign key is enforced, a row goes before its task: the      *)
(* delete of a task is refused over a row it has not loaded, the insert of *)
(* a row over a task that is gone.                                         *)
LEMMA OrphanStep ==
  ASSUME ForeignKeysEnforced, TypeOK, OutcomeKnown, TasksDrawn, RowsFollowRuns,
         NoOrphanResults, [Next]_vars
  PROVE  NoOrphanResults'
<1>0. \A r \in results : run[r].task \in Drawn /\ run[r].task \in TaskIds
  BY RowsAreRuns DEF TasksDrawn, RowsFollowRuns, Drawn
<1>1. CASE UNCHANGED <<status, results, run>>
  BY <1>1 DEF NoOrphanResults
<1>2. ASSUME NEW w \in Workers, CreateCommit(w) \/ DeleteCommit(w)
      PROVE  NoOrphanResults'
  <2>1. UNCHANGED run /\ results' = results \ loop[w].rows
    BY <1>2 DEF CreateCommit, DeleteCommit
  <2>2. \A r \in results' : run[r].task \notin loop[w].victims
    BY <1>2, <2>1 DEF CreateCommit, DeleteCommit, StillReferenced, RowsOf
  <2>3. \A t \in TaskIds \ loop[w].victims : status'[t] \in {status[t], "pending"}
    BY <1>2 DEF CreateCommit, DeleteCommit
  <2> QED
    BY <1>0, <2>1, <2>2, <2>3 DEF NoOrphanResults
<1>3. ASSUME NEW w \in Workers, StartUpdate(w) PROVE NoOrphanResults'
  BY <1>0, <1>3, StatusClaims DEF StartUpdate, NoOrphanResults
<1>4. ASSUME NEW w \in Workers, StartSpawn(w) PROVE NoOrphanResults'
  <2>1. \A q \in results : run'[q] = run[q]
    BY <1>4, ThreadSpawns, RowsAreRuns DEF RowsFollowRuns, Started
  <2> QED
    BY <1>4, <2>1 DEF StartSpawn, NoOrphanResults
<1>5. ASSUME NEW r \in RunIds, NEW s \in Terminal, Execute(r, s)
      PROVE  NoOrphanResults'
  <2>1. \A q \in results : run'[q] = run[q]
    BY <1>5, ThreadExecutes, RowsAreRuns DEF RowsFollowRuns
  <2> QED
    BY <1>5, <2>1 DEF Execute, NoOrphanResults
<1>6. ASSUME NEW r \in RunIds,
             \/ ResultCommit(r) \/ ResultRefused(r) \/ ResultMirror(r)
             \/ StatusVanished(r) \/ StatusMirror(r) \/ RunFault(r)
      PROVE  NoOrphanResults'
  <2>1. \A q \in RunIds : run'[q].task = run[q].task
    BY <1>6, ThreadMoves DEF ResultCommit, ResultRefused, ResultMirror,
       StatusVanished, StatusMirror, RunFault, RunPcs, LivePcs
  <2>2. UNCHANGED status /\ \A q \in results' : q \in results \/ status[run[q].task] # "absent"
    BY <1>6 DEF ResultCommit, ResultAccepted, ResultRefused, ResultMirror, StatusVanished,
       StatusMirror, RunFault
  <2>3. results' \subseteq RunIds
    BY <1>6, RowsAreRuns DEF ResultCommit, ResultRefused, ResultMirror, StatusVanished,
       StatusMirror, RunFault
  <2> QED
    BY <2>1, <2>2, <2>3 DEF NoOrphanResults
<1>7. ASSUME NEW r \in RunIds, StatusCommit(r) PROVE NoOrphanResults'
  <2>1. \A q \in RunIds : run'[q].task = run[q].task
    BY <1>7, ThreadMoves DEF StatusCommit, RunPcs, LivePcs
  <2>2. UNCHANGED results /\ run[r].state # "absent"
    BY <1>7, StatusSettles DEF StatusCommit, Terminal
  <2> QED
    BY <1>0, <1>7, <2>1, <2>2, StatusSettles, RowsAreRuns DEF NoOrphanResults
<1>8. ASSUME NEW w \in Workers, Die(w) PROVE NoOrphanResults'
  BY <1>8, ThreadsDie, OthersUntouched, RowsAreRuns DEF NoOrphanResults
<1> QED
  BY <1>1, <1>2, <1>3, <1>4, <1>5, <1>6, <1>7, <1>8
     DEF Next, vars, Request, LoopStep, RunStep, Failure, CreateRead,
         CreateRefused, CreateMirror, DeleteRead, DeleteRefused, DeleteMirror,
         StartGet, StartVanished, StartMirror, LoopFault, Crash, Shutdown, Restart

(* On PostgreSQL no result outlives its task, for every number of workers, *)
(* also when a delete or an eviction races the inserts of running tasks.   *)
THEOREM HistoryGoesWithTheTask ==
  ASSUME Dialect = "postgres" PROVE Spec => []NoOrphanResults
<1> DEFINE Inv == TypeOK /\ HistoryInv /\ NoOrphanResults
<1>1. Init => Inv
  BY InitTyped DEF HistoryInv, OutcomeKnown, TasksDrawn, RowsFollowRuns,
     TerminalStatusBacked, RowsOf, Init, Idle, NoRun, Executed, Started,
     Starting, Terminal, NoOrphanResults
<1>2. Inv /\ [Next]_vars => Inv'
  BY TypeStep, OutcomeStep, DrawnStep, RowsStep, BackedStep, OrphanStep
     DEF HistoryInv, ForeignKeysEnforced
<1>3. Inv => NoOrphanResults
  OBVIOUS
<1> QED
  BY <1>1, <1>2, <1>3, PTL DEF Spec

(* A step keeps the claims if it leaves the statuses alone, makes no run    *)
(* live, and lets no handler begin a start.                                *)
LEMMA ClaimsKept ==
  ASSUME ClaimInv, UNCHANGED status,
         \A r \in RunIds : Live(r)' => Live(r) /\ run'[r].task = run[r].task,
         \A w \in Workers : Starting(w)' =>
            Starting(w) /\ loop'[w].task = loop[w].task,
         \A w \in Workers : Starting(w)' =>
            ((loop'[w].pc = "start.update") <=> (loop[w].pc = "start.update"))
  PROVE  ClaimInv'
  BY DEF ClaimInv, AtMostOneLiveRun

(* With one worker the read, the claim and the spawn of start_run act as   *)
(* one step: no other handler runs in between, and the only run that could *)
(* settle the task has settled before the guard let the start pass.        *)
LEMMA ClaimStep ==
  ASSUME SingleWorker, TypeOK, OutcomeKnown, TasksDrawn, ClaimInv, [Next]_vars
  PROVE  ClaimInv'
<1> USE DEF Live, LivePcs, Starting
<1>1. ASSUME NEW w \in Workers,
             \/ \E n \in Names : CreateRead(w, n)
             \/ \E u \in TaskIds : DeleteRead(w, u)
      PROVE  ClaimInv'
  <2>1. ASSUME NEW n \in Names, CreateRead(w, n)
        PROVE  loop'[w].pc = "create.commit"
    BY <2>1 DEF CreateRead, Idle, TypeOK, Handlers
  <2>2. ASSUME NEW u \in TaskIds, DeleteRead(w, u)
        PROVE  loop'[w].pc \in {"delete.mirror", "delete.commit"}
    BY <2>2 DEF DeleteRead, Idle, TypeOK, Handlers
  <2>3. UNCHANGED <<status, run>>
    BY <1>1 DEF CreateRead, DeleteRead
  <2>4. \A v \in Workers : v = w
    BY DEF SingleWorker
  <2> QED
    BY <1>1, <2>1, <2>2, <2>3, <2>4, ClaimsKept
<1>2. ASSUME NEW w \in Workers, CreateCommit(w) \/ DeleteCommit(w)
      PROVE  ClaimInv'
  <2>1. \A v \in Workers : loop'[v].pc \notin
                             {"start.update", "start.mirror", "start.spawn"}
    BY <1>2 DEF CreateCommit, DeleteCommit, Goto, SingleWorker, TypeOK, Handlers
  <2>2. \A t \in Drawn : status'[t] \in {status[t], "absent"}
    BY <1>2 DEF CreateCommit, DeleteCommit, Drawn
  <2>3. \A r \in RunIds : Live(r) => run[r].task \in Drawn
    BY DEF TasksDrawn, Started
  <2>4. UNCHANGED run
    BY <1>2 DEF CreateCommit, DeleteCommit
  <2> QED
    BY <2>1, <2>2, <2>3, <2>4 DEF ClaimInv, AtMostOneLiveRun
<1>3. ASSUME NEW w \in Workers,
             \/ CreateRefused(w) \/ CreateMirror(w) \/ DeleteRefused(w)
             \/ DeleteMirror(w) \/ LoopFault(w)
      PROVE  ClaimInv'
  <2>1. Answer(w) /\ UNCHANGED <<status, run>>
    BY <1>3 DEF CreateRefused, CreateMirror, DeleteRefused, DeleteMirror, LoopFault
  <2> QED
    BY <2>1, HandlerAnswers, ClaimsKept DEF Idle
<1>4. ASSUME NEW w \in Workers, NEW t \in TaskIds, StartGet(w, t)
      PROVE  ClaimInv'
  <2>1. /\ status[t] \notin {"absent", "running"}
        /\ loop'[w].pc = "start.update" /\ loop'[w].task = t
        /\ UNCHANGED <<status, run>>
    BY <1>4 DEF StartGet, Startable, Idle, TypeOK, Handlers
  <2>2. \A v \in Workers : v = w
    BY DEF SingleWorker
  <2> QED
    BY <2>1, <2>2 DEF ClaimInv, AtMostOneLiveRun
<1>5. ASSUME NEW w \in Workers, StartUpdate(w) PROVE ClaimInv'
  <2>1. /\ loop[w].pc = "start.update"
        /\ loop'[w].pc = "start.mirror" /\ loop'[w].task = loop[w].task
        /\ UNCHANGED run
    BY <1>5 DEF StartUpdate, Goto, TypeOK, Handlers
  <2>2. loop[w].task \in TaskIds
    BY <2>1 DEF TasksDrawn, Drawn
  <2>3. \A r \in RunIds : Live(r) => run[r].task \in TaskIds
    BY DEF TasksDrawn, Started, Drawn
  <2>4. \A v \in Workers : v = w
    BY DEF SingleWorker
  <2> QED
    BY <1>5, <2>1, <2>2, <2>3, <2>4, StatusClaims DEF ClaimInv, AtMostOneLiveRun
<1>6. ASSUME NEW w \in Workers, StartVanished(w) PROVE ClaimInv'
  <2>1. CASE Answer(w)
    BY <1>6, <2>1, HandlerAnswers, ClaimsKept DEF StartVanished, Idle
  <2>2. CASE Goto(w, "start.spawn")
    <3>1. /\ loop[w].pc = "start.update" /\ status[loop[w].task] = "absent"
          /\ loop'[w].pc = "start.spawn" /\ loop'[w].task = loop[w].task
          /\ UNCHANGED <<status, run>>
      BY <1>6, <2>2, HandlerMoves DEF StartVanished, LoopPcs
    <3>2. \A v \in Workers : v = w
      BY DEF SingleWorker
    <3> QED
      BY <3>1, <3>2 DEF ClaimInv, AtMostOneLiveRun
  <2> QED
    BY <1>6, <2>1, <2>2 DEF StartVanished
<1>7. ASSUME NEW w \in Workers, StartMirror(w) PROVE ClaimInv'
  BY <1>7, HandlerMoves, ClaimsKept DEF StartMirror, LoopPcs
<1>8. ASSUME NEW w \in Workers, StartSpawn(w) PROVE ClaimInv'
  <2>1. PICK r \in RunIds :
          /\ run'[r].task = loop[w].task
          /\ run'[r].pc = "exec"
          /\ \A q \in RunIds \ {r} : run'[q] = run[q]
    BY <1>8, ThreadSpawns
  <2>2. /\ loop[w].pc = "start.spawn" /\ loop'[w].pc = "idle"
        /\ UNCHANGED status
    BY <1>8, ThreadSpawns
  <2>3. \A v \in Workers : v = w
    BY DEF SingleWorker
  <2> QED
    BY <2>1, <2>2, <2>3 DEF ClaimInv, AtMostOneLiveRun
<1>9. ASSUME NEW r \in RunIds, NEW s \in Terminal, Execute(r, s)
      PROVE  ClaimInv'
  BY <1>9, ThreadExecutes, ClaimsKept
<1>10. ASSUME NEW r \in RunIds,
              \/ ResultCommit(r) \/ ResultRefused(r) \/ ResultMirror(r)
              \/ StatusVanished(r) \/ StatusMirror(r) \/ RunFault(r)
       PROVE  ClaimInv'
  <2>1. \A q \in RunIds : run'[q].task = run[q].task /\ (Live(q)' => Live(q))
    BY <1>10, ThreadMoves DEF ResultCommit, ResultRefused, ResultMirror,
       StatusVanished, StatusMirror, RunFault, RunPcs
  <2>2. UNCHANGED <<status, loop>>
    BY <1>10 DEF ResultCommit, ResultRefused, ResultMirror, StatusVanished,
       StatusMirror, RunFault
  <2> QED
    BY <2>1, <2>2, ClaimsKept
<1>11. ASSUME NEW r \in RunIds, StatusCommit(r) PROVE ClaimInv'
  <2>1. \A q \in RunIds : /\ run'[q].task = run[q].task
                          /\ run'[q].pc = IF q = r THEN "status.mirror" ELSE run[q].pc
    BY <1>11, ThreadMoves DEF StatusCommit, RunPcs
  <2>2. run[r].pc = "status" /\ UNCHANGED loop
    BY <1>11 DEF StatusCommit
  <2>3. \A q \in RunIds : Live(q) => run[q].task \in TaskIds
    BY DEF TasksDrawn, Started, Drawn
  <2>4. \A w \in Workers : Starting(w) => loop[w].task \in TaskIds
    BY DEF TasksDrawn, Drawn
  <2> QED
    BY <1>11, <2>1, <2>2, <2>3, <2>4, StatusSettles DEF ClaimInv, AtMostOneLiveRun
<1>12. ASSUME NEW w \in Workers, Die(w) PROVE ClaimInv'
  BY <1>12, ThreadsDie, OthersUntouched, ClaimsKept
<1>13. CASE UNCHANGED <<status, loop, run>>
  BY <1>13, ClaimsKept
<1> QED
  BY <1>1, <1>2, <1>3, <1>4, <1>5, <1>6, <1>7, <1>8, <1>9, <1>10, <1>11,
     <1>12, <1>13
     DEF Next, vars, Request, LoopStep, RunStep, Failure, Crash, Shutdown, Restart

SingleWorkerInv == TypeOK /\ OutcomeKnown /\ TasksDrawn /\ ClaimInv

(* The strengthening that makes the claims of one worker inductive.        *)
LEMMA SingleWorkerHolds ==
  ASSUME SingleWorker
  PROVE  Spec => []SingleWorkerInv
<1>1. Init => SingleWorkerInv
  BY InitTyped DEF SingleWorkerInv, OutcomeKnown, TasksDrawn, ClaimInv,
     AtMostOneLiveRun, Init, Idle, NoRun, Executed, Started, Starting, Live,
     LivePcs
<1>2. SingleWorkerInv /\ [Next]_vars => SingleWorkerInv'
  BY SingleWorker, TypeStep, OutcomeStep, DrawnStep, ClaimStep
     DEF SingleWorkerInv
<1> QED
  BY <1>1, <1>2, PTL DEF Spec

(* One worker never executes a task twice at the same time: the 409 guard  *)
(* holds although its check and its claim are separate transactions.       *)
THEOREM NoDoubleRun ==
  ASSUME SingleWorker
  PROVE  Spec => []AtMostOneLiveRun
<1>1. SingleWorkerInv => AtMostOneLiveRun
  BY DEF SingleWorkerInv, ClaimInv
<1> QED
  BY <1>1, SingleWorkerHolds, PTL

(* The status machine of a task holds for one worker: the claim of a start *)
(* and the outcome of a run each find the status they may overwrite.       *)
THEOREM StatusMachineKept ==
  ASSUME SingleWorker
  PROVE  Spec => OnlyLegalMoves
<1>1. SingleWorkerInv /\ [Next]_vars => [\A t \in TaskIds : LegalMove(t)]_vars
  <2> SUFFICES ASSUME SingleWorkerInv, [Next]_vars, NEW t \in TaskIds
               PROVE  LegalMove(t)
    OBVIOUS
  <2> USE DEF SingleWorkerInv
  <2>1. CASE UNCHANGED status
    BY <2>1 DEF LegalMove
  <2>2. ASSUME NEW w \in Workers, CreateCommit(w) PROVE LegalMove(t)
    <3>1. PICK u \in TaskIds \ Drawn :
            status' = [x \in TaskIds |->
                         IF x = u THEN "pending"
                         ELSE IF x \in loop[w].victims THEN "absent"
                         ELSE status[x]]
      BY <2>2 DEF CreateCommit
    <3>2. status[u] = "absent" /\ nameOf[u] = None
      BY DEF TasksDrawn, Drawn
    <3> QED
      BY <3>1, <3>2 DEF LegalMove
  <2>3. ASSUME NEW w \in Workers, DeleteCommit(w) PROVE LegalMove(t)
    BY <2>3 DEF DeleteCommit, LegalMove
  <2>4. ASSUME NEW w \in Workers, StartUpdate(w) PROVE LegalMove(t)
    <3>1. status[loop[w].task] \notin {"absent", "running"}
      BY <2>4 DEF StartUpdate, ClaimInv, Starting
    <3> QED
      BY <2>4, <3>1, StatusClaims DEF LegalMove, TypeOK, Stored, Statuses
  <2>5. ASSUME NEW r \in RunIds, StatusCommit(r) PROVE LegalMove(t)
    <3>1. status[run[r].task] = "running"
      BY <2>5 DEF StatusCommit, ClaimInv, Live, LivePcs
    <3> QED
      BY <2>5, <3>1, StatusSettles DEF LegalMove
  <2> QED
    BY <2>1, <2>2, <2>3, <2>4, <2>5
       DEF Next, vars, Request, LoopStep, RunStep, Failure, CreateRead,
           CreateRefused, CreateMirror, DeleteRead, DeleteRefused, DeleteMirror,
           StartGet, StartVanished, StartMirror, StartSpawn, Execute,
           ResultCommit, ResultRefused, ResultMirror, StatusVanished,
           StatusMirror, LoopFault, RunFault, Crash, Shutdown, Die, Restart
<1> QED
  BY <1>1, SingleWorkerHolds, PTL DEF Spec, OnlyLegalMoves
-----------------------------------------------------------------------------
(* Only the commit of a create draws an id or makes a row appear.          *)
LEMMA RowsAppear ==
  ASSUME TypeOK, OutcomeKnown, [Next]_vars
  PROVE  \/ \E w \in Workers : CreateCommit(w)
         \/ /\ nameOf' = nameOf
            /\ \A t \in TaskIds : status'[t] # "absent" => status[t] # "absent"
<1>1. ASSUME NEW w \in Workers, DeleteCommit(w)
      PROVE  nameOf' = nameOf /\ \A t \in TaskIds : status'[t] # "absent" => status[t] # "absent"
  BY <1>1 DEF DeleteCommit
<1>2. ASSUME NEW w \in Workers, StartUpdate(w)
      PROVE  nameOf' = nameOf /\ \A t \in TaskIds : status'[t] # "absent" => status[t] # "absent"
  BY <1>2, StatusClaims DEF StartUpdate
<1>3. ASSUME NEW r \in RunIds, StatusCommit(r)
      PROVE  nameOf' = nameOf /\ \A t \in TaskIds : status'[t] # "absent" => status[t] # "absent"
  BY <1>3, StatusSettles DEF StatusCommit
<1> QED
  BY <1>1, <1>2, <1>3
     DEF Next, vars, Request, LoopStep, RunStep, Failure, CreateRead,
         CreateRefused, CreateMirror, DeleteRead, DeleteRefused, DeleteMirror,
         StartGet, StartVanished, StartMirror, StartSpawn, Execute,
         ResultCommit, ResultRefused, ResultMirror, StatusVanished,
         StatusMirror, LoopFault, RunFault, Crash, Shutdown, Die, Restart

(* A handler comes to its commit from the read before it.                  *)
LEMMA CommitsBegin ==
  ASSUME TypeOK, [Next]_vars, NEW w \in Workers,
         loop'[w].pc \in {"create.commit", "delete.commit"}
  PROVE  \/ loop'[w] = loop[w]
         \/ \E n \in Names : CreateRead(w, n)
         \/ \E t \in TaskIds : DeleteRead(w, t)
<1>1. ASSUME NEW v \in Workers, Answer(v) PROVE loop'[w] = loop[w]
  BY <1>1, HandlerAnswers DEF Idle
<1>2. ASSUME NEW v \in Workers,
             NEW pc \in {"delete.mirror", "start.mirror", "start.spawn"}, Goto(v, pc)
      PROVE  loop'[w] = loop[w]
  BY <1>2 DEF Goto, TypeOK, Handlers
<1>3. ASSUME NEW v \in Workers, Request(v)
      PROVE  \/ loop'[w] = loop[w]
             \/ \E n \in Names : CreateRead(w, n)
             \/ \E t \in TaskIds : DeleteRead(w, t)
  <2>1. CASE v = w
    <3>1. ASSUME NEW t \in TaskIds, StartGet(w, t) PROVE FALSE
      BY <3>1 DEF StartGet, TypeOK, Idle
    <3> QED
      BY <1>3, <2>1, <3>1 DEF Request
  <2>2. CASE v # w
    BY <1>3, <2>2 DEF Request, CreateRead, DeleteRead, StartGet, TypeOK
  <2> QED
    BY <2>1, <2>2
<1>4. ASSUME NEW v \in Workers, CreateCommit(v) PROVE loop'[w] = loop[w]
  BY <1>4 DEF CreateCommit, TypeOK, Handlers
<1>5. ASSUME NEW v \in Workers, LoopStep(v) PROVE loop'[w] = loop[w]
  BY <1>1, <1>2, <1>4, <1>5
     DEF LoopStep, CreateRefused, CreateMirror, DeleteCommit, DeleteRefused,
         DeleteMirror, StartUpdate, StartVanished, StartMirror, StartSpawn
<1>6. ASSUME NEW r \in RunIds, RunStep(r) \/ RunFault(r) PROVE loop' = loop
  BY <1>6 DEF RunStep, Execute, ResultCommit, ResultRefused, ResultMirror,
              StatusCommit, StatusVanished, StatusMirror, RunFault
<1>7. ASSUME NEW v \in Workers, LoopFault(v) \/ Crash(v) \/ Shutdown(v) \/ Restart(v)
      PROVE  loop'[w] = loop[w]
  BY <1>1, <1>7 DEF LoopFault, Crash, Shutdown, Die, Restart
<1> QED
  BY <1>3, <1>5, <1>6, <1>7 DEF Next, Failure, vars

LEMMA VictimsStep ==
  ASSUME SingleWorker, TypeOK, OutcomeKnown, VictimsInv, [Next]_vars
  PROVE  VictimsInv'
<1> SUFFICES ASSUME NEW w \in Workers
             PROVE  /\ loop'[w].pc = "create.commit" =>
                         /\ Homonyms(loop[w].name)' \subseteq loop'[w].victims
                         /\ \A u \in loop'[w].victims : nameOf'[u] = loop'[w].name
                    /\ loop'[w].pc = "delete.commit" =>
                         loop'[w].victims = {loop'[w].task} /\ loop'[w].task \in Drawn'
  BY DEF VictimsInv
<1>1. CASE loop'[w] = loop[w] /\ loop[w].pc \in {"create.commit", "delete.commit"}
  <2>1. ~ \E v \in Workers : CreateCommit(v)
    <3>1. ASSUME CreateCommit(w) PROVE loop'[w].pc = "create.mirror"
      BY <3>1 DEF CreateCommit, TypeOK, Handlers
    <3> QED
      BY <1>1, <3>1 DEF SingleWorker
  <2>2. /\ nameOf' = nameOf
        /\ \A t \in TaskIds : status'[t] # "absent" => status[t] # "absent"
    BY <2>1, RowsAppear
  <2> QED
    BY <1>1, <2>2 DEF VictimsInv, Homonyms, Drawn
<1>2. ASSUME NEW n \in Names, CreateRead(w, n)
      PROVE  /\ loop'[w].pc = "create.commit" /\ loop'[w].name = n
             /\ loop'[w].victims = Homonyms(n) /\ UNCHANGED <<status, nameOf>>
  BY <1>2 DEF CreateRead, TypeOK, Idle
<1>3. ASSUME NEW t \in TaskIds, DeleteRead(w, t), loop'[w].pc = "delete.commit"
      PROVE  /\ loop'[w].victims = {t} /\ loop'[w].task = t
             /\ t \in Drawn /\ UNCHANGED nameOf
  <2>1. loop'[w].victims = {t} \ {u \in TaskIds : status[u] = "absent"}
        /\ loop'[w].victims # {} /\ loop'[w].task = t
        /\ t \in Drawn /\ UNCHANGED nameOf
    BY <1>3 DEF DeleteRead, TypeOK, Idle
  <2> QED
    BY <2>1
<1>4. ASSUME NEW t \in TaskIds, DeleteRead(w, t)
      PROVE  loop'[w].pc # "create.commit"
  BY <1>4 DEF DeleteRead, TypeOK, Idle
<1>5. CASE \E n \in Names : CreateRead(w, n)
  BY <1>2, <1>5 DEF Homonyms
<1>6. CASE \E t \in TaskIds : DeleteRead(w, t)
  BY <1>3, <1>4, <1>6 DEF Drawn
<1> QED
  BY <1>1, <1>5, <1>6, CommitsBegin

LEMMA NamesStep ==
  ASSUME TypeOK, OutcomeKnown, TasksDrawn, NamesDistinct,
         NamesUnique \/ VictimsInv, [Next]_vars
  PROVE  NamesDistinct'
<1>1. CASE /\ nameOf' = nameOf
           /\ \A t \in TaskIds : status'[t] # "absent" => status[t] # "absent"
  BY <1>1 DEF NamesDistinct
<1>2. ASSUME NEW w \in Workers, CreateCommit(w) PROVE NamesDistinct'
  <2>1. PICK t \in TaskIds \ Drawn :
          /\ status' = [u \in TaskIds |->
                          IF u = t THEN "pending"
                          ELSE IF u \in loop[w].victims THEN "absent"
                          ELSE status[u]]
          /\ nameOf' = [nameOf EXCEPT ![t] = loop[w].name]
    BY <1>2 DEF CreateCommit
  <2>2. \A u \in TaskIds \ {t} :
          /\ nameOf'[u] = nameOf[u]
          /\ status'[u] # "absent" => status[u] # "absent" /\ u \notin loop[w].victims
    BY <2>1 DEF TypeOK
  <2>3. nameOf'[t] = loop[w].name
    BY <2>1 DEF TypeOK
  <2>4. ASSUME NEW u \in TaskIds \ {t}, status'[u] # "absent"
        PROVE  nameOf[u] # loop[w].name
    <3>1. CASE NamesUnique
      BY <1>2, <2>2, <2>4, <3>1 DEF CreateCommit, NameTaken
    <3>2. CASE VictimsInv
      BY <1>2, <2>2, <2>4, <3>2 DEF CreateCommit, VictimsInv, Homonyms
    <3> QED
      BY <3>1, <3>2
  <2> QED
    BY <2>2, <2>3, <2>4 DEF NamesDistinct
<1> QED
  BY <1>1, <1>2, RowsAppear

LEMMA InitHistory == Init => TypeOK /\ HistoryInv
  BY InitTyped DEF HistoryInv, OutcomeKnown, TasksDrawn, RowsFollowRuns,
     TerminalStatusBacked, RowsOf, Init, Idle, NoRun, Executed, Started,
     Starting, Terminal

(* A name identifies at most one stored task: with one worker because      *)
(* create evicts what bears the name, and with any number of them on a     *)
(* migrated schema, whose unique index refuses a second.                   *)
THEOREM NamesStayDistinct ==
  ASSUME SingleWorker \/ Schema = "alembic"
  PROVE  Spec => []NamesDistinct
<1> DEFINE Inv == /\ TypeOK /\ OutcomeKnown /\ TasksDrawn /\ NamesDistinct
                  /\ NamesUnique \/ VictimsInv
<1>1. Init => Inv
  BY InitHistory DEF HistoryInv, Init, NamesDistinct, VictimsInv, Idle
<1>2. Inv /\ [Next]_vars => Inv'
  <2> SUFFICES ASSUME Inv, [Next]_vars PROVE Inv'
    OBVIOUS
  <2>1. (NamesUnique \/ VictimsInv)'
    <3>1. CASE Schema = "alembic"
      BY <3>1 DEF NamesUnique
    <3>2. CASE SingleWorker /\ Schema # "alembic"
      BY <3>2, VictimsStep DEF NamesUnique
    <3> QED
      BY <3>1, <3>2
  <2> QED
    BY <2>1, TypeStep, OutcomeStep, DrawnStep, NamesStep
<1> QED
  BY <1>1, <1>2, PTL DEF Spec
-----------------------------------------------------------------------------
MirrorPcs == {"create.mirror", "delete.mirror"}

(* What MirrorInv says of one worker.                                      *)
MirrorOf(w) ==
  /\ loop[w].pc \notin MirrorPcs => \A t \in TaskIds : Agree(w, t)
  /\ loop[w].pc = "create.mirror" =>
         /\ loop[w].task \in TaskIds /\ status[loop[w].task] # "absent"
         /\ nameOf[loop[w].task] = loop[w].name
         /\ \A t \in TaskIds : nameOf[t] # loop[w].name => Agree(w, t)
  /\ loop[w].pc = "delete.mirror" =>
         /\ loop[w].task \in TaskIds /\ status[loop[w].task] = "absent"
         /\ \A t \in TaskIds \ {loop[w].task} : Agree(w, t)

(* A step keeps what the mirror knows if no row and no entry appears or    *)
(* goes, and no handler comes to its update of the mirror or passes it.    *)
LEMMA MirrorKept ==
  ASSUME NEW w \in Workers, MirrorOf(w), UNCHANGED nameOf,
         \A t \in TaskIds : (status'[t] = "absent") <=> (status[t] = "absent"),
         \A t \in TaskIds : (mem'[w][t] = "absent") <=> (mem[w][t] = "absent"),
         \/ loop'[w] = loop[w]
         \/ loop[w].pc \notin MirrorPcs /\ loop'[w].pc \notin MirrorPcs
  PROVE  MirrorOf(w)'
<1>1. \A t \in TaskIds : Agree(w, t)' <=> Agree(w, t)
  BY DEF Agree
<1>2. CASE loop'[w] = loop[w]
  BY <1>1, <1>2 DEF MirrorOf
<1>3. CASE loop[w].pc \notin MirrorPcs /\ loop'[w].pc \notin MirrorPcs
  BY <1>1, <1>3 DEF MirrorOf, MirrorPcs
<1> QED
  BY <1>2, <1>3

(* An entry of the mirror is updated, and is neither made nor dropped.     *)
LEMMA EntryStays ==
  ASSUME TypeOK, NEW v \in Workers \cup {None}, NEW u \in TaskIds \cup {None},
         NEW s, s # "absent",
         mem' = [mem EXCEPT ![v][u] = IF @ = "absent" THEN "absent" ELSE s]
  PROVE  \A w \in Workers : \A t \in TaskIds :
            (mem'[w][t] = "absent") <=> (mem[w][t] = "absent")
<1> SUFFICES ASSUME NEW w \in Workers, NEW t \in TaskIds
             PROVE  (mem'[w][t] = "absent") <=> (mem[w][t] = "absent")
  OBVIOUS
<1>1. mem \in [Workers -> [TaskIds -> Stored]]
  BY DEF TypeOK
<1>2. CASE w # v
  BY <1>1, <1>2
<1>3. CASE w = v
  <2>1. mem'[w] = [mem[w] EXCEPT ![u] = IF @ = "absent" THEN "absent" ELSE s]
    BY <1>1, <1>3
  <2> QED
    BY <1>1, <2>1
<1> QED
  BY <1>2, <1>3

(* The threads leave the mirror's knowledge alone, and so do the handlers  *)
(* up to their commit.                                                     *)
LEMMA MirrorQuiet ==
  ASSUME TypeOK, OutcomeKnown, NEW w \in Workers, MirrorOf(w),
         \/ \E v \in Workers :
              \/ \E n \in Names : CreateRead(v, n)
              \/ \E t \in TaskIds : StartGet(v, t)
              \/ CreateRefused(v) \/ DeleteRefused(v) \/ StartUpdate(v)
              \/ StartVanished(v) \/ StartMirror(v) \/ StartSpawn(v)
              \/ LoopFault(v) \/ Restart(v)
         \/ \E r \in RunIds : RunStep(r) \/ RunFault(r)
         \/ UNCHANGED vars
  PROVE  MirrorOf(w)'
<1>1. ASSUME NEW v \in Workers, NEW n \in Names, CreateRead(v, n)
      PROVE  MirrorOf(w)'
  <2>1. /\ UNCHANGED <<status, nameOf, mem>>
        /\ v # w => loop'[w] = loop[w]
        /\ v = w => loop[w].pc \notin MirrorPcs /\ loop'[w].pc \notin MirrorPcs
    BY <1>1 DEF CreateRead, Ready, Idle, TypeOK, MirrorPcs
  <2> QED
    BY <2>1, MirrorKept
<1>2. ASSUME NEW v \in Workers, NEW t \in TaskIds, StartGet(v, t)
      PROVE  MirrorOf(w)'
  <2>1. /\ UNCHANGED <<status, nameOf, mem>>
        /\ v # w => loop'[w] = loop[w]
        /\ v = w => loop[w].pc \notin MirrorPcs /\ loop'[w].pc \notin MirrorPcs
    BY <1>2 DEF StartGet, Ready, Idle, TypeOK, MirrorPcs
  <2> QED
    BY <2>1, MirrorKept
<1>3. ASSUME NEW v \in Workers, Answer(v), loop[v].pc \notin MirrorPcs,
             UNCHANGED <<status, nameOf, mem>>
      PROVE  MirrorOf(w)'
  <2>1. /\ v # w => loop'[w] = loop[w]
        /\ v = w => loop'[w].pc \notin MirrorPcs
    BY <1>3, HandlerAnswers DEF Idle, MirrorPcs
  <2> QED
    BY <1>3, <2>1, MirrorKept
<1>4. ASSUME NEW v \in Workers,
             CreateRefused(v) \/ DeleteRefused(v) \/ StartSpawn(v) \/ LoopFault(v)
      PROVE  MirrorOf(w)'
  BY <1>3, <1>4 DEF CreateRefused, DeleteRefused, StartSpawn, LoopFault, MirrorPcs
<1>5. ASSUME NEW v \in Workers, NEW pc \in LoopPcs, Goto(v, pc),
             loop[v].pc \notin MirrorPcs, pc \notin MirrorPcs
      PROVE  \/ loop'[w] = loop[w]
             \/ loop[w].pc \notin MirrorPcs /\ loop'[w].pc \notin MirrorPcs
  BY <1>5 DEF Goto, TypeOK, Handlers
<1>6. ASSUME NEW v \in Workers, StartUpdate(v) PROVE MirrorOf(w)'
  <2>1. /\ Goto(v, "start.mirror") /\ loop[v].pc = "start.update"
        /\ UNCHANGED <<nameOf, mem>>
    BY <1>6 DEF StartUpdate
  <2>2. \/ loop'[w] = loop[w]
        \/ loop[w].pc \notin MirrorPcs /\ loop'[w].pc \notin MirrorPcs
    BY <1>5, <2>1 DEF MirrorPcs, LoopPcs
  <2> QED
    BY <1>6, <2>1, <2>2, StatusClaims, MirrorKept
<1>7. ASSUME NEW v \in Workers, StartVanished(v) PROVE MirrorOf(w)'
  <2>1. CASE Answer(v)
    BY <1>3, <1>7, <2>1 DEF StartVanished, MirrorPcs
  <2>2. CASE Goto(v, "start.spawn")
    <3>1. \/ loop'[w] = loop[w]
          \/ loop[w].pc \notin MirrorPcs /\ loop'[w].pc \notin MirrorPcs
      BY <1>5, <1>7, <2>2 DEF StartVanished, MirrorPcs, LoopPcs
    <3> QED
      BY <1>7, <3>1, MirrorKept DEF StartVanished
  <2> QED
    BY <1>7, <2>1, <2>2 DEF StartVanished
<1>8. ASSUME NEW v \in Workers, StartMirror(v) PROVE MirrorOf(w)'
  <2>1. /\ loop[v].task \in TaskIds \cup {None} /\ UNCHANGED <<status, nameOf>>
        /\ mem' = [mem EXCEPT ![v][loop[v].task] =
                     IF @ = "absent" THEN "absent" ELSE "running"]
    BY <1>8 DEF StartMirror, TypeOK, Handlers
  <2>2. \A t \in TaskIds : (mem'[w][t] = "absent") <=> (mem[w][t] = "absent")
    BY <2>1, EntryStays
  <2>3. \/ loop'[w] = loop[w]
        \/ loop[w].pc \notin MirrorPcs /\ loop'[w].pc \notin MirrorPcs
    BY <1>5, <1>8 DEF StartMirror, MirrorPcs, LoopPcs
  <2> QED
    BY <2>1, <2>2, <2>3, MirrorKept
<1>9. ASSUME NEW r \in RunIds, StatusCommit(r) PROVE MirrorOf(w)'
  <2>1. \A t \in TaskIds : (status'[t] = "absent") <=> (status[t] = "absent")
    BY <1>9, StatusSettles
  <2> QED
    BY <1>9, <2>1, MirrorKept DEF StatusCommit
<1>10. ASSUME NEW r \in RunIds, StatusMirror(r) PROVE MirrorOf(w)'
  <2>1. /\ run[r].task \in TaskIds \cup {None} /\ run[r].worker \in Workers \cup {None}
        /\ run[r].state # "absent" /\ UNCHANGED <<status, nameOf, loop>>
        /\ mem' = [mem EXCEPT ![run[r].worker][run[r].task] =
                     IF @ = "absent" THEN "absent" ELSE run[r].state]
    BY <1>10 DEF StatusMirror, TypeOK, Threads, OutcomeKnown, Executed, Terminal
  <2>2. \A t \in TaskIds : (mem'[w][t] = "absent") <=> (mem[w][t] = "absent")
    BY <2>1, EntryStays
  <2> QED
    BY <2>1, <2>2, MirrorKept
<1>11. CASE UNCHANGED <<status, nameOf, mem, loop>>
  BY <1>11, MirrorKept
<1> QED
  BY <1>1, <1>2, <1>4, <1>6, <1>7, <1>8, <1>9, <1>10, <1>11
     DEF Restart, RunStep, Execute, ResultCommit, ResultRefused, ResultMirror,
         StatusVanished, RunFault, vars

LEMMA MirrorStep ==
  ASSUME SingleWorker, TypeOK, OutcomeKnown, TasksDrawn, VictimsInv,
         NamesDistinct, NamesDistinct', MirrorInv, [Next]_vars
  PROVE  MirrorInv'
<1> USE DEF MirrorPcs
<1>0. crashes \in Nat /\ shutdowns \in Nat
  BY BoundsAssumption DEF TypeOK
<1>1. ASSUME NEW w \in Workers, Crash(w) \/ Shutdown(w)
      PROVE  (crashes + shutdowns)' # 0
  BY <1>0, <1>1 DEF Crash, Shutdown
<1>2. (\E w \in Workers : Crash(w) \/ Shutdown(w)) \/ UNCHANGED <<crashes, shutdowns>>
  BY DEF Next, vars, bounds, Request, LoopStep, RunStep, Failure, CreateRead, CreateCommit,
         CreateRefused, CreateMirror, DeleteRead, DeleteCommit, DeleteRefused,
         DeleteMirror, StartGet, StartUpdate, StartVanished, StartMirror,
         StartSpawn, Execute, ResultCommit, ResultRefused, ResultMirror,
         StatusCommit, StatusVanished, StatusMirror, LoopFault, RunFault, Restart
<1> SUFFICES ASSUME NEW w \in Workers, UNCHANGED <<crashes, shutdowns>>,
                    crashes + shutdowns = 0,
                    ~ \E v \in Workers : Crash(v) \/ Shutdown(v)
             PROVE  MirrorOf(w)'
  BY <1>1, <1>2 DEF MirrorInv, MirrorOf
<1>3. MirrorOf(w) /\ \A v \in Workers : v = w
  BY DEF MirrorInv, MirrorOf, SingleWorker
<1>4. CASE CreateCommit(w)
  <2>1. PICK t \in TaskIds \ Drawn :
          /\ status' = [u \in TaskIds |->
                          IF u = t THEN "pending"
                          ELSE IF u \in loop[w].victims THEN "absent"
                          ELSE status[u]]
          /\ nameOf' = [nameOf EXCEPT ![t] = loop[w].name]
          /\ loop' = [loop EXCEPT ![w].pc = "create.mirror", ![w].task = t]
    BY <1>4 DEF CreateCommit
  <2>2. /\ loop'[w].pc = "create.mirror" /\ loop'[w].task = t
        /\ loop'[w].name = loop[w].name
        /\ loop[w].pc = "create.commit" /\ UNCHANGED mem
    BY <1>4, <2>1 DEF CreateCommit, TypeOK, Handlers
  <2>3. /\ nameOf'[t] = loop[w].name /\ status'[t] # "absent"
        /\ \A u \in TaskIds \ {t} : nameOf'[u] = nameOf[u]
    BY <2>1 DEF TypeOK
  <2>4. ASSUME NEW u \in TaskIds, nameOf'[u] # loop[w].name
        PROVE  Agree(w, u)'
    <3>1. u # t /\ nameOf[u] # loop[w].name
      BY <2>3, <2>4
    <3>2. u \notin loop[w].victims
      BY <2>2, <3>1 DEF VictimsInv
    <3>3. status'[u] = status[u]
      BY <2>1, <3>1, <3>2
    <3>4. Agree(w, u)
      BY <1>3, <2>2 DEF MirrorOf
    <3> QED
      BY <2>2, <3>3, <3>4 DEF Agree
  <2> QED
    BY <2>2, <2>3, <2>4 DEF MirrorOf
<1>5. CASE CreateMirror(w)
  <2>1. /\ loop[w].pc = "create.mirror" /\ loop'[w].pc = "idle"
        /\ UNCHANGED <<status, nameOf>>
        /\ \A u \in TaskIds :
             mem'[w][u] = IF u = loop[w].task THEN "pending"
                          ELSE IF u \in MirrorHomonyms(loop[w].name) THEN "absent"
                          ELSE mem[w][u]
    BY <1>5, HandlerAnswers DEF CreateMirror, Idle, TypeOK
  <2>2. /\ loop[w].task \in TaskIds /\ status[loop[w].task] # "absent"
        /\ nameOf[loop[w].task] = loop[w].name
        /\ \A t \in TaskIds : nameOf[t] # loop[w].name => Agree(w, t)
    BY <1>3, <2>1 DEF MirrorOf
  <2>3. ASSUME NEW u \in TaskIds PROVE Agree(w, u)'
    <3>1. CASE u = loop[w].task
      BY <2>1, <2>2, <3>1 DEF Agree
    <3>2. CASE u # loop[w].task /\ nameOf[u] = loop[w].name
      BY <2>1, <2>2, <3>2 DEF Agree, NamesDistinct, MirrorHomonyms
    <3>3. CASE u # loop[w].task /\ nameOf[u] # loop[w].name
      BY <2>1, <2>2, <3>3 DEF Agree, MirrorHomonyms
    <3> QED
      BY <3>1, <3>2, <3>3
  <2> QED
    BY <2>1, <2>3 DEF MirrorOf
<1>6. ASSUME NEW t \in TaskIds, DeleteRead(w, t) PROVE MirrorOf(w)'
  <2>1. /\ loop[w].pc = "idle" /\ UNCHANGED <<status, nameOf, mem>>
        /\ loop'[w].task = t
        /\ \/ loop'[w].pc = "delete.mirror" /\ status[t] = "absent"
           \/ loop'[w].pc = "delete.commit"
    BY <1>6 DEF DeleteRead, Ready, Idle, TypeOK
  <2> QED
    BY <1>3, <2>1 DEF MirrorOf, Agree
<1>7. CASE DeleteCommit(w)
  <2>1. /\ loop[w].pc = "delete.commit" /\ loop'[w].pc = "delete.mirror"
        /\ loop'[w].task = loop[w].task /\ UNCHANGED <<nameOf, mem>>
    BY <1>7, HandlerMoves DEF DeleteCommit, LoopPcs
  <2>2. loop[w].victims = {loop[w].task} /\ loop[w].task \in TaskIds
    BY <2>1 DEF VictimsInv, Drawn
  <2>3. \A u \in TaskIds :
          status'[u] = IF u = loop[w].task THEN "absent" ELSE status[u]
    BY <1>7, <2>2 DEF DeleteCommit
  <2> QED
    BY <1>3, <2>1, <2>2, <2>3 DEF MirrorOf, Agree
<1>8. CASE DeleteMirror(w)
  <2>1. /\ loop[w].pc = "delete.mirror" /\ loop'[w].pc = "idle"
        /\ UNCHANGED <<status, nameOf>>
    BY <1>8, HandlerAnswers DEF DeleteMirror, Idle
  <2>2. /\ loop[w].task \in TaskIds /\ status[loop[w].task] = "absent"
        /\ \A t \in TaskIds \ {loop[w].task} : Agree(w, t)
    BY <1>3, <2>1 DEF MirrorOf
  <2>3. \A u \in TaskIds :
          mem'[w][u] = IF u = loop[w].task THEN "absent" ELSE mem[w][u]
    BY <1>8, <2>2 DEF DeleteMirror, TypeOK
  <2> QED
    BY <2>1, <2>2, <2>3 DEF MirrorOf, Agree
<1>9. \/ \E v \in Workers :
           \/ \E n \in Names : CreateRead(v, n)
           \/ \E t \in TaskIds : StartGet(v, t)
           \/ CreateRefused(v) \/ DeleteRefused(v) \/ StartUpdate(v)
           \/ StartVanished(v) \/ StartMirror(v) \/ StartSpawn(v)
           \/ LoopFault(v) \/ Restart(v)
      \/ \E r \in RunIds : RunStep(r) \/ RunFault(r)
      \/ UNCHANGED vars
      \/ \E v \in Workers :
           \/ CreateCommit(v) \/ CreateMirror(v) \/ DeleteCommit(v) \/ DeleteMirror(v)
           \/ \E t \in TaskIds : DeleteRead(v, t)
  BY DEF Next, Request, LoopStep, Failure
<1>10. ASSUME NEW v \in Workers,
              \/ CreateCommit(v) \/ CreateMirror(v) \/ DeleteCommit(v) \/ DeleteMirror(v)
              \/ \E t \in TaskIds : DeleteRead(v, t)
       PROVE  MirrorOf(w)'
  <2>1. v = w
    BY <1>3
  <2> QED
    BY <1>4, <1>5, <1>6, <1>7, <1>8, <1>10, <2>1
<1> QED
  BY <1>3, <1>9, <1>10, MirrorQuiet

(* The mirror of one worker that was never restarted knows exactly the     *)
(* stored tasks between requests: which of the transactions fail makes no  *)
(* difference to the 404 of delete.                                        *)
THEOREM MirrorIsExact ==
  ASSUME SingleWorker
  PROVE  Spec => []MirrorKnowsStoredTasks
<1> DEFINE Inv == /\ TypeOK /\ OutcomeKnown /\ TasksDrawn /\ NamesDistinct
                  /\ VictimsInv /\ MirrorInv
<1>1. Init => Inv
  BY InitHistory DEF HistoryInv, Init, NamesDistinct, VictimsInv, MirrorInv, Idle, Agree
<1>2. Inv /\ [Next]_vars => Inv'
  BY SingleWorker, TypeStep, OutcomeStep, DrawnStep, NamesStep, VictimsStep, MirrorStep
<1>3. Inv => MirrorKnowsStoredTasks
  BY DEF MirrorInv, MirrorKnowsStoredTasks, Agree
<1> QED
  BY <1>1, <1>2, <1>3, PTL DEF Spec

-----------------------------------------------------------------------------
(* The refinement of TaskMachine.  One worker gives a task one live run,   *)
(* so what is on record of a running task is the exit code of that run.    *)
LEMMA OneInserted ==
  ASSUME AtMostOneLiveRun, NEW t \in TaskIds, NEW r \in Inserted(t)
  PROVE  /\ Inserted(t) = {r}
         /\ OnRecord(t) = IF status[t] = "running" THEN ExitOf(r) ELSE "none"
<1>1. Inserted(t) = {r}
  BY DEF Inserted, RunsOf, AtMostOneLiveRun
<1>2. (CHOOSE q \in {r} : TRUE) = r
  OBVIOUS
<1> QED
  BY <1>1, <1>2 DEF OnRecord

(* A task whose status stays keeps its record or loses it, if no row of a  *)
(* live run of it is added.                                                *)
LEMMA RecordKeptOrLost ==
  ASSUME AtMostOneLiveRun, NEW t \in TaskIds, status'[t] = status[t],
         Inserted(t)' \subseteq Inserted(t),
         \A r \in Inserted(t)' : run'[r].state = run[r].state
  PROVE  /\ OnRecord(t)' \in {OnRecord(t), "none"}
         /\ Inserted(t)' = Inserted(t) => OnRecord(t)' = OnRecord(t)
<1>1. CASE Inserted(t)' = {}
  <2>1. OnRecord(t)' = "none"
    BY <1>1 DEF OnRecord
  <2>2. Inserted(t) = {} => OnRecord(t) = "none"
    BY DEF OnRecord
  <2> QED
    BY <1>1, <2>1, <2>2
<1>2. CASE Inserted(t)' # {}
  <2>1. PICK r \in Inserted(t)' : TRUE
    BY <1>2
  <2>2. Inserted(t) = {r} /\ Inserted(t)' = {r}
    BY <2>1, OneInserted
  <2>3. (CHOOSE q \in {r} : TRUE) = r
    OBVIOUS
  <2>4. ExitOf(r)' = ExitOf(r)
    BY <2>1 DEF ExitOf, ExitFor
  <2> QED
    BY <2>2, <2>3, <2>4 DEF OnRecord
<1> QED
  BY <1>1, <1>2

(* A step that leaves the phases alone and at most loses records abandons  *)
(* the runs whose record is lost.                                          *)
LEMMA Abandons ==
  ASSUME \A t \in TaskIds : Phase(t)' = Phase(t),
         \A t \in TaskIds : OnRecord(t)' \in {OnRecord(t), "none"}
  PROVE  Machine!Next
<1> DEFINE T == {t \in TaskIds : OnRecord(t)' = "none"}
<1>1. Machine!Abandon(T)
  BY DEF Machine!Abandon
<1> QED
  BY <1>1 DEF Machine!Next

(* What the refinement rests on: the invariants of one worker.             *)
OneWorkerInv == TypeOK /\ HistoryInv /\ ClaimInv /\ VictimsInv

(* Which steps change a run thread.                                        *)
LEMMA ThreadsChange ==
  ASSUME [Next]_vars
  PROVE  \/ \E w \in Workers : \/ StartSpawn(w) \/ Crash(w) \/ Shutdown(w)
                               \/ CreateCommit(w) \/ DeleteCommit(w) \/ StartUpdate(w)
         \/ \E q \in RunIds : RunStep(q) \/ RunFault(q)
         \/ UNCHANGED run
<1>1. ASSUME NEW w \in Workers, Request(w) PROVE UNCHANGED run
  <2>1. ASSUME NEW n \in Names, CreateRead(w, n) PROVE UNCHANGED run
    BY <2>1 DEF CreateRead
  <2>2. ASSUME NEW t \in TaskIds, DeleteRead(w, t) \/ StartGet(w, t)
        PROVE  UNCHANGED run
    BY <2>2 DEF DeleteRead, StartGet
  <2> QED
    BY <1>1, <2>1, <2>2 DEF Request
<1>2. ASSUME NEW w \in Workers, LoopStep(w)
      PROVE  \/ StartSpawn(w) \/ CreateCommit(w) \/ DeleteCommit(w) \/ StartUpdate(w)
             \/ UNCHANGED run
  BY <1>2 DEF LoopStep, CreateRefused, CreateMirror, DeleteRefused, DeleteMirror,
     StartVanished, StartMirror
<1>3. ASSUME NEW w \in Workers, LoopFault(w) \/ Restart(w) PROVE UNCHANGED run
  BY <1>3 DEF LoopFault, Restart
<1> QED
  BY <1>1, <1>2, <1>3 DEF Next, Failure, vars

(* A run whose row is stored keeps its task and its outcome, and does not  *)
(* come back to life.                                                      *)
LEMMA RecordedRuns ==
  ASSUME TypeOK, RowsFollowRuns, [Next]_vars, NEW r \in results
  PROVE  /\ run'[r].task = run[r].task
         /\ run'[r].state = run[r].state
         /\ Live(r)' => Live(r)
<1> USE DEF Live, LivePcs
<1>1. r \in RunIds /\ run[r].pc \notin {"unused", "exec", "result"}
  BY RowsAreRuns DEF RowsFollowRuns, Started
<1>2. ASSUME NEW q \in RunIds, NEW pc \in {"result.mirror", "status", "status.mirror", "ended"},
             RunGoto(q, pc), pc = "status" => run[q].pc = "result.mirror",
             pc = "result.mirror" => run[q].pc = "result"
      PROVE  /\ run'[r].task = run[r].task
             /\ run'[r].state = run[r].state
             /\ run'[r].pc \in LivePcs => run[r].pc \in LivePcs
  BY <1>1, <1>2, ThreadMoves DEF RunPcs
<1>3. ASSUME NEW q \in RunIds, NEW s \in Terminal, Execute(q, s)
      PROVE  run'[r] = run[r]
  BY <1>1, <1>3, ThreadExecutes
<1>4. ASSUME NEW w \in Workers, StartSpawn(w) PROVE run'[r] = run[r]
  BY <1>1, <1>4, ThreadSpawns
<1>5. ASSUME NEW w \in Workers, Crash(w) \/ Shutdown(w)
      PROVE  /\ run'[r].task = run[r].task
             /\ run'[r].state = run[r].state
             /\ run'[r].pc \in LivePcs => run[r].pc \in LivePcs
  BY <1>1, <1>5, ThreadsDie DEF Crash, Shutdown
<1>6. ASSUME NEW q \in RunIds, RunStep(q) \/ RunFault(q)
      PROVE  /\ run'[r].task = run[r].task
             /\ run'[r].state = run[r].state
             /\ run'[r].pc \in LivePcs => run[r].pc \in LivePcs
  <2>1. \/ \E s \in Terminal : Execute(q, s)
        \/ RunGoto(q, "ended") \/ RunGoto(q, "status.mirror")
        \/ run[q].pc = "result.mirror" /\ RunGoto(q, "status")
        \/ run[q].pc = "result" /\ RunGoto(q, "result.mirror")
    BY <1>6 DEF RunStep, ResultCommit, ResultRefused, ResultMirror,
       StatusCommit, StatusVanished, StatusMirror, RunFault
  <2> QED
    BY <2>1, <1>2, <1>3
<1>7. ASSUME NEW w \in Workers, CreateCommit(w) PROVE run' = run
  BY <1>7 DEF CreateCommit
<1>8. ASSUME NEW w \in Workers, DeleteCommit(w) \/ StartUpdate(w) PROVE run' = run
  BY <1>8 DEF DeleteCommit, StartUpdate
<1> QED
  BY <1>4, <1>5, <1>6, <1>7, <1>8, ThreadsChange

(* A task gets no row by a step that inserts none.                         *)
LEMMA NoRowAdded ==
  ASSUME TypeOK, RowsFollowRuns, [Next]_vars, results' \subseteq results,
         NEW t \in TaskIds
  PROVE  /\ Inserted(t)' \subseteq Inserted(t)
         /\ \A r \in Inserted(t)' : run'[r].state = run[r].state
BY RecordedRuns DEF Inserted, RunsOf

(* The steps that neither write a status nor insert a row.                 *)
LEMMA RunsAreLost ==
  ASSUME OneWorkerInv, [Next]_vars, UNCHANGED <<status, nameOf>>,
         results' \subseteq results
  PROVE  Machine!Next
<1>1. \A t \in TaskIds : OnRecord(t)' \in {OnRecord(t), "none"}
  BY NoRowAdded, RecordKeptOrLost DEF OneWorkerInv, HistoryInv, ClaimInv
<1>2. \A t \in TaskIds : Phase(t)' = Phase(t)
  BY DEF Phase
<1> QED
  BY <1>1, <1>2, Abandons

LEMMA CreateImplemented ==
  ASSUME OneWorkerInv, [Next]_vars, NEW w \in Workers, CreateCommit(w)
  PROVE  Machine!Next
<1> USE DEF OneWorkerInv, HistoryInv, ClaimInv
<1>1. PICK t \in TaskIds \ Drawn :
         /\ status' = [u \in TaskIds |->
                         IF u = t THEN "pending"
                         ELSE IF u \in loop[w].victims THEN "absent"
                         ELSE status[u]]
         /\ nameOf' = [nameOf EXCEPT ![t] = loop[w].name]
  BY DEF CreateCommit
<1> DEFINE V == {u \in loop[w].victims : status[u] # "absent"}
<1>2. /\ loop[w].name \in Names /\ loop[w].name # None
      /\ \A u \in loop[w].victims : u \in TaskIds /\ nameOf[u] = loop[w].name
  BY NoneAssumption DEF CreateCommit, TasksDrawn, VictimsInv, TypeOK, Handlers
<1>3. nameOf[t] = None /\ status[t] = "absent" /\ t \notin loop[w].victims
  BY <1>2 DEF Drawn, TasksDrawn
<1>4. \A u \in TaskIds : Phase(u)' = IF u = t THEN "pending"
                                     ELSE IF u \in V THEN "deleted" ELSE Phase(u)
  BY <1>1, <1>2, <1>3 DEF Phase, TypeOK
<1>5. \A u \in TaskIds : OnRecord(u)' = IF u \in V THEN "none" ELSE OnRecord(u)
  <2> SUFFICES ASSUME NEW u \in TaskIds
               PROVE  OnRecord(u)' = IF u \in V THEN "none" ELSE OnRecord(u)
    OBVIOUS
  <2>1. CASE status'[u] # "running"
    BY <1>1, <1>3, <2>1 DEF OnRecord
  <2>2. CASE status'[u] = "running"
    <3>1. u # t /\ u \notin loop[w].victims /\ status'[u] = status[u]
      BY <1>1, <2>2
    <3>2. UNCHANGED run /\ results' = results \ loop[w].rows
      BY DEF CreateCommit
    <3>3. Inserted(u)' = Inserted(u)
      BY <3>1, <3>2 DEF Inserted, RunsOf, Live, RowsFollowRuns
    <3> QED
      BY <3>1, <3>2, <3>3, RecordKeptOrLost
  <2> QED
    BY <2>1, <2>2
<1>6. Phase(t) = "unborn"
  BY <1>3 DEF Phase
<1>7. V \in SUBSET Machine!Present
  BY <1>2 DEF Machine!Present, Machine!Startable, Machine!Terminal, Phase,
     TypeOK, Stored, Statuses, Terminal
<1>8. Machine!Create(t, V)
  BY <1>4, <1>5, <1>6 DEF Machine!Create
<1> QED
  BY <1>7, <1>8 DEF Machine!Next

LEMMA DeleteImplemented ==
  ASSUME OneWorkerInv, [Next]_vars, NEW w \in Workers, DeleteCommit(w)
  PROVE  Machine!Next
<1> USE DEF OneWorkerInv, HistoryInv, ClaimInv
<1>0. PICK t \in TaskIds : t = loop[w].task
  BY DEF DeleteCommit, VictimsInv, Drawn
<1>1. /\ t \in TaskIds /\ nameOf[t] # None
      /\ status' = [u \in TaskIds |-> IF u = t THEN "absent" ELSE status[u]]
      /\ UNCHANGED <<nameOf, run>>
      /\ results' = results \ loop[w].rows
  BY <1>0 DEF DeleteCommit, VictimsInv, Drawn
<1>2. CASE status[t] = "absent"
  <2>1. status' = status
    BY <1>1, <1>2 DEF TypeOK
  <2> QED
    BY <1>1, <2>1, RunsAreLost
<1>3. CASE status[t] # "absent"
  <2>1. \A u \in TaskIds : Phase(u)' = IF u = t THEN "deleted" ELSE Phase(u)
    BY <1>1 DEF Phase
  <2>2. \A u \in TaskIds : OnRecord(u)' = IF u = t THEN "none" ELSE OnRecord(u)
    <3> SUFFICES ASSUME NEW u \in TaskIds
                 PROVE  OnRecord(u)' = IF u = t THEN "none" ELSE OnRecord(u)
      OBVIOUS
    <3>1. CASE u = t
      BY <1>1, <3>1 DEF OnRecord
    <3>2. CASE u # t
      <4>1. status'[u] = status[u]
        BY <1>1, <3>2
      <4>2. \A r \in loop[w].rows : run[r].task = t
        BY <1>0 DEF RowsFollowRuns, VictimsInv, DeleteCommit
      <4>3. Inserted(u)' = Inserted(u)
        BY <1>1, <3>2, <4>2 DEF Inserted, RunsOf, Live
      <4> QED
        BY <1>1, <3>2, <4>1, <4>3, RecordKeptOrLost
    <3> QED
      BY <3>1, <3>2
  <2>3. t \in Machine!Present
    BY <1>1, <1>3 DEF Machine!Present, Machine!Startable, Machine!Terminal, Phase,
       TypeOK, Stored, Statuses, Terminal
  <2>4. Machine!Delete(t)
    BY <1>1, <2>1, <2>2, <2>3 DEF Machine!Delete
  <2> QED
    BY <1>1, <2>4 DEF Machine!Next
<1> QED
  BY <1>2, <1>3

LEMMA StartImplemented ==
  ASSUME OneWorkerInv, [Next]_vars, NEW w \in Workers, StartUpdate(w)
  PROVE  Machine!Next
<1> USE DEF OneWorkerInv, HistoryInv, ClaimInv
<1>0. PICK t \in TaskIds : t = loop[w].task
  BY DEF StartUpdate, Starting, TasksDrawn, Drawn
<1>1. /\ loop[w].pc = "start.update" /\ status[t] # "absent"
      /\ UNCHANGED <<nameOf, results, run>>
  BY <1>0 DEF StartUpdate
<1>2. /\ t \in TaskIds /\ status[t] # "running"
      /\ \A r \in RunIds : ~(Live(r) /\ run[r].task = t)
  BY <1>0, <1>1 DEF Starting
<1>3. \A u \in TaskIds : status'[u] = IF u = t THEN "running" ELSE status[u]
  BY <1>0, StatusClaims
<1>4. \A u \in TaskIds : Phase(u)' = IF u = t THEN "running" ELSE Phase(u)
  BY <1>1, <1>3 DEF Phase
<1>5. \A u \in TaskIds : OnRecord(u)' = OnRecord(u)
  <2>1. \A u \in TaskIds : Inserted(u)' = Inserted(u)
    BY <1>1 DEF Inserted, RunsOf, Live
  <2>2. OnRecord(t) = "none" /\ OnRecord(t)' = "none"
    BY <1>2, <2>1 DEF OnRecord, Inserted, RunsOf
  <2>3. ASSUME NEW u \in TaskIds, u # t PROVE OnRecord(u)' = OnRecord(u)
    <3>1. status'[u] = status[u]
      BY <1>3, <2>3
    <3> QED
      BY <1>1, <2>1, <3>1, RecordKeptOrLost
  <2> QED
    BY <2>2, <2>3
<1>6. Phase(t) \in Machine!Startable
  BY <1>1, <1>2 DEF Machine!Startable, Machine!Terminal, Phase, TypeOK, Stored,
     Statuses, Terminal
<1>7. Machine!Start(t)
  BY <1>2, <1>4, <1>5, <1>6 DEF Machine!Start
<1> QED
  BY <1>2, <1>7 DEF Machine!Next

LEMMA RecordImplemented ==
  ASSUME OneWorkerInv, [Next]_vars, NEW r \in RunIds, ResultCommit(r)
  PROVE  Machine!Next
<1> USE DEF OneWorkerInv, HistoryInv, ClaimInv
<1>0. PICK t \in TaskIds : t = run[r].task
  BY DEF ResultCommit, TasksDrawn, Started, Drawn
<1>1. /\ run[r].pc = "result" /\ results' = results \cup {r}
      /\ UNCHANGED <<status, nameOf>>
      /\ \A q \in RunIds :
           /\ run'[q].task = run[q].task
           /\ run'[q].state = run[q].state
           /\ run'[q].pc = IF q = r THEN "result.mirror" ELSE run[q].pc
  BY ThreadMoves DEF ResultCommit, RunPcs, LivePcs
<1>2. t \in TaskIds /\ run[r].state \in Terminal /\ Live(r)
  BY <1>1 DEF OutcomeKnown, Executed, Live, LivePcs
<1>3. Inserted(t) = {}
  BY <1>0, <1>1, <1>2 DEF Inserted, RunsOf, AtMostOneLiveRun, RowsFollowRuns
<1>4. Inserted(t)' = {r}
  BY <1>0, <1>1, <1>2, <1>3 DEF Inserted, RunsOf, Live, LivePcs
<1>5. \A u \in TaskIds \ {t} : OnRecord(u)' = OnRecord(u)
  <2> SUFFICES ASSUME NEW u \in TaskIds \ {t} PROVE OnRecord(u)' = OnRecord(u)
    OBVIOUS
  <2>1. Inserted(u)' = Inserted(u)
    BY <1>0, <1>1, <1>2 DEF Inserted, RunsOf, Live, LivePcs
  <2>2. \A q \in Inserted(u) : run'[q].state = run[q].state
    BY <1>1 DEF Inserted, RunsOf
  <2> QED
    BY <1>1, <2>1, <2>2, RecordKeptOrLost
<1>6. \A u \in TaskIds : Phase(u)' = Phase(u)
  BY <1>1 DEF Phase
<1>7. OnRecord(t) = "none"
  BY <1>3 DEF OnRecord
<1>8. CASE status[t] = "running"
  <2>1. (CHOOSE q \in {r} : TRUE) = r
    OBVIOUS
  <2>2. OnRecord(t)' = ExitOf(r)'
    BY <1>1, <1>4, <1>8, <2>1 DEF OnRecord
  <2>3. ExitOf(r)' = ExitOf(r) /\ ExitOf(r) \in Machine!Exits
    BY <1>1, <1>2 DEF ExitOf, ExitFor, Machine!Exits
  <2>4. Phase(t) = "running"
    BY <1>8 DEF Phase
  <2>5. Machine!Record(t, ExitOf(r))
    BY <1>2, <1>5, <1>6, <1>7, <2>2, <2>3, <2>4 DEF Machine!Record
  <2> QED
    BY <1>2, <2>3, <2>5 DEF Machine!Next
<1>9. CASE status[t] # "running"
  <2>1. OnRecord(t)' = "none"
    BY <1>1, <1>9 DEF OnRecord
  <2> QED
    BY <1>5, <1>6, <2>1, Abandons
<1> QED
  BY <1>8, <1>9

LEMMA SettleImplemented ==
  ASSUME OneWorkerInv, [Next]_vars, NEW r \in RunIds, StatusCommit(r)
  PROVE  Machine!Next
<1> USE DEF OneWorkerInv, HistoryInv, ClaimInv
<1>0. PICK t \in TaskIds, s \in Terminal : t = run[r].task /\ s = run[r].state
  BY StatusSettles DEF StatusCommit, TasksDrawn, Started, Drawn
<1>1. /\ run[r].pc = "status" /\ status[t] # "absent"
      /\ UNCHANGED <<nameOf, results>>
      /\ \A q \in RunIds :
           /\ run'[q].task = run[q].task
           /\ run'[q].state = run[q].state
           /\ run'[q].pc = IF q = r THEN "status.mirror" ELSE run[q].pc
  BY <1>0, ThreadMoves DEF StatusCommit, RunPcs, LivePcs
<1>2. t \in TaskIds /\ s \in Terminal /\ Live(r)
  BY <1>1 DEF Live, LivePcs
<1>3. status[t] = "running"
  BY <1>0, <1>1, <1>2
<1>4. \A u \in TaskIds : status'[u] = IF u = t THEN s ELSE status[u]
  BY <1>0, StatusSettles
<1>5. r \in Inserted(t)
  BY <1>0, <1>1, <1>2 DEF Inserted, RunsOf, RowsFollowRuns
<1>6. OnRecord(t) = ExitFor(s)
  BY <1>0, <1>2, <1>3, <1>5, OneInserted DEF ExitOf
<1>7. OnRecord(t)' = "none"
  BY <1>2, <1>4 DEF OnRecord, Terminal
<1>8. \A u \in TaskIds \ {t} : OnRecord(u)' = OnRecord(u)
  <2> SUFFICES ASSUME NEW u \in TaskIds \ {t} PROVE OnRecord(u)' = OnRecord(u)
    OBVIOUS
  <2>1. Inserted(u)' = Inserted(u)
    BY <1>0, <1>1, <1>2 DEF Inserted, RunsOf, Live, LivePcs
  <2>2. \A q \in Inserted(u) : run'[q].state = run[q].state
    BY <1>1 DEF Inserted, RunsOf
  <2>3. status'[u] = status[u]
    BY <1>4
  <2> QED
    BY <2>1, <2>2, <2>3, RecordKeptOrLost
<1>9. \A u \in TaskIds : Phase(u)' = IF u = t THEN s ELSE Phase(u)
  BY <1>1, <1>2, <1>4 DEF Phase, Terminal
<1>10. Phase(t) = "running"
  BY <1>3 DEF Phase
<1>11. ExitFor(s) = Machine!ExitFor(s)
  BY DEF ExitFor, Machine!ExitFor
<1>12. Machine!Settle(t, s)
  <2>1. [u \in TaskIds |-> Phase(u)]' =
            [[u \in TaskIds |-> Phase(u)] EXCEPT ![t] = s]
    BY <1>2, <1>9
  <2>2. [u \in TaskIds |-> OnRecord(u)]' =
            [[u \in TaskIds |-> OnRecord(u)] EXCEPT ![t] = "none"]
    BY <1>2, <1>7, <1>8
  <2> QED
    BY <1>2, <1>6, <1>10, <1>11, <2>1, <2>2 DEF Machine!Settle
<1>13. s \in Machine!Terminal
  BY <1>2 DEF Terminal, Machine!Terminal
<1> QED
  BY <1>2, <1>12, <1>13 DEF Machine!Next

(* Every other step writes no status and inserts no row.                   *)
LEMMA QuietSteps ==
  ASSUME [Next]_vars
  PROVE  \/ \E w \in Workers : CreateCommit(w) \/ DeleteCommit(w) \/ StartUpdate(w)
         \/ \E r \in RunIds : ResultCommit(r) \/ StatusCommit(r)
         \/ UNCHANGED <<status, nameOf, results>>
<1>1. ASSUME NEW w \in Workers, Request(w) PROVE UNCHANGED <<status, nameOf, results>>
  <2>1. ASSUME NEW n \in Names, CreateRead(w, n)
        PROVE  UNCHANGED <<status, nameOf, results>>
    BY <2>1 DEF CreateRead
  <2>2. ASSUME NEW t \in TaskIds, DeleteRead(w, t) \/ StartGet(w, t)
        PROVE  UNCHANGED <<status, nameOf, results>>
    BY <2>2 DEF DeleteRead, StartGet
  <2> QED
    BY <1>1, <2>1, <2>2 DEF Request
<1>2. ASSUME NEW w \in Workers, LoopStep(w)
      PROVE  \/ CreateCommit(w) \/ DeleteCommit(w) \/ StartUpdate(w)
             \/ UNCHANGED <<status, nameOf, results>>
  BY <1>2 DEF LoopStep, CreateRefused, CreateMirror, DeleteRefused, DeleteMirror,
     StartVanished, StartMirror, StartSpawn
<1>3. ASSUME NEW r \in RunIds, RunStep(r)
      PROVE  \/ ResultCommit(r) \/ StatusCommit(r)
             \/ UNCHANGED <<status, nameOf, results>>
  BY <1>3 DEF RunStep, Execute, ResultRefused, ResultMirror, StatusVanished, StatusMirror
<1>4. ASSUME Failure PROVE UNCHANGED <<status, nameOf, results>>
  BY <1>4 DEF Failure, LoopFault, Crash, Shutdown, Die, Restart, RunFault
<1> QED
  BY <1>1, <1>2, <1>3, <1>4 DEF Next, vars

LEMMA StepImplemented ==
  ASSUME OneWorkerInv, [Next]_vars
  PROVE  Machine!Next
BY CreateImplemented, DeleteImplemented, StartImplemented, RecordImplemented,
   SettleImplemented, QuietSteps, RunsAreLost

(* One worker implements the state machine a client is promised, whatever  *)
(* handlers, threads, failed transactions, crashes and restarts do: every  *)
(* run is recorded at most once, while its task is running, and the task   *)
(* then takes the status that agrees with the recorded exit code.          *)
THEOREM OneWorkerImplements ==
  ASSUME SingleWorker
  PROVE  Spec => ImplementsMachine
<1>1. Init => OneWorkerInv
  BY InitHistory DEF OneWorkerInv, ClaimInv, VictimsInv, AtMostOneLiveRun, Live,
     LivePcs, Starting, Init, Idle, NoRun
<1>2. OneWorkerInv /\ [Next]_vars => OneWorkerInv'
  BY SingleWorker, TypeStep, OutcomeStep, DrawnStep, RowsStep, BackedStep,
     ClaimStep, VictimsStep DEF OneWorkerInv, HistoryInv
<1>3. Init => Machine!Init
  BY DEF Init, Machine!Init, Phase, OnRecord
<1>4. OneWorkerInv /\ [Next]_vars => Machine!Next
  BY StepImplemented
<1> QED
  BY <1>1, <1>2, <1>3, <1>4, PTL DEF Spec, ImplementsMachine, Machine!Spec

-----------------------------------------------------------------------------
(* While nothing fails, a running task has a driver.                       *)
Calm == faults + crashes + shutdowns = 0

(* What was calm stays so until a fault or a stop, which are counted.      *)
LEMMA CalmSteps ==
  ASSUME TypeOK, OutcomeKnown, Calm', [Next]_vars
  PROVE  /\ Calm
         /\ \A w \in Workers : ~LoopFault(w) /\ ~Crash(w) /\ ~Shutdown(w)
         /\ \A r \in RunIds : ~RunFault(r)
<1>1. /\ faults \in Nat /\ crashes \in Nat /\ shutdowns \in Nat
      /\ faults' \in Nat /\ crashes' \in Nat /\ shutdowns' \in Nat
  <2>1. TypeOK'
    BY TypeStep
  <2> QED
    BY <2>1, BoundsAssumption DEF TypeOK
<1>2. faults' = 0 /\ crashes' = 0 /\ shutdowns' = 0
  <2>1. ASSUME NEW a \in Nat, NEW b \in Nat, NEW c \in Nat, a + b + c = 0
        PROVE  a = 0 /\ b = 0 /\ c = 0
    BY <2>1
  <2>2. faults' + crashes' + shutdowns' = 0
    BY Zenon DEF Calm
  <2> QED
    BY <1>1, <2>1, <2>2
<1>3. /\ \A w \in Workers : ~LoopFault(w) /\ ~Crash(w) /\ ~Shutdown(w)
      /\ \A r \in RunIds : ~RunFault(r)
  BY <1>1, <1>2 DEF LoopFault, RunFault, Crash, Shutdown
<1>4. UNCHANGED bounds
  <2>1. ASSUME NEW w \in Workers, Request(w) PROVE UNCHANGED bounds
    <3>1. ASSUME NEW n \in Names, CreateRead(w, n) PROVE UNCHANGED bounds
      BY <3>1 DEF CreateRead
    <3>2. ASSUME NEW t \in TaskIds, DeleteRead(w, t) \/ StartGet(w, t)
          PROVE  UNCHANGED bounds
      BY <3>2 DEF DeleteRead, StartGet
    <3> QED
      BY <2>1, <3>1, <3>2 DEF Request
  <2>2. ASSUME NEW w \in Workers, CreateCommit(w) PROVE UNCHANGED bounds
    BY <2>2 DEF CreateCommit
  <2>3. ASSUME NEW w \in Workers, LoopStep(w) PROVE UNCHANGED bounds
    BY <2>2, <2>3
       DEF LoopStep, CreateRefused, CreateMirror, DeleteCommit, DeleteRefused,
           DeleteMirror, StartUpdate, StartVanished, StartMirror, StartSpawn
  <2>4. ASSUME NEW r \in RunIds, RunStep(r) PROVE UNCHANGED bounds
    BY <2>4
       DEF RunStep, Execute, ResultCommit, ResultRefused, ResultMirror,
           StatusCommit, StatusVanished, StatusMirror
  <2>5. ASSUME NEW w \in Workers, Restart(w) PROVE UNCHANGED bounds
    BY <2>5 DEF Restart
  <2> QED
    BY <1>3, <2>1, <2>3, <2>4, <2>5 DEF Next, Failure, vars, bounds
<1> QED
  BY <1>2, <1>3, <1>4 DEF bounds, Calm

(* A task comes to read running only when a handler claims it.             *)
LEMMA ClaimsOnly ==
  ASSUME TypeOK, OutcomeKnown, [Next]_vars,
         NEW t \in TaskIds, status'[t] = "running"
  PROVE  \/ status[t] = "running"
         \/ \E w \in Workers : StartUpdate(w) /\ loop[w].task = t
<1>1. ASSUME NEW w \in Workers, CreateCommit(w) PROVE status[t] = "running"
  BY <1>1 DEF CreateCommit
<1>2. ASSUME NEW w \in Workers, DeleteCommit(w) PROVE status[t] = "running"
  BY <1>2 DEF DeleteCommit
<1>3. ASSUME NEW w \in Workers, StartUpdate(w)
      PROVE  status[t] = "running" \/ loop[w].task = t
  BY <1>3, StatusClaims
<1>4. ASSUME NEW r \in RunIds, StatusCommit(r) PROVE status[t] = "running"
  BY <1>4, StatusSettles DEF Terminal
<1>5. ASSUME NEW r \in RunIds, ResultCommit(r) PROVE status[t] = "running"
  BY <1>5 DEF ResultCommit
<1> QED
  BY <1>1, <1>2, <1>3, <1>4, <1>5, QuietSteps

(* A thread drives its task until it settles it or finds it deleted.       *)
LEMMA ThreadDrives ==
  ASSUME TypeOK, OutcomeKnown, ResultInsertable, Calm', [Next]_vars,
         NEW t \in TaskIds, NEW r \in RunsOf(t), status'[t] = "running"
  PROVE  r \in RunsOf(t)'
<1> USE DEF RunsOf, Live, LivePcs
<1>1. ASSUME NEW q \in RunIds, NEW pc \in RunPcs, RunGoto(q, pc),
             q # r \/ pc \in LivePcs
      PROVE  r \in RunsOf(t)'
  BY <1>1, ThreadMoves
<1>2. ASSUME NEW w \in Workers, StartSpawn(w) PROVE r \in RunsOf(t)'
  BY <1>2, ThreadSpawns
<1>3. ASSUME NEW q \in RunIds, RunStep(q) PROVE r \in RunsOf(t)'
  <2>1. ASSUME NEW s \in Terminal, Execute(q, s) PROVE r \in RunsOf(t)'
    BY <2>1, ThreadExecutes
  <2>2. CASE ResultCommit(q)
    BY <2>2, <1>1 DEF ResultCommit, RunPcs
  <2>3. CASE ResultMirror(q)
    BY <2>3, <1>1 DEF ResultMirror, RunPcs
  <2>4. CASE ResultRefused(q)
    <3>1. status[run[q].task] = "absent" /\ UNCHANGED status /\ RunGoto(q, "ended")
      BY <2>4 DEF ResultRefused, ResultAccepted
    <3> QED
      BY <3>1, <1>1 DEF RunPcs
  <2>5. CASE StatusCommit(q)
    <3>1. q # r
      BY <2>5, StatusSettles DEF Terminal
    <3> QED
      BY <2>5, <3>1, <1>1 DEF StatusCommit, RunPcs
  <2>6. CASE StatusVanished(q)
    <3>1. status[run[q].task] = "absent" /\ UNCHANGED status /\ RunGoto(q, "ended")
      BY <2>6 DEF StatusVanished
    <3> QED
      BY <3>1, <1>1 DEF RunPcs
  <2>7. CASE StatusMirror(q)
    <3>1. q # r /\ RunGoto(q, "ended")
      BY <2>7 DEF StatusMirror
    <3> QED
      BY <3>1, <1>1 DEF RunPcs
  <2> QED
    BY <1>3, <2>1, <2>2, <2>3, <2>4, <2>5, <2>6, <2>7 DEF RunStep
<1>4. ASSUME NEW w \in Workers, CreateCommit(w) PROVE UNCHANGED run
  BY <1>4 DEF CreateCommit
<1>5. ASSUME NEW w \in Workers, DeleteCommit(w) \/ StartUpdate(w) PROVE UNCHANGED run
  BY <1>5 DEF DeleteCommit, StartUpdate
<1> QED
  BY <1>2, <1>3, <1>4, <1>5, CalmSteps, ThreadsChange

(* A handler that claimed a task keeps it until its thread takes it over.  *)
LEMMA HandlerDrives ==
  ASSUME TypeOK, OutcomeKnown, Calm', [Next]_vars, NEW t \in TaskIds, NEW w \in Workers,
         loop[w].pc \in {"start.mirror", "start.spawn"}, loop[w].task = t
  PROVE  Driven(t)'
<1>1. CASE StartMirror(w)
  <2>1. loop'[w].pc = "start.spawn" /\ loop'[w].task = t
    BY <1>1, HandlerMoves DEF StartMirror, LoopPcs
  <2> QED
    BY <2>1 DEF Driven
<1>2. CASE StartSpawn(w)
  BY <1>2, ThreadSpawns DEF Driven, RunsOf, Live, LivePcs
<1>3. CASE loop'[w] = loop[w]
  BY <1>3 DEF Driven
<1>4. ASSUME NEW v \in Workers, LoopStep(v), ~StartMirror(w), ~StartSpawn(w)
      PROVE  loop'[w] = loop[w]
  <2>1. v # w
    BY <1>4 DEF LoopStep, CreateCommit, CreateRefused, CreateMirror, DeleteCommit,
       DeleteRefused, DeleteMirror, StartUpdate, StartVanished
  <2>2. CASE CreateCommit(v)
    BY <2>1, <2>2 DEF CreateCommit, TypeOK
  <2> QED
    BY <1>4, <2>1, <2>2
       DEF LoopStep, CreateRefused, CreateMirror, DeleteCommit, DeleteRefused,
           DeleteMirror, StartUpdate, StartVanished, StartMirror, StartSpawn,
           Answer, Goto, TypeOK
<1>5. ASSUME NEW v \in Workers, Request(v) PROVE loop'[w] = loop[w]
  <2>1. v # w
    <3>1. Ready(v)
      <4>1. ASSUME NEW n \in Names, CreateRead(v, n) PROVE Ready(v)
        BY <4>1 DEF CreateRead
      <4>2. ASSUME NEW u \in TaskIds, DeleteRead(v, u) \/ StartGet(v, u)
            PROVE  Ready(v)
        BY <4>2 DEF DeleteRead, StartGet
      <4> QED
        BY <1>5, <4>1, <4>2 DEF Request
    <3> QED
      BY <3>1 DEF Ready
  <2>2. ASSUME NEW n \in Names, CreateRead(v, n) PROVE loop'[w] = loop[w]
    BY <2>1, <2>2 DEF CreateRead, TypeOK
  <2>3. ASSUME NEW u \in TaskIds, DeleteRead(v, u) \/ StartGet(v, u)
        PROVE  loop'[w] = loop[w]
    BY <2>1, <2>3 DEF DeleteRead, StartGet, TypeOK
  <2> QED
    BY <1>5, <2>2, <2>3 DEF Request
<1>6. ASSUME NEW r \in RunIds, RunStep(r) PROVE loop'[w] = loop[w]
  BY <1>6 DEF RunStep, Execute, ResultCommit, ResultRefused, ResultMirror,
     StatusCommit, StatusVanished, StatusMirror
<1>7. ASSUME NEW v \in Workers, Restart(v) PROVE loop'[w] = loop[w]
  BY <1>7 DEF Restart
<1> QED
  BY <1>1, <1>2, <1>3, <1>4, <1>5, <1>6, <1>7, CalmSteps DEF Next, Failure, vars

(* No task is left running without a thread or a handler that will settle  *)
(* it: not when workers start it twice, nor when a delete races the run.   *)
THEOREM NoRunIsForgotten ==
  Spec => []RunningIsDriven
<1> DEFINE Inv == TypeOK /\ OutcomeKnown /\ RunningIsDriven
<1>1. Init => Inv
  BY InitTyped DEF Init, OutcomeKnown, RunningIsDriven, Executed, NoRun
<1>2. Inv /\ [Next]_vars => Inv'
  <2> SUFFICES ASSUME Inv, [Next]_vars PROVE RunningIsDriven'
    BY TypeStep, OutcomeStep
  <2> SUFFICES ASSUME Calm', ResultInsertable, NEW t \in TaskIds, status'[t] = "running"
               PROVE  Driven(t)'
    BY DEF RunningIsDriven, Calm, ResultInsertable
  <2>1. CASE status[t] = "running"
    <3>1. Driven(t)
      BY <2>1, CalmSteps DEF RunningIsDriven, Calm
    <3>2. CASE RunsOf(t) # {}
      BY <3>2, ThreadDrives DEF Driven
    <3>3. ASSUME NEW w \in Workers, loop[w].pc \in {"start.mirror", "start.spawn"},
                 loop[w].task = t
          PROVE  Driven(t)'
      BY <3>3, HandlerDrives
    <3> QED
      BY <3>1, <3>2, <3>3 DEF Driven
  <2>2. ASSUME NEW w \in Workers, StartUpdate(w), loop[w].task = t
        PROVE  Driven(t)'
    <3>1. loop'[w].pc = "start.mirror" /\ loop'[w].task = t
      BY <2>2, HandlerMoves DEF StartUpdate, LoopPcs
    <3> QED
      BY <3>1 DEF Driven
  <2> QED
    BY <2>1, <2>2, ClaimsOnly
<1> QED
  BY <1>1, <1>2, PTL DEF Spec
=============================================================================
