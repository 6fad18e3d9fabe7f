--------------------------- MODULE ExecutorProofs ---------------------------
(***************************************************************************)
(* For every finite set of jobs and every TASKQ_MAX_CONCURRENT: the slots  *)
(* of the executor, the queue for them, and the tally of drain().          *)
(***************************************************************************)
EXTENDS Executor, FiniteSetTheorems, SequenceTheorems, WellFoundedInduction, TLAPS

States == {"new", "queued", "granted", "withdrawn"} \cup InTask \cup Ended
Holding == InTask \cup {"granted"}
Holders(js) == {j \in Jobs : js[j] \in Holding}

JobsTyped == job \in [Jobs -> States] /\ free \in Nat
Balance == free + Cardinality(Holders(job))
Doomed(js) == {j \in Jobs : js[j] = "doomed"}

(* The steps but the one that loses a slot.                                *)
Others ==
    \/ \E j \in Jobs :
         \/ Submit(j) \/ SubmitQueues(j) \/ SubmitResumes(j) \/ SubmitWithdrawn(j)
         \/ FirstStep(j) \/ Survive(j) \/ Notify(j) \/ Cancel(j)
         \/ \E s \in Ended : Finish(j, s)
    \/ DrainStart \/ DrainTimeout \/ DrainFinish \/ UNCHANGED vars

-----------------------------------------------------------------------------
LEMMA HoldersFinite ==
    ASSUME NEW js
    PROVE  IsFiniteSet(Holders(js)) /\ Cardinality(Holders(js)) \in Nat
<1>1. Holders(js) \in SUBSET Jobs
  BY DEF Holders
<1>2. IsFiniteSet(Holders(js))
  BY <1>1, FS_Subset, JobsAssumption DEF JobsAssumption
<1>3. QED
  BY <1>2, FS_CardinalityType

(* One job changes its state.                                              *)
LEMMA ChangeOne ==
    ASSUME NEW js \in [Jobs -> States], NEW after \in [Jobs -> States],
           NEW j \in Jobs, NEW s \in States, after = [js EXCEPT ![j] = s]
    PROVE  /\ (s \in Holding /\ js[j] \notin Holding) =>
                Cardinality(Holders(after)) = Cardinality(Holders(js)) + 1
           /\ (s \notin Holding /\ js[j] \in Holding) =>
                Cardinality(Holders(after)) = Cardinality(Holders(js)) - 1
           /\ (s \in Holding <=> js[j] \in Holding) =>
                Cardinality(Holders(after)) = Cardinality(Holders(js))
<1>1. IsFiniteSet(Holders(js))
  BY HoldersFinite
<1>2. j \in Holders(js) <=> js[j] \in Holding
  BY DEF Holders
<1>3. CASE s \in Holding
  <2>1. Holders(after) = Holders(js) \cup {j}
    BY <1>3 DEF Holders
  <2>2. Cardinality(Holders(js) \cup {j}) =
          IF j \in Holders(js) THEN Cardinality(Holders(js))
                               ELSE Cardinality(Holders(js)) + 1
    BY <1>1, FS_AddElement
  <2>3. QED
    BY <1>2, <1>3, <2>1, <2>2
<1>4. CASE s \notin Holding
  <2>1. Holders(after) = Holders(js) \ {j}
    BY <1>4 DEF Holders
  <2>2. Cardinality(Holders(js) \ {j}) =
          IF j \in Holders(js) THEN Cardinality(Holders(js)) - 1
                               ELSE Cardinality(Holders(js))
    BY <1>1, FS_RemoveElement
  <2>3. QED
    BY <1>2, <1>4, <2>1, <2>2
<1>5. QED
  BY <1>3, <1>4

(* A slot that is handed over is neither lost nor doubled.                 *)
LEMMA WakeBalanced ==
    ASSUME NEW js \in [Jobs -> States], NEW f \in Nat, Wake(js, f)
    PROVE  /\ JobsTyped'
           /\ Balance' = f + Cardinality(Holders(js))
<1>1. Cardinality(Holders(js)) \in Nat
  BY HoldersFinite
<1>2. CASE job' = js /\ free' = f
  BY <1>2 DEF JobsTyped, Balance, Holders
<1>3. ASSUME NEW j \in Jobs, f # 0, FirstInLine(js, j),
             job' = [js EXCEPT ![j] = "granted"], free' = f - 1
      PROVE  /\ JobsTyped'
             /\ Balance' = f + Cardinality(Holders(js))
  <2>1. js[j] = "queued"
    BY <1>3 DEF FirstInLine
  <2>2. /\ "queued" \notin Holding /\ "granted" \in Holding
        /\ "granted" \in States
    BY DEF Holding, InTask, States
  <2>3. /\ job' \in [Jobs -> States]
        /\ Cardinality(Holders(job')) = Cardinality(Holders(js)) + 1
    <3>1. job' \in [Jobs -> States]
      BY <1>3, <2>2
    <3>2. QED
      BY <1>3, <2>1, <2>2, <3>1, ChangeOne
  <2>4. Balance' = free' + Cardinality(Holders(job'))
    BY DEF Balance, Holders
  <2>5. QED
    BY <1>1, <1>3, <2>3, <2>4 DEF JobsTyped
<1>4. QED
  BY <1>2, <1>3 DEF Wake

(* Every step keeps the balance of slots, except the step of a task that   *)
(* was cancelled before it began, which loses one.                         *)
LEMMA SlotStep ==
    ASSUME JobsTyped, [Next]_vars
    PROVE  /\ JobsTyped'
           /\ \/ Others /\ Balance' = Balance
              \/ \E j \in Jobs : DoomedStep(j) /\ Balance' = Balance - 1
<1>1. job \in [Jobs -> States] /\ free \in Nat
  BY DEF JobsTyped
<1>2. Cardinality(Holders(job)) \in Nat
  BY HoldersFinite
<1>3. Balance' = free' + Cardinality(Holders(job'))
  BY DEF Balance, Holders
<1>4. ASSUME NEW j \in Jobs, NEW s \in States, job' = [job EXCEPT ![j] = s]
      PROVE  /\ job' \in [Jobs -> States]
             /\ (s \in Holding /\ job[j] \notin Holding) =>
                  Cardinality(Holders(job')) = Cardinality(Holders(job)) + 1
             /\ (s \notin Holding /\ job[j] \in Holding) =>
                  Cardinality(Holders(job')) = Cardinality(Holders(job)) - 1
             /\ (s \in Holding <=> job[j] \in Holding) =>
                  Cardinality(Holders(job')) = Cardinality(Holders(job))
  <2>1. job' \in [Jobs -> States]
    BY <1>1, <1>4
  <2>2. QED
    BY <1>1, <1>4, <2>1, ChangeOne
<1>5. ASSUME UNCHANGED <<job, free>>
      PROVE  JobsTyped' /\ Balance' = Balance
  BY <1>1, <1>5 DEF JobsTyped, Balance, Holders
<1>6. ASSUME NEW j \in Jobs, Submit(j)
      PROVE  JobsTyped' /\ Balance' = Balance
  <2>1. job[j] = "new" /\ job' = [job EXCEPT ![j] = "scheduled"]
        /\ free' = free - 1 /\ free > 0
    BY <1>6 DEF Submit, Unsubmitted
  <2>2. Cardinality(Holders(job')) = Cardinality(Holders(job)) + 1
        /\ job' \in [Jobs -> States]
    BY <1>2, <1>4, <2>1 DEF Holding, InTask, States
  <2>3. QED
    BY <1>1, <1>2, <1>3, <2>1, <2>2 DEF JobsTyped, Balance
<1>7. ASSUME NEW j \in Jobs, SubmitQueues(j)
      PROVE  JobsTyped' /\ Balance' = Balance
  <2>1. job[j] = "new" /\ job' = [job EXCEPT ![j] = "queued"] /\ free' = free
    BY <1>7 DEF SubmitQueues, Unsubmitted
  <2>2. Cardinality(Holders(job')) = Cardinality(Holders(job))
        /\ job' \in [Jobs -> States]
    BY <1>2, <1>4, <2>1 DEF Holding, InTask, States
  <2>3. QED
    BY <1>1, <1>3, <2>1, <2>2 DEF JobsTyped, Balance
<1>8. ASSUME NEW j \in Jobs, NEW s \in States, NEW f \in Nat,
             Wake([job EXCEPT ![j] = s], f),
             \/ f = free /\ s \in Holding /\ job[j] \in Holding
             \/ f = free + 1 /\ s \notin Holding /\ job[j] \in Holding
      PROVE  JobsTyped' /\ Balance' = Balance
  <2> DEFINE js == [job EXCEPT ![j] = s]
  <2>1. js \in [Jobs -> States]
    BY <1>1
  <2>2. /\ (s \notin Holding /\ job[j] \in Holding) =>
             Cardinality(Holders(js)) = Cardinality(Holders(job)) - 1
        /\ (s \in Holding /\ job[j] \in Holding) =>
             Cardinality(Holders(js)) = Cardinality(Holders(job))
    BY <1>1, <2>1, ChangeOne
  <2>3. JobsTyped' /\ Balance' = f + Cardinality(Holders(js))
    BY <1>8, <2>1, WakeBalanced
  <2> HIDE DEF js
  <2>4. QED
    BY <1>1, <1>2, <1>8, <2>2, <2>3 DEF Balance
<1>9. ASSUME NEW j \in Jobs, SubmitResumes(j)
      PROVE  JobsTyped' /\ Balance' = Balance
  <2>1. job[j] = "granted" /\ Wake([job EXCEPT ![j] = "scheduled"], free)
    BY <1>9 DEF SubmitResumes
  <2>2. {"granted", "scheduled"} \subseteq Holding /\ "scheduled" \in States
    BY DEF Holding, InTask, States
  <2>3. QED
    BY <1>1, <1>8, <2>1, <2>2
<1>10. ASSUME NEW j \in Jobs, SubmitWithdrawn(j)
       PROVE  JobsTyped' /\ Balance' = Balance
  <2>1. /\ "granted" \in Holding /\ "queued" \notin Holding
        /\ "withdrawn" \notin Holding /\ "withdrawn" \in States
    BY DEF Holding, InTask, States
  <2>2. CASE job[j] = "granted"
    <3>1. Wake([job EXCEPT ![j] = "withdrawn"], free + 1)
      BY <1>10, <2>2 DEF SubmitWithdrawn
    <3>2. free + 1 \in Nat
      BY <1>1
    <3>3. QED
      BY <1>1, <1>8, <2>1, <2>2, <3>1, <3>2
  <2>3. CASE job[j] = "queued"
    <3>1. job' = [job EXCEPT ![j] = "withdrawn"] /\ free' = free
      BY <1>10, <2>3 DEF SubmitWithdrawn
    <3>2. Cardinality(Holders(job')) = Cardinality(Holders(job))
          /\ job' \in [Jobs -> States]
      BY <1>2, <1>4, <2>1, <2>3, <3>1
    <3>3. QED
      BY <1>1, <1>3, <3>1, <3>2 DEF JobsTyped, Balance
  <2>4. QED
    BY <1>10, <2>2, <2>3 DEF SubmitWithdrawn
<1>11. ASSUME NEW j \in Jobs, NEW s \in InTask, job[j] \in InTask,
              job' = [job EXCEPT ![j] = s], free' = free
       PROVE  JobsTyped' /\ Balance' = Balance
  <2>1. s \in Holding /\ job[j] \in Holding /\ s \in States
    BY <1>11 DEF Holding, States
  <2>2. Cardinality(Holders(job')) = Cardinality(Holders(job))
        /\ job' \in [Jobs -> States]
    BY <1>2, <1>4, <1>11, <2>1
  <2>3. QED
    BY <1>1, <1>3, <1>11, <2>2 DEF JobsTyped, Balance
<1>12. ASSUME NEW j \in Jobs, FirstStep(j) \/ Survive(j) \/ Cancel(j)
       PROVE  JobsTyped' /\ Balance' = Balance
  <2>1. \E s \in InTask : /\ job[j] \in InTask
                          /\ job' = [job EXCEPT ![j] = s] /\ free' = free
    BY <1>12 DEF FirstStep, Survive, Cancel, InTask
  <2>2. QED
    BY <1>11, <2>1
<1>13. ASSUME NEW j \in Jobs, NEW s \in Ended, Finish(j, s)
       PROVE  JobsTyped' /\ Balance' = Balance
  <2>1. Wake([job EXCEPT ![j] = s], free + 1) /\ job[j] \in Holding
    BY <1>13 DEF Finish, Holding, InTask
  <2>2. s \notin Holding /\ s \in States /\ free + 1 \in Nat
    BY <1>1 DEF Holding, InTask, States, Ended
  <2>3. QED
    BY <1>1, <1>8, <2>1, <2>2
<1>14. ASSUME NEW j \in Jobs, DoomedStep(j)
       PROVE  JobsTyped' /\ job[j] = "doomed" /\ Balance' = Balance - 1
  <2>1. job[j] = "doomed" /\ job' = [job EXCEPT ![j] = "interrupted"]
        /\ free' = free
    BY <1>14 DEF DoomedStep
  <2>2. Cardinality(Holders(job')) = Cardinality(Holders(job)) - 1
        /\ job' \in [Jobs -> States]
    BY <1>2, <1>4, <2>1 DEF Holding, InTask, States, Ended
  <2>3. QED
    BY <1>1, <1>2, <1>3, <2>1, <2>2 DEF JobsTyped, Balance
<1>15. ASSUME DrainTimeout
       PROVE  JobsTyped' /\ Balance' = Balance
  <2>1. free' = free
        /\ job' = [j \in Jobs |-> IF j \in Unfinished(drain.snapshot)
                                  THEN "unwinding" ELSE job[j]]
        /\ Unfinished(drain.snapshot) \subseteq JobsIn({"running", "unwinding"})
    BY <1>15 DEF DrainTimeout
  <2>2. job' \in [Jobs -> States]
    BY <1>1, <2>1 DEF States, InTask
  <2>3. Holders(job') = Holders(job)
    BY <1>1, <2>1 DEF Holders, JobsIn, Holding, InTask
  <2>4. QED
    BY <1>1, <1>3, <2>1, <2>2, <2>3 DEF JobsTyped, Balance
<1>16. ASSUME \/ \E j \in Jobs : Notify(j)
              \/ DrainStart \/ DrainFinish \/ UNCHANGED vars
       PROVE  UNCHANGED <<job, free>>
  BY <1>16 DEF Notify, DrainStart, DrainFinish, vars
<1>17. CASE Others
  <2>1. JobsTyped' /\ Balance' = Balance
    BY <1>5, <1>6, <1>7, <1>9, <1>10, <1>12, <1>13, <1>15, <1>16, <1>17 DEF Others
  <2>2. QED
    BY <1>17, <2>1
<1>18. Others \/ \E j \in Jobs : DoomedStep(j)
  BY DEF Next, TaskStep, Others
<1>19. QED
  BY <1>14, <1>17, <1>18

-----------------------------------------------------------------------------
LEMMA InitialSlots == Init => JobsTyped /\ Balance = MaxConcurrent
<1>1. SUFFICES ASSUME Init
               PROVE  JobsTyped /\ Balance = MaxConcurrent
  OBVIOUS
<1>2. JobsTyped /\ free = MaxConcurrent /\ MaxConcurrent \in Nat
  BY <1>1, CapAssumption DEF Init, JobsTyped, States, CapAssumption
<1>3. Holders(job) = {}
  BY <1>1 DEF Init, Holders, Holding, InTask
<1>4. QED
  BY <1>2, <1>3, FS_EmptySet DEF Balance

(* AC-8.2: however callers queue, give up and cancel, no more than         *)
(* TASKQ_MAX_CONCURRENT tasks exist at a time.                             *)
THEOREM CapHolds == Spec => []CapRespected
<1> DEFINE Inv == JobsTyped /\ Balance <= MaxConcurrent
<1>1. Init => Inv
  BY InitialSlots, CapAssumption DEF CapAssumption
<1>2. Inv /\ [Next]_vars => Inv'
  <2>1. SUFFICES ASSUME Inv, [Next]_vars
                 PROVE  Inv'
    OBVIOUS
  <2>2. Balance \in Int
    BY <2>1, HoldersFinite DEF JobsTyped, Balance
  <2>3. QED
    BY <2>1, <2>2, SlotStep, CapAssumption DEF CapAssumption
<1>3. Inv => CapRespected
  <2>1. SUFFICES ASSUME Inv
                 PROVE  CapRespected
    OBVIOUS
  <2>2. JobsIn(InTask) \in SUBSET Holders(job)
    BY DEF JobsIn, Holders, Holding
  <2>3. Cardinality(JobsIn(InTask)) <= Cardinality(Holders(job))
        /\ Cardinality(JobsIn(InTask)) \in Nat
    BY <2>2, HoldersFinite, FS_Subset, FS_CardinalityType
  <2>4. Cardinality(Holders(job)) \in Nat
    BY HoldersFinite
  <2>5. QED
    BY <2>1, <2>3, <2>4, CapAssumption
    DEF JobsTyped, Balance, CapRespected, CapAssumption
<1>4. QED
  BY <1>1, <1>2, <1>3, PTL DEF Spec

-----------------------------------------------------------------------------
LEMMA DoomedFinite ==
    ASSUME NEW js
    PROVE  IsFiniteSet(Doomed(js)) /\ Cardinality(Doomed(js)) \in Nat
<1>1. Doomed(js) \in SUBSET Jobs
  BY DEF Doomed
<1>2. IsFiniteSet(Doomed(js))
  BY <1>1, FS_Subset, JobsAssumption DEF JobsAssumption
<1>3. QED
  BY <1>2, FS_CardinalityType

(* A hand-over dooms nobody.                                               *)
LEMMA WakeDoomsNobody ==
    ASSUME NEW js \in [Jobs -> States], NEW f, Wake(js, f)
    PROVE  Doomed(job') = Doomed(js)
<1>1. CASE job' = js
  BY <1>1
<1>2. ASSUME NEW j \in Jobs, js[j] = "queued",
             job' = [js EXCEPT ![j] = "granted"]
      PROVE  Doomed(job') = Doomed(js)
  BY <1>2 DEF Doomed
<1>3. QED
  BY <1>1, <1>2 DEF Wake, FirstInLine

(* Only a cancellation dooms a task.                                       *)
LEMMA OthersDoom ==
    ASSUME job \in [Jobs -> States], cancels \in Nat, Others
    PROVE  \/ cancels' = cancels /\ Doomed(job') = Doomed(job)
           \/ /\ cancels' = cancels + 1
              /\ \E j \in Jobs \ Doomed(job) :
                     Doomed(job') = Doomed(job) \cup {j}
<1>1. ASSUME NEW j \in Jobs, NEW s \in States, NEW f,
             s # "doomed", job[j] # "doomed",
             Wake([job EXCEPT ![j] = s], f)
      PROVE  Doomed(job') = Doomed(job)
  <2>1. [job EXCEPT ![j] = s] \in [Jobs -> States]
    BY <1>1
  <2>2. Doomed([job EXCEPT ![j] = s]) = Doomed(job)
    BY <1>1 DEF Doomed
  <2>3. QED
    BY <1>1, <2>1, <2>2, WakeDoomsNobody
<1>2. ASSUME NEW j \in Jobs, SubmitResumes(j)
      PROVE  cancels' = cancels /\ Doomed(job') = Doomed(job)
  BY <1>1, <1>2 DEF SubmitResumes, States, InTask
<1>3. ASSUME NEW j \in Jobs, SubmitWithdrawn(j)
      PROVE  cancels' = cancels /\ Doomed(job') = Doomed(job)
  <2>1. CASE job[j] = "granted"
    BY <1>1, <1>3, <2>1 DEF SubmitWithdrawn, States
  <2>2. CASE job[j] # "granted"
    BY <1>3, <2>2 DEF SubmitWithdrawn, Doomed
  <2>3. QED
    BY <2>1, <2>2
<1>4. ASSUME NEW j \in Jobs, NEW s \in Ended, Finish(j, s)
      PROVE  cancels' = cancels /\ Doomed(job') = Doomed(job)
  BY <1>1, <1>4 DEF Finish, States, Ended
<1>5. ASSUME NEW j \in Jobs,
             \/ Submit(j) \/ SubmitQueues(j) \/ FirstStep(j)
             \/ Survive(j) \/ Notify(j)
      PROVE  cancels' = cancels /\ Doomed(job') = Doomed(job)
  BY <1>5 DEF Submit, SubmitQueues, Unsubmitted, FirstStep, Survive, Notify, Doomed
<1>6. ASSUME NEW j \in Jobs, Cancel(j)
      PROVE  \/ cancels' = cancels /\ Doomed(job') = Doomed(job)
             \/ /\ cancels' = cancels + 1
                /\ j \notin Doomed(job) /\ Doomed(job') = Doomed(job) \cup {j}
  BY <1>6 DEF Cancel, Doomed
<1>7. ASSUME DrainStart \/ DrainTimeout \/ DrainFinish \/ UNCHANGED vars
      PROVE  cancels' = cancels /\ Doomed(job') = Doomed(job)
  BY <1>7 DEF DrainStart, DrainTimeout, DrainFinish, JobsIn, Unfinished, Doomed, vars
<1>8. QED
  BY <1>2, <1>3, <1>4, <1>5, <1>6, <1>7 DEF Others

(* The ledger of slots: what is missing is one slot for each task that was *)
(* cancelled before its first step and is over.                            *)
SlotLedger ==
    /\ JobsTyped /\ cancels \in Nat
    /\ Balance <= MaxConcurrent
    /\ Balance + cancels = MaxConcurrent + Cardinality(Doomed(job))

LEMMA SlotLedgerKept == Spec => []SlotLedger
<1> DEFINE Inv == SlotLedger
<1> USE DEF SlotLedger
<1>1. Init => Inv
  <2>1. SUFFICES ASSUME Init PROVE Inv
    OBVIOUS
  <2>2. Doomed(job) = {} /\ cancels = 0
    BY <2>1 DEF Init, Doomed
  <2>3. QED
    BY <2>1, <2>2, InitialSlots, FS_EmptySet, CapAssumption DEF CapAssumption
<1>2. Inv /\ [Next]_vars => Inv'
  <2>1. SUFFICES ASSUME Inv, [Next]_vars
                 PROVE  Inv'
    OBVIOUS
  <2>2. /\ Balance \in Int /\ MaxConcurrent \in Nat
        /\ IsFiniteSet(Doomed(job)) /\ Cardinality(Doomed(job)) \in Nat
    BY <2>1, HoldersFinite, DoomedFinite, CapAssumption
    DEF JobsTyped, Balance, CapAssumption
  <2>3. Cardinality(Doomed(job))' = Cardinality(Doomed(job'))
    BY DEF Doomed
  <2>4. CASE Others /\ Balance' = Balance
    <3>1. CASE cancels' = cancels /\ Doomed(job') = Doomed(job)
      BY <2>1, <2>2, <2>3, <2>4, <3>1, SlotStep
    <3>2. ASSUME NEW j \in Jobs \ Doomed(job), cancels' = cancels + 1,
                 Doomed(job') = Doomed(job) \cup {j}
          PROVE  Inv'
      <4>1. Cardinality(Doomed(job')) = Cardinality(Doomed(job)) + 1
        BY <2>2, <3>2, FS_AddElement
      <4>2. QED
        BY <2>1, <2>2, <2>3, <2>4, <3>2, <4>1, SlotStep
    <3>3. QED
      BY <2>1, <2>4, <3>1, <3>2, OthersDoom DEF JobsTyped
  <2>5. ASSUME NEW j \in Jobs, DoomedStep(j), Balance' = Balance - 1
        PROVE  Inv'
    <3>1. cancels' = cancels /\ j \in Doomed(job) /\ Doomed(job') = Doomed(job) \ {j}
      BY <2>1, <2>5 DEF DoomedStep, Doomed, JobsTyped
    <3>2. Cardinality(Doomed(job')) = Cardinality(Doomed(job)) - 1
      BY <2>2, <3>1, FS_RemoveElement
    <3>3. QED
      BY <2>1, <2>2, <2>3, <2>5, <3>1, <3>2, SlotStep
  <2>6. QED
    BY <2>1, <2>4, <2>5, SlotStep
<1>3. QED
  BY <1>1, <1>2, PTL DEF Spec

LEMMA LedgerOfJobs ==
    ASSUME SlotLedger
    PROVE  /\ free + Cardinality(JobsIn(InTask \cup {"granted"})) = Balance
           /\ Balance \in Int /\ MaxConcurrent \in Nat /\ cancels \in Nat
           /\ LostSlots = cancels - Cardinality(Doomed(job))
           /\ Cardinality(Doomed(job)) \in Nat
           /\ Balance <= MaxConcurrent
           /\ Balance + LostSlots = MaxConcurrent
<1>1. /\ JobsIn(InTask \cup {"granted"}) = Holders(job)
      /\ JobsIn({"doomed"}) = Doomed(job)
  BY DEF JobsIn, Holders, Holding, Doomed
<1>2. /\ Balance \in Int /\ MaxConcurrent \in Nat
      /\ Cardinality(Doomed(job)) \in Nat
  BY HoldersFinite, DoomedFinite, CapAssumption
  DEF SlotLedger, JobsTyped, Balance, CapAssumption
<1>3. QED
  BY <1>1, <1>2 DEF SlotLedger, Balance, LostSlots

(* A slot comes back however its task ends and whoever gives up, as long   *)
(* as no task is cancelled before its first step.                          *)
THEOREM SlotsComeBackUncancelled == Spec => []SlotsComeBack
<1>1. SlotLedger => SlotsComeBack
  BY LedgerOfJobs DEF SlotLedger, SlotsComeBack, SlotsReturned
<1>2. QED
  BY <1>1, SlotLedgerKept, PTL

(* The price of the early cancellations is exactly one slot each: from     *)
(* MaxConcurrent of them on the pool is closed for ever.                   *)
THEOREM EarlyCancelsLoseSlots ==
    Spec => [](free + Cardinality(JobsIn(InTask \cup {"granted"}))
                 = MaxConcurrent - LostSlots)
<1> DEFINE Account ==
      free + Cardinality(JobsIn(InTask \cup {"granted"})) = MaxConcurrent - LostSlots
<1>1. SlotLedger => Account
  BY LedgerOfJobs
<1>2. QED
  BY <1>1, SlotLedgerKept, PTL

-----------------------------------------------------------------------------
(* The queue of the semaphore: those that wait or were handed a slot, each *)
(* once.                                                                   *)
InLine(js, j) == js[j] \in {"queued", "granted"}
Line(js, w) ==
    /\ w \in Seq(Jobs)
    /\ \A a, b \in 1 .. Len(w) : w[a] = w[b] => a = b
    /\ \A j \in Jobs : InLine(js, j) <=> \E i \in 1 .. Len(w) : w[i] = j

NoneIdle(js, f) ==
    f > 0 /\ (\E j \in Jobs : js[j] = "queued") => \E j \in Jobs : js[j] = "granted"

LEMMA Least ==
    ASSUME NEW S \in SUBSET Nat, S # {}
    PROVE  \E m \in S : \A k \in S : m <= k
<1> DEFINE Below == {p \in Nat \X Nat : p[1] < p[2]}
<1>1. IsWellFoundedOn(Below, Nat)
  <2>1. OpToRel(<, Nat) = Below
    BY Zenon DEF OpToRel
  <2>2. QED
    BY <2>1, NatLessThanWellFounded, Zenon
<1>2. PICK m \in S : \A k \in S : ~ (<<k, m>> \in Below)
  BY <1>1, WFMin
<1>3. ASSUME NEW k \in S
      PROVE  m <= k
  <2>1. <<k, m>> \in Nat \X Nat /\ <<k, m>>[1] = k /\ <<k, m>>[2] = m
    OBVIOUS
  <2>2. ~ (k < m)
    BY <1>2, <2>1, Zenon
  <2>3. QED
    BY <2>2
<1>4. QED
  BY <1>3

(* The queue without its i-th waiter.                                      *)
LEMMA OneLess ==
    ASSUME NEW w \in Seq(Jobs), NEW i \in 1 .. Len(w), NEW rest,
           rest = SubSeq(w, 1, i - 1) \o SubSeq(w, i + 1, Len(w))
    PROVE  /\ rest \in Seq(Jobs) /\ Len(rest) = Len(w) - 1
           /\ \A k \in 1 .. Len(w) - 1 :
                  rest[k] = IF k < i THEN w[k] ELSE w[k + 1]
<1> DEFINE a == SubSeq(w, 1, i - 1)
           b == SubSeq(w, i + 1, Len(w))
<1>1. a \in Seq(Jobs) /\ Len(a) = i - 1 /\ \A k \in 1 .. i - 1 : a[k] = w[k]
  BY SubSeqProperties
<1>2. /\ b \in Seq(Jobs) /\ Len(b) = Len(w) - i
      /\ \A k \in 1 .. Len(w) - i : b[k] = w[k + i]
  BY SubSeqProperties
<1> HIDE DEF a, b
<1>3. /\ a \o b \in Seq(Jobs) /\ Len(a \o b) = Len(a) + Len(b)
      /\ \A k \in 1 .. Len(a) + Len(b) :
            (a \o b)[k] = IF k <= Len(a) THEN a[k] ELSE b[k - Len(a)]
  BY <1>1, <1>2, ConcatProperties, Zenon
<1>4. rest = a \o b
  BY DEF a, b
<1>5. PICK n \in Nat : n = Len(w) /\ i \in 1 .. n
  OBVIOUS
<1>6. Len(a) + Len(b) = n - 1
  BY <1>1, <1>2, <1>5
<1>7. ASSUME NEW k \in 1 .. n - 1
      PROVE  rest[k] = IF k < i THEN w[k] ELSE w[k + 1]
  <2>1. rest[k] = IF k <= i - 1 THEN a[k] ELSE b[k - (i - 1)]
    BY <1>1, <1>3, <1>4, <1>6
  <2>2. CASE k < i
    <3>1. k \in 1 .. i - 1 /\ k <= i - 1
      BY <1>5, <2>2
    <3>2. QED
      BY <1>1, <2>1, <2>2, <3>1
  <2>3. CASE ~ (k < i)
    <3>1. k - (i - 1) \in 1 .. n - i /\ (k - (i - 1)) + i = k + 1 /\ ~ (k <= i - 1)
      BY <1>5, <2>3
    <3>2. b[k - (i - 1)] = w[(k - (i - 1)) + i]
      BY <1>2, <1>5, <3>1
    <3>3. QED
      BY <2>1, <2>3, <3>1, <3>2
  <2>4. QED
    BY <2>2, <2>3
<1>8. QED
  BY <1>3, <1>4, <1>5, <1>6, <1>7

(* Whoever leaves the queue no longer waits; nobody else moves.            *)
LEMMA LeaveLine ==
    ASSUME Line(job, waiters), NEW j \in Jobs, Dequeue(j),
           NEW js, ~InLine(js, j),
           \A k \in Jobs \ {j} : InLine(js, k) <=> InLine(job, k)
    PROVE  Line(js, waiters')
<1>1. PICK i \in 1 .. Len(waiters) :
        /\ waiters[i] = j
        /\ waiters' = SubSeq(waiters, 1, i - 1)
                        \o SubSeq(waiters, i + 1, Len(waiters))
  <2>1. DOMAIN waiters = 1 .. Len(waiters)
    BY DEF Line
  <2>2. QED
    BY <2>1, Zenon DEF Dequeue
<1>2. PICK n \in Nat :
      /\ n = Len(waiters) /\ waiters \in Seq(Jobs) /\ i \in 1 .. n
      /\ \A a, b \in 1 .. n : waiters[a] = waiters[b] => a = b
      /\ \A k \in Jobs : InLine(job, k) <=> \E a \in 1 .. n : waiters[a] = k
  BY DEF Line
<1>3. /\ waiters' \in Seq(Jobs) /\ Len(waiters') = n - 1
      /\ \A k \in 1 .. n - 1 :
            waiters'[k] = IF k < i THEN waiters[k] ELSE waiters[k + 1]
  <2>1. /\ waiters' \in Seq(Jobs) /\ Len(waiters') = Len(waiters) - 1
        /\ \A k \in 1 .. Len(waiters) - 1 :
              waiters'[k] = IF k < i THEN waiters[k] ELSE waiters[k + 1]
    <3> DEFINE rest == waiters'
    <3>1. waiters \in Seq(Jobs) /\ i \in 1 .. Len(waiters)
      BY <1>2
    <3>2. rest = SubSeq(waiters, 1, i - 1) \o SubSeq(waiters, i + 1, Len(waiters))
      BY <1>1
    <3> HIDE DEF rest
    <3>3. /\ rest \in Seq(Jobs) /\ Len(rest) = Len(waiters) - 1
          /\ \A k \in 1 .. Len(waiters) - 1 :
                rest[k] = IF k < i THEN waiters[k] ELSE waiters[k + 1]
      BY <3>1, <3>2, OneLess
    <3>4. QED
      BY <3>3 DEF rest
  <2>2. QED
    BY <1>2, <2>1
<1> DEFINE old(k) == IF k < i THEN k ELSE k + 1
           new(a) == IF a < i THEN a ELSE a - 1
<1>4. /\ \A k \in 1 .. n - 1 : /\ old(k) \in 1 .. n /\ old(k) # i
                                /\ waiters'[k] = waiters[old(k)]
      /\ \A k, l \in 1 .. n - 1 : old(k) = old(l) => k = l
  BY <1>2, <1>3
<1>5. \A a \in 1 .. n : a # i => new(a) \in 1 .. n - 1 /\ old(new(a)) = a
  BY <1>2
<1> HIDE DEF old, new
<1>6. \A k, l \in 1 .. n - 1 : waiters'[k] = waiters'[l] => k = l
  BY <1>2, <1>4
<1>7. ASSUME NEW k \in Jobs
      PROVE  InLine(js, k) <=> \E a \in 1 .. n - 1 : waiters'[a] = k
  <2>1. CASE k = j
    <3>1. ASSUME NEW a \in 1 .. n - 1, waiters'[a] = j
          PROVE  FALSE
      <4>1. old(a) \in 1 .. n /\ old(a) # i /\ waiters[old(a)] = j
        BY <1>4, <3>1
      <4>2. QED
        BY <1>1, <1>2, <4>1
    <3>2. QED
      BY <2>1, <3>1
  <2>2. CASE k # j
    <3>1. ASSUME NEW a \in 1 .. n, waiters[a] = k
          PROVE  waiters'[new(a)] = k /\ new(a) \in 1 .. n - 1
      <4>1. a # i
        BY <1>1, <2>2, <3>1
      <4>2. new(a) \in 1 .. n - 1 /\ old(new(a)) = a
        BY <1>5, <4>1
      <4>3. QED
        BY <1>4, <3>1, <4>2
    <3>2. ASSUME NEW a \in 1 .. n - 1, waiters'[a] = k
          PROVE  waiters[old(a)] = k /\ old(a) \in 1 .. n
      BY <1>4, <3>2
    <3>3. QED
      BY <1>2, <2>2, <3>1, <3>2
  <2>3. QED
    BY <2>1, <2>2
<1>8. QED
  BY <1>3, <1>6, <1>7 DEF Line

(* A hand-over leaves the queue as it is, and no slot idle.                *)
LEMMA WakeServes ==
    ASSUME NEW js \in [Jobs -> States], NEW f \in Nat, Wake(js, f),
           waiters \in Seq(Jobs),
           \A j \in Jobs : js[j] = "queued" =>
               \E i \in 1 .. Len(waiters) : waiters[i] = j
    PROVE  /\ \A k \in Jobs : InLine(job', k) <=> InLine(js, k)
           /\ NoneIdle(job', free')
<1>1. CASE (f = 0 \/ \A j \in Jobs : ~FirstInLine(js, j)) /\ job' = js /\ free' = f
  <2>1. ASSUME NEW j \in Jobs, js[j] = "queued"
        PROVE  \E k \in Jobs : FirstInLine(js, k)
    <3> DEFINE S == {i \in 1 .. Len(waiters) : js[waiters[i]] = "queued"}
    <3>1. S \in SUBSET Nat /\ S # {}
      BY <2>1
    <3>2. PICK m \in S : \A k \in S : m <= k
      BY <3>1, Least
    <3>3. /\ m \in 1 .. Len(waiters) /\ js[waiters[m]] = "queued"
          /\ waiters[m] \in Jobs
      BY <3>2
    <3>4. \A k \in 1 .. (m - 1) : js[waiters[k]] # "queued"
      BY <3>2, <3>3
    <3>5. FirstInLine(js, waiters[m])
      BY <3>3, <3>4 DEF FirstInLine
    <3>6. QED
      BY <3>3, <3>5
  <2>2. QED
    BY <1>1, <2>1 DEF NoneIdle
<1>2. ASSUME NEW j \in Jobs, FirstInLine(js, j),
             job' = [js EXCEPT ![j] = "granted"]
      PROVE  /\ \A k \in Jobs : InLine(job', k) <=> InLine(js, k)
             /\ NoneIdle(job', free')
  BY <1>2 DEF FirstInLine, InLine, NoneIdle
<1>3. QED
  BY <1>1, <1>2 DEF Wake
LEMMA QueueStep ==
    ASSUME JobsTyped, Line(job, waiters), NoneIdle(job, free), [Next]_vars
    PROVE  Line(job', waiters') /\ NoneIdle(job', free')
<1>1. /\ job \in [Jobs -> States] /\ free \in Nat /\ waiters \in Seq(Jobs)
      /\ \A j \in Jobs : job[j] = "queued" =>
            \E i \in 1 .. Len(waiters) : waiters[i] = j
  BY DEF JobsTyped, Line, InLine
<1>2. ASSUME \A k \in Jobs : job'[k] = job[k] \/ (~InLine(job, k) /\ ~InLine(job', k)),
             waiters' = waiters, free' = free
      PROVE  Line(job', waiters') /\ NoneIdle(job', free')
  <2>1. \A k \in Jobs : InLine(job', k) <=> InLine(job, k)
    BY <1>2 DEF InLine
  <2>2. Line(job', waiters')
    BY <1>2, <2>1 DEF Line
  <2>3. \A k \in Jobs : /\ job'[k] = "queued" <=> job[k] = "queued"
                        /\ job'[k] = "granted" <=> job[k] = "granted"
    BY <1>2 DEF InLine
  <2>4. QED
    BY <1>2, <2>2, <2>3 DEF NoneIdle
<1>3. ASSUME NEW j \in Jobs, Submit(j)
      PROVE  Line(job', waiters') /\ NoneIdle(job', free')
  <2>1. /\ job[j] = "new" /\ job' = [job EXCEPT ![j] = "scheduled"]
        /\ waiters = <<>> /\ waiters' = waiters
    BY <1>3 DEF Submit, Unsubmitted
  <2>2. \A k \in Jobs : ~InLine(job, k)
    BY <2>1 DEF Line
  <2>3. \A k \in Jobs : ~InLine(job', k)
    BY <1>1, <2>1, <2>2 DEF InLine
  <2>4. QED
    BY <2>1, <2>2, <2>3 DEF Line, NoneIdle, InLine
<1>4. ASSUME NEW j \in Jobs, SubmitQueues(j)
      PROVE  Line(job', waiters') /\ NoneIdle(job', free')
  <2>1. /\ job[j] = "new" /\ job' = [job EXCEPT ![j] = "queued"]
        /\ waiters' = Append(waiters, j) /\ free' = free
        /\ free = 0 \/ waiters # <<>>
    BY <1>4 DEF SubmitQueues, Unsubmitted
  <2>2. PICK n \in Nat :
          /\ n = Len(waiters)
          /\ waiters' \in Seq(Jobs) /\ Len(waiters') = n + 1
          /\ \A i \in 1 .. n : waiters'[i] = waiters[i] /\ waiters[i] \in Jobs
          /\ waiters'[n + 1] = j
    BY <1>1, <2>1, AppendProperties
  <2>3. ~InLine(job, j)
    BY <2>1 DEF InLine
  <2>4. \A i \in 1 .. n : waiters[i] # j
    BY <2>2, <2>3 DEF Line
  <2>5. \A k \in Jobs : InLine(job', k) <=> InLine(job, k) \/ k = j
    BY <1>1, <2>1 DEF InLine
  <2>6. Line(job', waiters')
    <3>1. \A a, b \in 1 .. n : waiters[a] = waiters[b] => a = b
      BY <2>2 DEF Line
    <3>2. \A a, b \in 1 .. n + 1 : waiters'[a] = waiters'[b] => a = b
      <4>1. ASSUME NEW a \in 1 .. n + 1, NEW b \in 1 .. n + 1, waiters'[a] = waiters'[b]
            PROVE  a = b
        <5>1. (a \in 1 .. n \/ a = n + 1) /\ (b \in 1 .. n \/ b = n + 1)
          OBVIOUS
        <5>2. QED
          BY <2>2, <2>4, <3>1, <4>1, <5>1
      <4>2. QED
        BY <4>1
    <3>3. ASSUME NEW k \in Jobs
          PROVE  InLine(job', k) <=> \E i \in 1 .. n + 1 : waiters'[i] = k
      <4>1. InLine(job, k) <=> \E i \in 1 .. n : waiters[i] = k
        BY <2>2 DEF Line
      <4>2. \A i \in 1 .. n + 1 : i \in 1 .. n \/ i = n + 1
        OBVIOUS
      <4>3. n + 1 \in 1 .. n + 1 /\ \A i \in 1 .. n : i \in 1 .. n + 1
        OBVIOUS
      <4>4. QED
        BY <2>2, <2>5, <4>1, <4>2, <4>3
    <3>4. QED
      BY <2>2, <3>2, <3>3 DEF Line
  <2>7. NoneIdle(job', free')
    <3>1. SUFFICES ASSUME free > 0
                   PROVE  \E k \in Jobs : job'[k] = "granted"
      BY <2>1 DEF NoneIdle
    <3>2. n # 0
      BY <1>1, <2>1, <2>2, <3>1, EmptySeq
    <3>3. waiters[1] \in Jobs /\ InLine(job, waiters[1])
      BY <2>2, <3>2 DEF Line
    <3>4. \E k \in Jobs : job[k] = "granted"
      BY <3>1, <3>3 DEF NoneIdle, InLine
    <3>5. QED
      BY <1>1, <2>1, <3>4
  <2>8. QED
    BY <2>6, <2>7
<1>5. ASSUME NEW j \in Jobs, NEW s \in States, NEW f \in Nat,
             s \notin {"queued", "granted"}, Wake([job EXCEPT ![j] = s], f)
      PROVE  /\ ~InLine(job', j)
             /\ \A k \in Jobs \ {j} : InLine(job', k) <=> InLine(job, k)
             /\ NoneIdle(job', free')
  <2> DEFINE js == [job EXCEPT ![j] = s]
  <2>1. /\ js \in [Jobs -> States] /\ js[j] = s
        /\ \A k \in Jobs \ {j} : js[k] = job[k]
    BY <1>1
  <2>2. Wake(js, f)
    BY <1>5
  <2> HIDE DEF js
  <2>3. \A k \in Jobs : js[k] = "queued" =>
          \E i \in 1 .. Len(waiters) : waiters[i] = k
    BY <1>1, <1>5, <2>1
  <2>4. /\ \A k \in Jobs : InLine(job', k) <=> InLine(js, k)
        /\ NoneIdle(job', free')
    BY <1>1, <2>1, <2>2, <2>3, WakeServes
  <2>5. ~InLine(js, j) /\ \A k \in Jobs \ {j} : InLine(js, k) <=> InLine(job, k)
    BY <1>5, <2>1 DEF InLine
  <2>6. QED
    BY <2>4, <2>5
<1>6. ASSUME NEW j \in Jobs, SubmitResumes(j)
      PROVE  Line(job', waiters') /\ NoneIdle(job', free')
  <2>1. Dequeue(j) /\ Wake([job EXCEPT ![j] = "scheduled"], free)
    BY <1>6 DEF SubmitResumes
  <2>2. "scheduled" \in States /\ "scheduled" \notin {"queued", "granted"}
    BY DEF States, InTask
  <2>3. /\ ~InLine(job', j) /\ NoneIdle(job', free')
        /\ \A k \in Jobs \ {j} : InLine(job', k) <=> InLine(job, k)
    BY <1>1, <1>5, <2>1, <2>2
  <2>4. QED
    BY <2>1, <2>3, LeaveLine
<1>7. ASSUME NEW j \in Jobs, SubmitWithdrawn(j)
      PROVE  Line(job', waiters') /\ NoneIdle(job', free')
  <2>1. Dequeue(j)
    BY <1>7 DEF SubmitWithdrawn
  <2>2. CASE job[j] = "granted"
    <3>1. Wake([job EXCEPT ![j] = "withdrawn"], free + 1) /\ free + 1 \in Nat
      BY <1>1, <1>7, <2>2 DEF SubmitWithdrawn
    <3>2. "withdrawn" \in States /\ "withdrawn" \notin {"queued", "granted"}
      BY DEF States
    <3>3. /\ ~InLine(job', j) /\ NoneIdle(job', free')
          /\ \A k \in Jobs \ {j} : InLine(job', k) <=> InLine(job, k)
      BY <1>5, <3>1, <3>2
    <3>4. QED
      BY <2>1, <3>3, LeaveLine
  <2>3. CASE job[j] = "queued"
    <3>1. job' = [job EXCEPT ![j] = "withdrawn"] /\ free' = free
      BY <1>7, <2>3 DEF SubmitWithdrawn
    <3>2. /\ ~InLine(job', j)
          /\ \A k \in Jobs \ {j} : InLine(job', k) <=> InLine(job, k)
      BY <1>1, <3>1 DEF InLine
    <3>3. NoneIdle(job', free')
      BY <1>1, <2>3, <3>1 DEF NoneIdle
    <3>4. QED
      BY <2>1, <3>2, <3>3, LeaveLine
  <2>4. QED
    BY <1>7, <2>2, <2>3 DEF SubmitWithdrawn
<1>8. ASSUME NEW j \in Jobs, NEW s \in Ended, Finish(j, s)
      PROVE  Line(job', waiters') /\ NoneIdle(job', free')
  <2>1. /\ Wake([job EXCEPT ![j] = s], free + 1) /\ free + 1 \in Nat
        /\ waiters' = waiters /\ ~InLine(job, j)
    BY <1>1, <1>8 DEF Finish, InLine
  <2>2. s \in States /\ s \notin {"queued", "granted"}
    BY DEF States, Ended
  <2>3. /\ ~InLine(job', j) /\ NoneIdle(job', free')
        /\ \A k \in Jobs \ {j} : InLine(job', k) <=> InLine(job, k)
    BY <1>5, <2>1, <2>2
  <2>4. QED
    BY <2>1, <2>3 DEF Line
<1>9. ASSUME NEW j \in Jobs,
             FirstStep(j) \/ DoomedStep(j) \/ Survive(j) \/ Cancel(j)
      PROVE  Line(job', waiters') /\ NoneIdle(job', free')
  <2>1. /\ waiters' = waiters /\ free' = free
        /\ \E s \in States \ {"queued", "granted"} : job' = [job EXCEPT ![j] = s]
        /\ ~InLine(job, j)
    BY <1>9 DEF FirstStep, DoomedStep, Survive, Cancel, States, InTask, Ended, InLine
  <2>2. QED
    BY <1>1, <1>2, <2>1 DEF InLine
<1>10. ASSUME DrainTimeout
       PROVE  Line(job', waiters') /\ NoneIdle(job', free')
  BY <1>1, <1>2, <1>10 DEF DrainTimeout, JobsIn, InLine
<1>11. ASSUME \/ \E j \in Jobs : Notify(j)
              \/ DrainStart \/ DrainFinish \/ UNCHANGED vars
       PROVE  Line(job', waiters') /\ NoneIdle(job', free')
  BY <1>2, <1>11 DEF Notify, DrainStart, DrainFinish, vars
<1>12. QED
  BY <1>3, <1>4, <1>6, <1>7, <1>8, <1>9, <1>10, <1>11 DEF Next, TaskStep

LEMMA InitialLine == Init => Line(job, waiters) /\ NoneIdle(job, free)
BY DEF Init, Line, NoneIdle, InLine

(* Nobody queues beside a free slot, unless one that was handed a slot is  *)
(* about to resume.                                                        *)
THEOREM NoSlotLiesIdle == Spec => []NoIdleSlot
<1> DEFINE Inv == JobsTyped /\ Line(job, waiters) /\ NoneIdle(job, free)
<1>1. Init => Inv
  BY InitialSlots, InitialLine
<1>2. Inv /\ [Next]_vars => Inv'
  BY SlotStep, QueueStep
<1>3. Inv => NoIdleSlot
  BY DEF NoIdleSlot, NoneIdle, JobsIn, JobsTyped
<1>4. QED
  BY <1>1, <1>2, <1>3, PTL DEF Spec
-----------------------------------------------------------------------------
Stamps == {"none", "pending"} \cup Ended
Drains == [pc : {"idle", "waiting", "cancelling"}, snapshot : SUBSET Jobs]

HandlesTyped ==
    /\ handles \subseteq Jobs /\ stamp \in [Jobs -> Stamps] /\ drain \in Drains
    /\ report \in [of : SUBSET Jobs, drained : Nat, interrupted : Nat]
    /\ cancels \in 0 .. MaxEarlyCancels /\ drains \in 0 .. MaxDrains

(* A handle that says how its task ended says so of a task that ended, and *)
(* so the same for good.                                                   *)
StampsTrue == \A j \in Jobs : stamp[j] \in Ended => stamp[j] = job[j]

(* A task that has ended stays as it is.                                   *)
LEMMA EndedStay ==
    ASSUME JobsTyped, [Next]_vars
    PROVE  \A k \in Jobs : job[k] \in Ended => job'[k] = job[k]
<1>1. job \in [Jobs -> States]
  BY DEF JobsTyped
<1>2. ASSUME NEW j \in Jobs, NEW s, NEW f, job[j] \notin Ended,
             Wake([job EXCEPT ![j] = s], f)
      PROVE  \A k \in Jobs : job[k] \in Ended => job'[k] = job[k]
  <2>1. \/ job' = [job EXCEPT ![j] = s]
        \/ \E i \in Jobs : /\ [job EXCEPT ![j] = s][i] = "queued"
                           /\ job' = [[job EXCEPT ![j] = s] EXCEPT ![i] = "granted"]
    BY <1>2 DEF Wake, FirstInLine
  <2>2. QED
    BY <1>1, <1>2, <2>1 DEF Ended
<1>3. ASSUME NEW j \in Jobs, NEW s, job[j] \notin Ended, job' = [job EXCEPT ![j] = s]
      PROVE  \A k \in Jobs : job[k] \in Ended => job'[k] = job[k]
  BY <1>1, <1>3
<1>4. ASSUME NEW j \in Jobs, SubmitResumes(j)
      PROVE  \A k \in Jobs : job[k] \in Ended => job'[k] = job[k]
  BY <1>2, <1>4 DEF SubmitResumes, Ended
<1>5. ASSUME NEW j \in Jobs, SubmitWithdrawn(j)
      PROVE  \A k \in Jobs : job[k] \in Ended => job'[k] = job[k]
  BY <1>2, <1>3, <1>5 DEF SubmitWithdrawn, Ended
<1>6. ASSUME NEW j \in Jobs, NEW s \in Ended, Finish(j, s)
      PROVE  \A k \in Jobs : job[k] \in Ended => job'[k] = job[k]
  BY <1>2, <1>6 DEF Finish, Ended
<1>7. ASSUME NEW j \in Jobs,
             \/ Submit(j) \/ SubmitQueues(j) \/ FirstStep(j) \/ DoomedStep(j)
             \/ Survive(j) \/ Cancel(j)
      PROVE  \A k \in Jobs : job[k] \in Ended => job'[k] = job[k]
  <2>1. job[j] \notin Ended /\ \E s : job' = [job EXCEPT ![j] = s]
    BY <1>7 DEF Submit, SubmitQueues, Unsubmitted, FirstStep, DoomedStep, Survive,
                Cancel, Ended
  <2>2. QED
    BY <1>3, <2>1
<1>8. ASSUME DrainTimeout
      PROVE  \A k \in Jobs : job[k] \in Ended => job'[k] = job[k]
  BY <1>8 DEF DrainTimeout, Unfinished
<1>9. ASSUME \/ \E j \in Jobs : Notify(j)
             \/ DrainStart \/ DrainFinish \/ UNCHANGED vars
      PROVE  \A k \in Jobs : job[k] \in Ended => job'[k] = job[k]
  BY <1>9 DEF Notify, DrainStart, DrainFinish, vars
<1>10. QED
  BY <1>4, <1>5, <1>6, <1>7, <1>8, <1>9 DEF Next, TaskStep

(* What a step does to the handles and to the report.                      *)
LEMMA HandleMoves ==
    ASSUME HandlesTyped, [Next]_vars
    PROVE  \/ /\ UNCHANGED <<stamp, report>>
           \/ \E j \in Jobs : /\ job[j] \notin Ended /\ stamp' = [stamp EXCEPT ![j] = "pending"]
                              /\ UNCHANGED report
           \/ \E j \in Jobs : /\ job[j] \in Ended /\ stamp' = [stamp EXCEPT ![j] = job[j]]
                              /\ UNCHANGED <<job, report>>
           \/ report' = Report({}, 0, 0) /\ UNCHANGED <<job, stamp>>
           \/ DrainFinish
<1>1. ASSUME NEW j \in Jobs, Submit(j) \/ SubmitResumes(j)
      PROVE  /\ job[j] \notin Ended /\ stamp' = [stamp EXCEPT ![j] = "pending"]
             /\ UNCHANGED report
  BY <1>1 DEF Submit, Unsubmitted, SubmitResumes, Register, Ended
<1>2. ASSUME NEW j \in Jobs,
             \/ SubmitQueues(j) \/ SubmitWithdrawn(j) \/ TaskStep(j)
             \/ Survive(j) \/ Cancel(j)
      PROVE  UNCHANGED <<stamp, report>>
  BY <1>2 DEF SubmitQueues, SubmitWithdrawn, TaskStep, FirstStep, DoomedStep, Finish,
              Survive, Cancel
<1>3. ASSUME NEW j \in Jobs, Notify(j)
      PROVE  /\ job[j] \in Ended /\ stamp' = [stamp EXCEPT ![j] = job[j]]
             /\ UNCHANGED <<job, report>>
  BY <1>3 DEF Notify
<1>4. ASSUME DrainStart
      PROVE  \/ UNCHANGED <<stamp, report>>
             \/ report' = Report({}, 0, 0) /\ UNCHANGED <<job, stamp>>
  BY <1>4 DEF DrainStart
<1>5. ASSUME DrainTimeout \/ UNCHANGED vars
      PROVE  UNCHANGED <<stamp, report>>
  BY <1>5 DEF DrainTimeout, vars
<1>6. QED
  BY <1>1, <1>2, <1>3, <1>4, <1>5 DEF Next

LEMMA HandlesStep ==
    ASSUME JobsTyped, HandlesTyped, [Next]_vars
    PROVE  HandlesTyped'
<1>1. /\ Report({}, 0, 0) \in [of : SUBSET Jobs, drained : Nat, interrupted : Nat]
      /\ \A S \in SUBSET Jobs :
            Tally(S) \in [of : SUBSET Jobs, drained : Nat, interrupted : Nat]
  <2>1. ASSUME NEW S \in SUBSET Jobs, NEW T \in SUBSET Ended
        PROVE  Cardinality(S \cap JobsIn(T)) \in Nat
    <3>1. S \cap JobsIn(T) \in SUBSET Jobs
      OBVIOUS
    <3>2. QED
      BY <3>1, FS_Subset, FS_CardinalityType, JobsAssumption DEF JobsAssumption
  <2>2. {"done"} \in SUBSET Ended /\ {"interrupted"} \in SUBSET Ended
    BY DEF Ended
  <2>3. QED
    BY <2>1, <2>2 DEF Tally, Report
<1>2. report' \in [of : SUBSET Jobs, drained : Nat, interrupted : Nat]
  <2>1. CASE DrainFinish
    BY <1>1, <2>1 DEF DrainFinish, HandlesTyped, Drains
  <2>2. CASE ~DrainFinish
    BY <1>1, <2>2, HandleMoves DEF HandlesTyped
  <2>3. QED
    BY <2>1, <2>2
<1>3. stamp' \in [Jobs -> Stamps]
  <2>1. CASE DrainFinish
    BY <2>1 DEF DrainFinish, Unfinished, HandlesTyped, Stamps, Drains
  <2>2. CASE ~DrainFinish
    BY <2>2, HandleMoves DEF HandlesTyped, Stamps
  <2>3. QED
    BY <2>1, <2>2
<1>4. handles' \subseteq Jobs
  <2>1. handles' \subseteq handles \/ \E j \in Jobs : handles' = handles \cup {j}
    BY DEF Next, Submit, SubmitQueues, SubmitResumes, SubmitWithdrawn, TaskStep,
           FirstStep, DoomedStep, Finish, Survive, Notify, Cancel, Register,
           DrainStart, DrainTimeout, DrainFinish, vars
  <2>2. QED
    BY <2>1 DEF HandlesTyped
<1>5. drain' \in Drains /\ drains' \in 0 .. MaxDrains
  <2>1. CASE DrainStart
    <3>1. drains' = drains + 1 /\ drains < MaxDrains
      BY <2>1 DEF DrainStart
    <3>2. drain' = drain \/ drain' = [pc |-> "waiting", snapshot |-> Unfinished(handles)]
      BY <2>1 DEF DrainStart
    <3>3. Unfinished(handles) \subseteq Jobs
      BY DEF Unfinished, HandlesTyped
    <3>4. QED
      BY <3>1, <3>2, <3>3, BoundAssumption DEF HandlesTyped, Drains, BoundAssumption
  <2>2. CASE DrainTimeout
    BY <2>2 DEF DrainTimeout, HandlesTyped, Drains
  <2>3. CASE DrainFinish
    BY <2>3 DEF DrainFinish, NotDraining, HandlesTyped, Drains
  <2>4. CASE \E j \in Jobs :
               \/ Submit(j) \/ SubmitQueues(j) \/ SubmitResumes(j) \/ SubmitWithdrawn(j)
               \/ TaskStep(j) \/ Survive(j) \/ Notify(j) \/ Cancel(j)
    BY <2>4
    DEF Submit, SubmitQueues, SubmitResumes, SubmitWithdrawn, TaskStep, FirstStep,
        DoomedStep, Finish, Survive, Notify, Cancel, HandlesTyped
  <2>5. CASE UNCHANGED vars
    BY <2>5 DEF vars, HandlesTyped
  <2>6. QED
    BY <2>1, <2>2, <2>3, <2>4, <2>5 DEF Next
<1>6. cancels' \in 0 .. MaxEarlyCancels
  <2>1. cancels' = cancels \/ (cancels < MaxEarlyCancels /\ cancels' = cancels + 1)
    BY DEF Next, Submit, SubmitQueues, SubmitResumes, SubmitWithdrawn, TaskStep,
           FirstStep, DoomedStep, Finish, Survive, Notify, Cancel,
           DrainStart, DrainTimeout, DrainFinish, vars
  <2>2. QED
    BY <2>1, BoundAssumption DEF HandlesTyped, BoundAssumption
<1>7. QED
  BY <1>2, <1>3, <1>4, <1>5, <1>6 DEF HandlesTyped

LEMMA TallyStep ==
    ASSUME JobsTyped, HandlesTyped, StampsTrue, TallyMatchesHandles, [Next]_vars
    PROVE  StampsTrue' /\ TallyMatchesHandles'
<1>1. /\ stamp \in [Jobs -> Stamps] /\ report.of \subseteq Jobs
      /\ \A k \in Jobs : stamp[k] \in Ended => stamp[k] = job[k]
      /\ \A k \in Jobs : job[k] \in Ended => job'[k] = job[k]
      /\ \A k \in report.of : stamp[k] \in Ended
  BY EndedStay DEF HandlesTyped, StampsTrue, TallyMatchesHandles
<1>2. ASSUME \A k \in Jobs : stamp'[k] \in Ended =>
                 stamp'[k] = stamp[k] \/ (stamp'[k] = job[k] /\ job[k] \in Ended)
      PROVE  StampsTrue'
  BY <1>1, <1>2 DEF StampsTrue
<1>3. ASSUME report' = report, \A k \in report.of : stamp'[k] = stamp[k]
      PROVE  TallyMatchesHandles'
  <2>1. \A s : {k \in report.of : stamp'[k] = s} = {k \in report.of : stamp[k] = s}
    BY <1>3
  <2>2. QED
    BY <1>1, <1>3, <2>1 DEF TallyMatchesHandles
<1>4. ASSUME UNCHANGED <<stamp, report>>
      PROVE  StampsTrue' /\ TallyMatchesHandles'
  BY <1>2, <1>3, <1>4
<1>5. ASSUME NEW j \in Jobs, UNCHANGED report,
             job[j] \notin Ended /\ stamp' = [stamp EXCEPT ![j] = "pending"]
      PROVE  StampsTrue' /\ TallyMatchesHandles'
  <2>1. j \notin report.of
    BY <1>1, <1>5
  <2>2. \A k \in Jobs : k # j => stamp'[k] = stamp[k]
    BY <1>1, <1>5
  <2>3. stamp'[j] = "pending" /\ "pending" \notin Ended
    BY <1>1, <1>5 DEF Ended
  <2>4. QED
    BY <1>1, <1>2, <1>3, <1>5, <2>1, <2>2, <2>3
<1>6. ASSUME NEW j \in Jobs, UNCHANGED <<job, report>>,
             job[j] \in Ended /\ stamp' = [stamp EXCEPT ![j] = job[j]]
      PROVE  StampsTrue' /\ TallyMatchesHandles'
  <2>1. \A k \in Jobs : stamp'[k] = IF k = j THEN job[j] ELSE stamp[k]
    BY <1>1, <1>6
  <2>2. \A k \in report.of : stamp'[k] = stamp[k]
    BY <1>1, <2>1
  <2>3. QED
    BY <1>2, <1>3, <1>6, <2>1, <2>2
<1>7. ASSUME report' = Report({}, 0, 0), UNCHANGED <<job, stamp>>
      PROVE  StampsTrue' /\ TallyMatchesHandles'
  <2>1. report'.of = {} /\ report'.drained = 0 /\ report'.interrupted = 0
    BY <1>7 DEF Report
  <2>2. \A s : {k \in report'.of : stamp'[k] = s} = {}
    BY <2>1
  <2>3. QED
    BY <1>2, <1>7, <2>1, <2>2, FS_EmptySet DEF TallyMatchesHandles
<1>8. ASSUME DrainFinish
      PROVE  StampsTrue' /\ TallyMatchesHandles'
  <2> DEFINE S == drain.snapshot
  <2>1. /\ S \subseteq Jobs /\ \A k \in S : job[k] \in Ended
        /\ job' = job /\ report' = Tally(S)
        /\ stamp' = [k \in Jobs |-> IF k \in S THEN job[k] ELSE stamp[k]]
    BY <1>8 DEF DrainFinish, Unfinished, HandlesTyped, Drains
  <2> HIDE DEF S
  <2>2. report'.of = S /\ report'.drained = Cardinality(S \cap JobsIn({"done"}))
        /\ report'.interrupted = Cardinality(S \cap JobsIn({"interrupted"}))
    BY <2>1 DEF Tally, Report
  <2>3. \A s : {k \in S : stamp'[k] = s} = S \cap JobsIn({s})
    BY <2>1 DEF JobsIn
  <2>4. \A k \in S : stamp'[k] \in Ended
    BY <2>1
  <2>5. TallyMatchesHandles'
    BY <2>2, <2>3, <2>4 DEF TallyMatchesHandles
  <2>6. StampsTrue'
    BY <1>2, <2>1
  <2>7. QED
    BY <2>5, <2>6
<1>9. QED
  BY <1>4, <1>5, <1>6, <1>7, <1>8, HandleMoves

LEMMA InitialHandles ==
    Init => HandlesTyped /\ StampsTrue /\ TallyMatchesHandles
<1>1. SUFFICES ASSUME Init
               PROVE  HandlesTyped /\ StampsTrue /\ TallyMatchesHandles
  OBVIOUS
<1>2. report.of = {} /\ report.drained = 0 /\ report.interrupted = 0
  BY <1>1 DEF Init, Report
<1>3. TallyMatchesHandles
  <2>1. \A s : {j \in report.of : stamp[j] = s} = {}
    BY <1>2
  <2>2. QED
    BY <1>2, <2>1, FS_EmptySet DEF TallyMatchesHandles
<1>4. HandlesTyped
  BY <1>1, BoundAssumption
  DEF Init, HandlesTyped, Stamps, Drains, NotDraining, Report, BoundAssumption
<1>5. StampsTrue
  BY <1>1 DEF Init, StampsTrue, Ended
<1>6. QED
  BY <1>3, <1>4, <1>5

(* The counts that drain() returned agree, from then on, with what the     *)
(* handles say, whichever of the two learned of an end first.              *)
THEOREM TallyAgrees == Spec => []TallyMatchesHandles
<1> DEFINE Inv == JobsTyped /\ HandlesTyped /\ StampsTrue /\ TallyMatchesHandles
<1>1. Init => Inv
  BY InitialSlots, InitialHandles
<1>2. Inv /\ [Next]_vars => Inv'
  BY SlotStep, HandlesStep, TallyStep
<1>3. QED
  BY <1>1, <1>2, PTL DEF Spec

(* The variables keep their types; in particular no more slots are ever    *)
(* free than there are.                                                    *)
THEOREM ExecutorTyped == Spec => []TypeOK
<1> DEFINE Inv == /\ JobsTyped /\ HandlesTyped /\ Balance <= MaxConcurrent
                  /\ Line(job, waiters) /\ NoneIdle(job, free)
<1>1. Init => Inv
  BY InitialSlots, InitialHandles, InitialLine, CapAssumption DEF CapAssumption
<1>2. Inv /\ [Next]_vars => Inv'
  <2>1. SUFFICES ASSUME Inv, [Next]_vars
                 PROVE  Inv'
    OBVIOUS
  <2>2. Balance \in Int
    BY <2>1, HoldersFinite DEF JobsTyped, Balance
  <2>3. (Balance <= MaxConcurrent)'
    BY <2>1, <2>2, SlotStep, CapAssumption DEF CapAssumption
  <2>4. QED
    BY <2>1, <2>3, SlotStep, HandlesStep, QueueStep
<1>3. Inv => TypeOK
  <2>1. SUFFICES ASSUME Inv
                 PROVE  TypeOK
    OBVIOUS
  <2>2. free \in 0 .. MaxConcurrent
    BY <2>1, HoldersFinite, CapAssumption DEF JobsTyped, Balance, CapAssumption
  <2>3. QED
    BY <2>1, <2>2 DEF TypeOK, JobsTyped, States, HandlesTyped, Stamps, Drains, Line
<1>4. QED
  BY <1>1, <1>2, <1>3, PTL DEF Spec
=============================================================================
