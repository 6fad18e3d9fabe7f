------------------------------ MODULE Executor ------------------------------
(***************************************************************************)
(* The FR-08 executor of service/runner.py: submit() behind a semaphore of *)
(* TASKQ_MAX_CONCURRENT slots, the handles it returns, their cancellation, *)
(* and drain().  Everything runs on one asyncio event loop: an action is   *)
(* what runs between two awaits, or one scheduled callback.                *)
(*                                                                         *)
(* A job is the coroutine of one call of submit():                         *)
(*   new        not submitted yet                                          *)
(*   queued     its submit() waits for a slot                              *)
(*   granted    its submit() was handed a slot and has not resumed         *)
(*   withdrawn  the caller of submit() was cancelled in the wait           *)
(*   scheduled  its task exists and has not taken its first step           *)
(*   doomed     cancelled before that first step                           *)
(*   running    awaits the coroutine, inside the try of _runner            *)
(*   unwinding  cancelled there; the coroutine decides what comes of it    *)
(*   done, failed, interrupted: the task has ended, as _classify_state     *)
(*              names it                                                   *)
(***************************************************************************)
EXTENDS Integers, FiniteSets, Sequences

CONSTANTS
    Jobs,               \* the coroutines, numbered as they are submitted
    MaxConcurrent,      \* TASKQ_MAX_CONCURRENT
    MaxEarlyCancels,    \* bound: cancellations before the first step
    MaxDrains           \* bound: calls of drain() (the lifespan makes one)

ASSUME JobsAssumption == IsFiniteSet(Jobs) /\ Jobs \subseteq Nat
ASSUME CapAssumption == MaxConcurrent \in Nat \ {0}
ASSUME BoundAssumption == MaxEarlyCancels \in Nat /\ MaxDrains \in Nat

VARIABLES
    job,        \* state of every job
    waiters,    \* the semaphore's queue, granted waiters included
    free,       \* the semaphore's value
    handles,    \* _handles
    stamp,      \* status of every handle, "none" before there is one
    drain,      \* the drain() in progress
    report,     \* what the last drain() to return has tallied
    cancels,    \* cancellations before the first step, so far
    drains      \* calls of drain() so far

vars == <<job, waiters, free, handles, stamp, drain, report, cancels, drains>>

Ended == {"done", "failed", "interrupted"}
InTask == {"scheduled", "doomed", "running", "unwinding"}
JobsIn(S) == {j \in Jobs : job[j] \in S}

NotDraining == [pc |-> "idle", snapshot |-> {}]
Report(of, drained, interrupted) ==
    [of |-> of, drained |-> drained, interrupted |-> interrupted]

Init ==
    /\ job = [j \in Jobs |-> "new"]
    /\ waiters = <<>>
    /\ free = MaxConcurrent
    /\ handles = {}
    /\ stamp = [j \in Jobs |-> "none"]
    /\ drain = NotDraining
    /\ report = Report({}, 0, 0)
    /\ cancels = 0
    /\ drains = 0

-----------------------------------------------------------------------------
(* asyncio.Semaphore.  With f > 0 slots and the jobs in state js, the      *)
(* first waiter that was not served yet is handed a slot; the faulty       *)
(* variant keeps it.                                                       *)
FirstInLine(js, j) ==
    \E i \in DOMAIN waiters :
        /\ waiters[i] = j /\ js[j] = "queued"
        /\ \A k \in 1..(i - 1) : js[waiters[k]] # "queued"

WakeNobody(js, f) == job' = js /\ free' = f
Wake(js, f) ==
    \/ /\ f = 0 \/ \A j \in Jobs : ~FirstInLine(js, j)
       /\ job' = js /\ free' = f
    \/ \E j \in Jobs :
         /\ f # 0 /\ FirstInLine(js, j)
         /\ job' = [js EXCEPT ![j] = "granted"]
         /\ free' = f - 1

Dequeue(j) ==
    \E i \in DOMAIN waiters :
        /\ waiters[i] = j
        /\ waiters' = SubSeq(waiters, 1, i - 1)
                        \o SubSeq(waiters, i + 1, Len(waiters))

(* The part of submit() behind the acquire: task, handle, callback.        *)
Register(j) ==
    /\ handles' = handles \cup {j}
    /\ stamp' = [stamp EXCEPT ![j] = "pending"]

Unsubmitted(j) == job[j] = "new" /\ \A k \in Jobs : k < j => job[k] # "new"

(* submit() in one go: there is a free slot and nobody waits.              *)
SubmitUncapped(j) ==                        \* faulty variant: no semaphore
    /\ Unsubmitted(j)
    /\ job' = [job EXCEPT ![j] = "scheduled"]
    /\ free' = IF free > 0 THEN free - 1 ELSE 0
    /\ Register(j)
    /\ UNCHANGED <<waiters, drain, report, cancels, drains>>
Submit(j) ==
    /\ Unsubmitted(j)
    /\ free > 0 /\ waiters = <<>>
    /\ job' = [job EXCEPT ![j] = "scheduled"]
    /\ free' = free - 1
    /\ Register(j)
    /\ UNCHANGED <<waiters, drain, report, cancels, drains>>

SubmitQueues(j) ==
    /\ Unsubmitted(j)
    /\ free = 0 \/ waiters # <<>>
    /\ job' = [job EXCEPT ![j] = "queued"]
    /\ waiters' = Append(waiters, j)
    /\ UNCHANGED <<free, handles, stamp, drain, report, cancels, drains>>

(* submit() resumes with its slot, and passes on what else is free.        *)
SubmitResumes(j) ==
    /\ job[j] = "granted"
    /\ Dequeue(j)
    /\ Wake([job EXCEPT ![j] = "scheduled"], free)
    /\ Register(j)
    /\ UNCHANGED <<drain, report, cancels, drains>>

(* The caller of submit() is cancelled: acquire() gives its slot back.     *)
SubmitWithdrawnKeeps(j) ==                  \* faulty variant: the slot goes too
    /\ job[j] \in {"queued", "granted"}
    /\ Dequeue(j)
    /\ job' = [job EXCEPT ![j] = "withdrawn"]
    /\ UNCHANGED <<free, handles, stamp, drain, report, cancels, drains>>
SubmitWithdrawn(j) ==
    /\ job[j] \in {"queued", "granted"}
    /\ Dequeue(j)
    /\ LET gone == [job EXCEPT ![j] = "withdrawn"]
       IN  IF job[j] = "granted" THEN Wake(gone, free + 1)
                                 ELSE job' = gone /\ UNCHANGED free
    /\ UNCHANGED <<handles, stamp, drain, report, cancels, drains>>

-----------------------------------------------------------------------------
(* The task.                                                               *)

FirstStep(j) ==
    /\ job[j] = "scheduled"
    /\ job' = [job EXCEPT ![j] = "running"]
    /\ UNCHANGED <<waiters, free, handles, stamp, drain, report, cancels, drains>>

(* CancelledError is raised at the first line of _runner, outside its try: *)
(* the finally does not run.                                               *)
DoomedStep(j) ==
    /\ job[j] = "doomed"
    /\ job' = [job EXCEPT ![j] = "interrupted"]
    /\ UNCHANGED <<waiters, free, handles, stamp, drain, report, cancels, drains>>

(* The coroutine ends and the finally of _runner releases the slot.  After *)
(* a cancellation it may end in any way.                                   *)
Finish(j, s) ==
    /\ \/ job[j] = "running" /\ s \in {"done", "failed"}
       \/ job[j] = "unwinding" /\ s \in Ended
    /\ Wake([job EXCEPT ![j] = s], free + 1)
    /\ UNCHANGED <<waiters, handles, stamp, drain, report, cancels, drains>>

(* The coroutine catches the CancelledError and goes on.                   *)
Survive(j) ==
    /\ job[j] = "unwinding"
    /\ job' = [job EXCEPT ![j] = "running"]
    /\ UNCHANGED <<waiters, free, handles, stamp, drain, report, cancels, drains>>

(* The done callbacks: _on_done and the discard of the handle.             *)
Notify(j) ==
    /\ j \in handles /\ job[j] \in Ended
    /\ stamp' = [stamp EXCEPT ![j] = job[j]]
    /\ handles' = handles \ {j}
    /\ UNCHANGED <<job, waiters, free, drain, report, cancels, drains>>

(* _TaskHandle.cancel(), by whoever holds the handle.                      *)
Cancel(j) ==
    /\ \/ /\ job[j] = "scheduled"
          /\ cancels < MaxEarlyCancels
          /\ cancels' = cancels + 1
          /\ job' = [job EXCEPT ![j] = "doomed"]
       \/ /\ job[j] = "running"
          /\ job' = [job EXCEPT ![j] = "unwinding"]
          /\ UNCHANGED cancels
    /\ UNCHANGED <<waiters, free, handles, stamp, drain, report, drains>>

-----------------------------------------------------------------------------
(* drain().                                                                *)

Unfinished(S) == {j \in S : job[j] \notin Ended}

DrainStart ==
    /\ drain.pc = "idle" /\ drains < MaxDrains
    /\ drains' = drains + 1
    /\ IF Unfinished(handles) = {}
       THEN report' = Report({}, 0, 0) /\ UNCHANGED drain
       ELSE /\ drain' = [pc |-> "waiting", snapshot |-> Unfinished(handles)]
            /\ UNCHANGED report
    /\ UNCHANGED <<job, waiters, free, handles, stamp, cancels>>

(* asyncio.wait times out, and the tasks still pending are cancelled.  All *)
(* of them were created before the timer, so they took their first step.   *)
DrainTimeout ==
    /\ drain.pc = "waiting"
    /\ Unfinished(drain.snapshot) # {}
    /\ Unfinished(drain.snapshot) \subseteq JobsIn({"running", "unwinding"})
    /\ job' = [j \in Jobs |-> IF j \in Unfinished(drain.snapshot)
                              THEN "unwinding" ELSE job[j]]
    /\ drain' = [drain EXCEPT !.pc = "cancelling"]
    /\ UNCHANGED <<waiters, free, handles, stamp, report, cancels, drains>>

(* _tally_pending over the snapshot, once all its tasks have ended.        *)
Tally(S) == Report(S, Cardinality(S \cap JobsIn({"done"})),
                      Cardinality(S \cap JobsIn({"interrupted"})))

(* Faulty variants: the tally is taken without awaiting the unwinding; the *)
(* CancelledError of an awaited task ends the drain.                       *)
DrainTalliesEarly ==
    /\ drain.pc = "cancelling" \/ Unfinished(drain.snapshot) = {}
    /\ drain.pc # "idle"
    /\ report' = Tally(drain.snapshot)
    /\ stamp' = [j \in Jobs |->
                   IF j \in drain.snapshot THEN job[j] ELSE stamp[j]]
    /\ drain' = NotDraining
    /\ UNCHANGED <<job, waiters, free, handles, cancels, drains>>
DrainReraises ==
    /\ drain.pc # "idle"
    /\ drain.snapshot \cap JobsIn({"interrupted"}) = {}
    /\ Unfinished(drain.snapshot) = {}
    /\ report' = Tally(drain.snapshot)
    /\ stamp' = [j \in Jobs |->
                   IF j \in drain.snapshot THEN job[j] ELSE stamp[j]]
    /\ drain' = NotDraining
    /\ UNCHANGED <<job, waiters, free, handles, cancels, drains>>
DrainFinish ==
    /\ drain.pc # "idle"
    /\ Unfinished(drain.snapshot) = {}
    /\ report' = Tally(drain.snapshot)
    /\ stamp' = [j \in Jobs |->
                   IF j \in drain.snapshot THEN job[j] ELSE stamp[j]]
    /\ drain' = NotDraining
    /\ UNCHANGED <<job, waiters, free, handles, cancels, drains>>

-----------------------------------------------------------------------------
TaskStep(j) ==
    \/ FirstStep(j) \/ DoomedStep(j)
    \/ \E s \in Ended : Finish(j, s)

Next ==
    \/ \E j \in Jobs :
         \/ Submit(j) \/ SubmitQueues(j) \/ SubmitResumes(j) \/ SubmitWithdrawn(j)
         \/ TaskStep(j) \/ Survive(j) \/ Notify(j) \/ Cancel(j)
    \/ DrainStart \/ DrainTimeout \/ DrainFinish

Spec == Init /\ [][Next]_vars

(* The event loop runs what is ready and its timers; a coroutine ends some *)
(* time, which is its author's part (run_subprocess has a time limit).     *)
LoopStep ==
    \/ \E j \in Jobs : SubmitResumes(j) \/ TaskStep(j) \/ Notify(j)
    \/ DrainTimeout \/ DrainFinish

FairSpec == Spec /\ WF_vars(LoopStep)

-----------------------------------------------------------------------------
(* The values the variables hold.                                          *)
TypeOK ==
    /\ job \in [Jobs -> {"new", "queued", "granted", "withdrawn"}
                          \cup InTask \cup Ended]
    /\ waiters \in Seq(Jobs)
    /\ free \in 0..MaxConcurrent
    /\ handles \subseteq Jobs
    /\ stamp \in [Jobs -> {"none", "pending"} \cup Ended]
    /\ drain \in [pc : {"idle", "waiting", "cancelling"},
                 snapshot : SUBSET Jobs]
    /\ report \in [of : SUBSET Jobs, drained : Nat, interrupted : Nat]
    /\ cancels \in 0..MaxEarlyCancels
    /\ drains \in 0..MaxDrains

(* AC-8.2: no more tasks exist at a time than TASKQ_MAX_CONCURRENT, with   *)
(* slots handed over, callers that give up and cancellations.              *)
CapRespected == Cardinality(JobsIn(InTask)) <= MaxConcurrent

(* submit releases the slot in a finally of the task, so that cancellation *)
(* propagates cleanly: every slot is free, handed to a waiter, or held by  *)
(* a task.  The code does not keep this (see LostSlots).                   *)
SlotsReturned ==
    free + Cardinality(JobsIn(InTask \cup {"granted"})) = MaxConcurrent

(* A task cancelled before its first step never enters the try of _runner, *)
(* and its slot is gone once that step is over.                            *)
LostSlots == cancels - Cardinality(JobsIn({"doomed"}))

(* That is the only way: as long as nobody is cancelled that early, every  *)
(* slot comes back from tasks that end, fail, unwind or survive a cancel,  *)
(* and from callers that give up with a slot in their hands.               *)
SlotsComeBack == cancels = 0 => SlotsReturned

(* No slot lies idle while a caller queues for one, unless a waiter that   *)
(* was handed a slot is about to resume and pass the next one on.          *)
NoIdleSlot ==
    free > 0 /\ JobsIn({"queued"}) # {} => JobsIn({"granted"}) # {}

(* _classify_state is shared so that the tally never drifts from the       *)
(* handles: what drain() has returned still agrees with the status of      *)
(* every handle it was about, whichever callbacks run before or after.     *)
TallyMatchesHandles ==
    /\ \A j \in report.of : stamp[j] \in Ended
    /\ report.drained = Cardinality({j \in report.of : stamp[j] = "done"})
    /\ report.interrupted =
         Cardinality({j \in report.of : stamp[j] = "interrupted"})

(* A drain returns, also when the tasks it cancels take their time.        *)
DrainEnds == drain.pc # "idle" ~> drain.pc = "idle"

(* A caller that queues for a slot gets it, if it does not give up, and as *)
(* long as early cancellations have left the pool a slot at all.           *)
QueuedAreAdmitted ==
    \A j \in Jobs :
        job[j] = "queued" ~> (job[j] # "queued" \/ LostSlots >= MaxConcurrent)
=============================================================================
