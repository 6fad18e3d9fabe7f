----------------------------- MODULE Subprocess -----------------------------
(***************************************************************************)
(* One command executed by run_subprocess (service/runner.py): the child   *)
(* process, the coroutine that talks to it under a time limit, and whoever *)
(* cancels that coroutine -- run_with_timeout at its own limit, or drain.  *)
(*                                                                         *)
(* What asyncio and the kernel do in between is external: a thread waits   *)
(* for the child and tells the loop, the transport of the process closes   *)
(* once the exit is known and nobody holds the pipes, and a process the    *)
(* child started may hold them longer than the child.  It is what CPython  *)
(* 3.11 does, where kill() asks for the exit itself before it signals.     *)
(*                                                                         *)
(*   starting    before create_subprocess_exec                             *)
(*   talking     in wait_for(proc.communicate(), limit)                    *)
(*   expiring    the limit has fired; communicate is being cancelled       *)
(*   draining    killed; in the second communicate                         *)
(*   stopping    cancelled from outside; on the way to the finally         *)
(*   reaping     in the proc.wait() of the finally                         *)
(*   returned, raised, cancelled: how the coroutine ended                  *)
(***************************************************************************)
EXTENDS Naturals

CONSTANTS MaxCancels            \* bound: cancellations that are delivered
ASSUME BoundAssumption == MaxCancels \in Nat

VARIABLES
    co,         \* where the coroutine is
    child,      \* "none", "running", "zombie" (nobody waited yet), "reaped"
    code,       \* how it ended: "none", "zero", "nonzero", "killed"
    heir,       \* who else holds its pipes: "none", "alive", "gone"
    caught,     \* what the waiting thread learned: "none", a code, "lost"
    known,      \* proc.returncode: "none" or what was caught
    wired,      \* the transport still knows its process
    expired,    \* the limit fired before communicate was complete
    result,     \* state of the run: "none", "done", "failed", "timeout"
    cancels

vars == <<co, child, code, heir, caught, known, wired, expired, result, cancels>>
process == <<child, code, heir, caught, known, wired>>

Ended == {"returned", "raised", "cancelled"}

Init ==
    /\ co = "starting"
    /\ child = "none" /\ code = "none" /\ heir = "none"
    /\ caught = "none" /\ known = "none" /\ wired = FALSE
    /\ expired = FALSE /\ result = "none" /\ cancels = 0

-----------------------------------------------------------------------------
(* The command and the system.                                             *)

Exit(c) ==
    /\ child = "running"
    /\ child' = "zombie" /\ code' = c
    /\ UNCHANGED <<co, heir, caught, known, wired, expired, result, cancels>>

Fork ==
    /\ child = "running" /\ heir = "none"
    /\ heir' = "alive"
    /\ UNCHANGED <<co, child, code, caught, known, wired, expired, result, cancels>>

HeirEnds ==
    /\ heir = "alive"
    /\ heir' = "gone"
    /\ UNCHANGED <<co, child, code, caught, known, wired, expired, result, cancels>>

(* The watcher thread gets the exit status, and its callback the loop.     *)
Reap ==
    /\ child = "zombie"
    /\ child' = "reaped" /\ caught' = code
    /\ UNCHANGED <<co, code, heir, known, wired, expired, result, cancels>>

Notice ==
    /\ caught # "none" /\ known = "none"
    /\ known' = caught
    /\ UNCHANGED <<co, child, code, heir, caught, wired, expired, result, cancels>>

PipesClosed == child \in {"zombie", "reaped"} /\ heir # "alive"

(* connection_lost: the transport lets go, and wait() returns.             *)
Close ==
    /\ wired /\ known # "none" /\ PipesClosed
    /\ wired' = FALSE
    /\ UNCHANGED <<co, child, code, heir, caught, known, expired, result, cancels>>

(* Popen.kill: a zombie is waited for here, and its status is lost to the  *)
(* thread; a process that is gone is left alone.                           *)
Kill ==
    \/ /\ child = "running"
       /\ child' = "zombie" /\ code' = "killed"
       /\ UNCHANGED <<heir, caught, known, wired>>
    \/ /\ child = "zombie"
       /\ child' = "reaped" /\ caught' = "lost"
       /\ UNCHANGED <<code, heir, known, wired>>
    \/ child = "reaped" /\ UNCHANGED process

-----------------------------------------------------------------------------
(* The coroutine.                                                          *)

Spawn ==
    /\ co = "starting"
    /\ co' = "talking" /\ child' = "running" /\ wired' = TRUE
    /\ UNCHANGED <<code, heir, caught, known, expired, result, cancels>>

(* _failed_outcome: no such binary, or a command that cannot be split.     *)
SpawnFails ==
    /\ co = "starting"
    /\ co' = "raised" /\ result' = "failed"
    /\ UNCHANGED <<process, expired, cancels>>

(* communicate returns once the output has ended and the exit is known.    *)
Complete == PipesClosed /\ known # "none"

ClassifyByExit(timed_out, returncode) ==    \* faulty variant: the limit forgotten
    IF returncode # "zero" THEN "failed" ELSE "done"
_classify_exit(timed_out, returncode) ==
    IF timed_out THEN "timeout" ELSE IF returncode # "zero" THEN "failed" ELSE "done"

Return(timed_out) ==
    /\ Complete
    /\ co' = "returned"
    /\ result' = _classify_exit(timed_out, known)
    /\ UNCHANGED <<process, expired>>

InTime == co = "talking" /\ Return(FALSE) /\ UNCHANGED cancels

(* wait_for finds communicate done already and drops the cancellation.     *)
CancelTooLate ==
    /\ co = "talking" /\ cancels < MaxCancels
    /\ cancels' = cancels + 1
    /\ Return(FALSE)

(* The limit fires and communicate, perhaps about to return, is cancelled. *)
Expire ==
    /\ co = "talking"
    /\ co' = "expiring" /\ expired' = TRUE
    /\ UNCHANGED <<process, result, cancels>>

ExpireOnly ==                               \* faulty variant: nothing is killed
    /\ co = "expiring" /\ wired
    /\ co' = "draining"
    /\ UNCHANGED <<process, expired, result, cancels>>
(* except TimeoutError: proc.kill() ...                                    *)
KillExpired ==
    /\ co = "expiring" /\ wired
    /\ Kill
    /\ co' = "draining"
    /\ UNCHANGED <<expired, result, cancels>>

(* ... which raises ProcessLookupError when the transport let go already;  *)
(* _drive_run records the run as failed.                                   *)
KillTooLate ==
    /\ co = "expiring" /\ ~wired
    /\ co' = "raised" /\ result' = "failed"
    /\ UNCHANGED <<process, expired, cancels>>

Drained == co = "draining" /\ Return(TRUE) /\ UNCHANGED cancels

Cancel ==
    /\ co \in {"talking", "expiring", "draining", "stopping"}
    /\ cancels < MaxCancels
    /\ co' = "stopping" /\ cancels' = cancels + 1
    /\ UNCHANGED <<process, expired, result>>

CancelReap ==
    /\ co = "reaping" /\ cancels < MaxCancels
    /\ co' = "cancelled" /\ cancels' = cancels + 1
    /\ UNCHANGED <<process, expired, result>>

(* The finally, behind a cancellation.                                     *)
FinallyNothing ==                           \* faulty variant: no finally (T-07)
    /\ co = "stopping"
    /\ co' = "cancelled"
    /\ UNCHANGED <<process, expired, result, cancels>>
Finally ==
    /\ co = "stopping"
    /\ \/ known = "none" /\ Kill /\ co' = "reaping"
       \/ known # "none" /\ UNCHANGED process /\ co' = "cancelled"
    /\ UNCHANGED <<expired, result, cancels>>

Reaped ==
    /\ co = "reaping" /\ ~wired
    /\ co' = "cancelled"
    /\ UNCHANGED <<process, expired, result, cancels>>

-----------------------------------------------------------------------------
Command == (\E c \in {"zero", "nonzero"} : Exit(c)) \/ Fork \/ HeirEnds
System == Reap \/ Notice \/ Close
Coroutine ==
    \/ Spawn \/ SpawnFails \/ InTime \/ Expire \/ KillExpired \/ KillTooLate
    \/ Drained \/ Finally \/ Reaped

Next == Command \/ System \/ Coroutine \/ CancelTooLate \/ Cancel \/ CancelReap

Spec == Init /\ [][Next]_vars

(* The loop runs what is ready, its timer included; the command need not   *)
(* end, nor the processes it leaves behind.                                *)
FairSpec == Spec /\ WF_vars(System) /\ WF_vars(Coroutine)

-----------------------------------------------------------------------------
Codes == {"none", "zero", "nonzero", "killed"}

(* The values of the variables.                                            *)
TypeOK ==
    /\ co \in Ended \cup {"starting", "talking", "expiring", "draining", "stopping", "reaping"}
    /\ child \in {"none", "running", "zombie", "reaped"}
    /\ code \in Codes
    /\ heir \in {"none", "alive", "gone"}
    /\ caught \in Codes \cup {"lost"} /\ known \in {"none", caught}
    /\ wired \in BOOLEAN /\ expired \in BOOLEAN
    /\ result \in {"none", "done", "failed", "timeout"}
    /\ cancels \in 0..MaxCancels

(* AC-8.3, T-07: whichever way the coroutine ends -- in time, at its       *)
(* limit, by an exception or by cancellations that meet it anywhere -- its *)
(* child does not run on, and it has been waited for, unless a second      *)
(* cancellation cut the wait of the finally short.                         *)
NoOrphan ==
    co \in Ended =>
        /\ child # "running"
        /\ (co = "cancelled" /\ cancels > 1) \/ child \in {"none", "reaped"}

(* AC-2.3: what a finished run reports is what became of its command, with *)
(* exits that race the limit: "done" and "failed" come from an exit of its *)
(* own in time, "timeout" from the limit, and a code that is not the       *)
(* command's own is reported only with a timeout.                          *)
OutcomeIsTrue ==
    co = "returned" =>
        /\ (result = "timeout") = expired
        /\ result = "done" => code = "zero"
        /\ result = "failed" => code = "nonzero"
        /\ ~expired => known = code

(* The limit bounds the run: a command that never ends does not hold the   *)
(* coroutine for ever, as long as no process it started keeps its pipes.   *)
RunEnds == <>[](heir = "alive") \/ (co = "talking" ~> co \in Ended)
=============================================================================
