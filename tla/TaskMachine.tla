---------------------------- MODULE TaskMachine ----------------------------
(***************************************************************************)
(* What the task service promises a client of one worker: the state        *)
(* machine of a task and the order in which a run becomes visible.  A run  *)
(* is recorded at most once, only while its task is running, and the task  *)
(* then takes the terminal status that agrees with the recorded exit code. *)
(* A deleted task stays deleted.  Nothing is promised about progress.      *)
(***************************************************************************)
CONSTANTS TaskIds

Terminal  == {"done", "failed", "timeout"}
Startable == {"pending"} \cup Terminal
Exits     == {"zero", "nonzero", "any"}

(* What a settled status says of the exit code: nothing after a timeout.   *)
ExitFor(s) == IF s = "done" THEN "zero" ELSE IF s = "failed" THEN "nonzero" ELSE "any"

VARIABLES
    phase,      \* of every task
    recorded    \* exit code the run in progress has put on record, or "none"

Present == {t \in TaskIds : phase[t] \in Startable \cup {"running"}}

Init ==
    /\ phase = [t \in TaskIds |-> "unborn"]
    /\ recorded = [t \in TaskIds |-> "none"]

(* A new task, in place of the tasks in V.                                 *)
Create(t, V) ==
    /\ phase[t] = "unborn"
    /\ phase' = [u \in TaskIds |-> IF u = t THEN "pending"
                                   ELSE IF u \in V THEN "deleted"
                                   ELSE phase[u]]
    /\ recorded' = [u \in TaskIds |-> IF u \in V THEN "none" ELSE recorded[u]]

Delete(t) ==
    /\ t \in Present
    /\ phase' = [phase EXCEPT ![t] = "deleted"]
    /\ recorded' = [recorded EXCEPT ![t] = "none"]

Start(t) ==
    /\ phase[t] \in Startable
    /\ phase' = [phase EXCEPT ![t] = "running"]
    /\ UNCHANGED recorded

Record(t, e) ==
    /\ phase[t] = "running"
    /\ recorded[t] = "none"
    /\ recorded' = [recorded EXCEPT ![t] = e]
    /\ UNCHANGED phase

Settle(t, s) ==
    /\ phase[t] = "running"
    /\ recorded[t] = ExitFor(s)
    /\ phase' = [phase EXCEPT ![t] = s]
    /\ recorded' = [recorded EXCEPT ![t] = "none"]

(* The runs of the tasks in T are lost before they settled.                *)
Abandon(T) ==
    /\ recorded' = [t \in TaskIds |-> IF t \in T THEN "none" ELSE recorded[t]]
    /\ UNCHANGED phase

Next ==
    \/ \E t \in TaskIds : \E V \in SUBSET Present : Create(t, V)
    \/ \E t \in TaskIds :
         \/ Delete(t) \/ Start(t)
         \/ \E e \in Exits : Record(t, e)
         \/ \E s \in Terminal : Settle(t, s)
    \/ \E T \in SUBSET TaskIds : Abandon(T)

Spec == Init /\ [][Next]_<<phase, recorded>>
=============================================================================
