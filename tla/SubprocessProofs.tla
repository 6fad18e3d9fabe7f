-------------------------- MODULE SubprocessProofs --------------------------
(***************************************************************************)
(* For any number of cancellations: the child of a coroutine that ended    *)
(* does not run on, and a coroutine that returned tells what happened.     *)
(***************************************************************************)
EXTENDS Subprocess, TLAPS

(* What is known of the child follows its life, one step at a time.        *)
ChildInv ==
    /\ child = "none" <=> co = "starting" \/ (co = "raised" /\ ~expired)
    /\ child = "none" => heir = "none" /\ ~wired
    /\ child \in {"none", "running"} <=> code = "none"
    /\ caught = "none" <=> child # "reaped"
    /\ caught \in {"none", code, "lost"}
    /\ child # "none" /\ ~wired => known # "none"

(* Where the coroutine is tells what was done to the child.                *)
PlaceInv ==
    /\ co \in {"draining", "reaping", "returned", "cancelled"} => child # "running"
    /\ co \in {"starting", "talking"} => ~expired
    /\ co \in {"expiring", "draining"} => expired
    /\ co \in {"stopping", "reaping", "cancelled"} => cancels > 0
    /\ co \in {"talking", "returned"} /\ ~expired => code # "killed" /\ caught # "lost"
    /\ co = "returned" => child = "reaped" /\ known # "none"
    /\ co = "raised" /\ expired => child = "reaped"
    /\ co = "cancelled" /\ cancels <= 1 => child = "reaped"

Inv == TypeOK /\ ChildInv /\ PlaceInv /\ OutcomeIsTrue

LEMMA InvStep == Inv /\ [Next]_vars => Inv'
<1> SUFFICES ASSUME Inv, [Next]_vars PROVE Inv'
  OBVIOUS
<1> USE BoundAssumption DEF Inv, TypeOK, ChildInv, PlaceInv, OutcomeIsTrue,
        BoundAssumption, Ended, Codes, process
<1>1. ASSUME NEW c \in {"zero", "nonzero"}, Exit(c) PROVE Inv'
  BY <1>1 DEF Exit
<1>2. CASE Fork \/ HeirEnds
  BY <1>2 DEF Fork, HeirEnds
<1>3. CASE Reap
  BY <1>3 DEF Reap
<1>4. CASE Notice
  BY <1>4 DEF Notice
<1>5. CASE Close
  <2>1. /\ ~wired' /\ known # "none" /\ child \in {"zombie", "reaped"}
        /\ UNCHANGED <<co, child, code, heir, caught, known, expired, result, cancels>>
    BY <1>5 DEF Close, PipesClosed
  <2>2. wired' \in BOOLEAN
    BY <1>5, Zenon DEF Close
  <2>3. QED
    BY <2>1, <2>2
<1>6. CASE Spawn \/ SpawnFails
  <2>1. CASE Spawn
    BY <2>1 DEF Spawn
  <2>2. CASE SpawnFails
    BY <2>2 DEF SpawnFails
  <2>3. QED
    BY <1>6, <2>1, <2>2
<1>7. CASE InTime \/ CancelTooLate
  <2>1. /\ ~expired /\ co' = "returned" /\ child = "reaped" /\ known # "none"
        /\ known = code /\ code \in {"zero", "nonzero"}
        /\ result' = IF code # "zero" THEN "failed" ELSE "done"
        /\ UNCHANGED <<child, code, heir, caught, known, wired, expired>>
        /\ cancels' \in 0..MaxCancels
    BY <1>7 DEF InTime, CancelTooLate, Return, Complete, PipesClosed, _classify_exit
  <2>2. QED
    BY <2>1
<1>8. CASE Drained
  BY <1>8 DEF Drained, Return, Complete, PipesClosed, _classify_exit
<1>9. CASE Expire
  BY <1>9 DEF Expire
<1>10. CASE KillExpired
  BY <1>10 DEF KillExpired, Kill
<1>11. CASE KillTooLate
  BY <1>11 DEF KillTooLate
<1>12. CASE Cancel \/ CancelReap
  BY <1>12 DEF Cancel, CancelReap
<1>13. CASE Finally
  BY <1>13 DEF Finally, Kill
<1>14. CASE Reaped
  BY <1>14 DEF Reaped
<1>15. CASE UNCHANGED vars
  BY <1>15 DEF vars
<1>16. QED
  BY <1>1, <1>2, <1>3, <1>4, <1>5, <1>6, <1>7, <1>8, <1>9, <1>10, <1>11,
     <1>12, <1>13, <1>14, <1>15 DEF Next, Command, System, Coroutine

LEMMA InvHolds == Spec => []Inv
<1>1. Init => Inv
  <2>1. Init => TypeOK
    <3>1. Init => wired \in BOOLEAN /\ expired \in BOOLEAN
      BY Zenon DEF Init
    <3>2. QED
      BY <3>1, BoundAssumption DEF Init, TypeOK, BoundAssumption, Ended, Codes
  <2>2. Init => ChildInv
    BY DEF Init, ChildInv
  <2>3. Init => PlaceInv /\ OutcomeIsTrue
    BY DEF Init, PlaceInv, OutcomeIsTrue
  <2>4. QED
    BY <2>1, <2>2, <2>3 DEF Inv
<1>2. QED
  BY <1>1, InvStep, PTL DEF Spec

(* Types of the run.                                                       *)
THEOREM SubprocessTyped == Spec => []TypeOK
<1>1. Inv => TypeOK
  BY DEF Inv
<1>2. QED
  BY <1>1, InvHolds, PTL

(* AC-8.3 and T-07: wherever cancellations and the limit meet the          *)
(* coroutine, it does not end before its child.                            *)
THEOREM ChildrenAreReaped == Spec => []NoOrphan
<1>1. Inv => NoOrphan
  BY DEF Inv, TypeOK, ChildInv, PlaceInv, NoOrphan, Ended
<1>2. QED
  BY <1>1, InvHolds, PTL

(* AC-2.3: a coroutine that returned reports what became of its command.   *)
THEOREM OutcomesAreTrue == Spec => []OutcomeIsTrue
<1>1. Inv => OutcomeIsTrue
  BY DEF Inv
<1>2. QED
  BY <1>1, InvHolds, PTL
=============================================================================
