----------------------------- MODULE MCTaskRuns -----------------------------
(* Instances of TaskRuns for TLC.                                          *)
EXTENDS TaskRunsProperties, TLC

CONSTANTS w1, w2, t1, t2, t3, r1, r2, r3, n1, n2

Symmetry == Permutations(TaskIds) \cup Permutations(RunIds)
              \cup Permutations(Names)
SymmetryOfTwoWorkers == Symmetry \cup Permutations(Workers)
=============================================================================
