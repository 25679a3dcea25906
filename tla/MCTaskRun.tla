------------------------------ MODULE MCTaskRun ------------------------------
(* Instances of TaskRun for TLC.                                            *)
EXTENDS TaskRun, TLC

PlanApply == <<"plan", "apply">>
ScanPlanApply == <<"scan", "plan", "apply">>
ScanPlanDestroy == <<"scan", "plan", "destroy">>

(* The sessions are interchangeable; sound for the runs that check safety.  *)
SessionSymmetry == Permutations(Sessions)

(* The copies of a call that is over are read by nobody: states that differ *)
(* in them alone are the same.  Used by the run with the most states.       *)
LiveState ==
    <<dbVars, runVars, pc, workVars, histVars, bounds,
      [p \in Procs |-> IF pc[p] = "over" THEN <<>> ELSE <<mem[p]>>]>>
=============================================================================
