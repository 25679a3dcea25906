---------------------------- MODULE DeployStatus ----------------------------
(***************************************************************************)
(* The status vocabulary that tasks, steps and environments share, and the *)
(* functions that derive one status from another.  Constant-level: every   *)
(* component module of the project extends it.                             *)
(***************************************************************************)

StepStatuses == {"pending", "approving", "rejected", "running",
                 "failed", "complete", "timeout", "aborted"}

TaskStatuses == {"pending", "running", "approving",
                 "rejected", "failed", "aborted", "complete"}

EnvStatuses == {"inactive", "active", "failed", "destroyed"}

(* Step types, reduced to those the control flow distinguishes; "other"     *)
(* stands for checkout, init, play and command.                             *)
StepTypes == {"plan", "apply", "destroy", "scan", "other"}

TaskTypes == {"plan", "apply", "destroy"}

StepStarted(status) == status \notin {"pending", "approving"}

StepExited(status) ==
    status \in {"rejected", "complete", "failed", "timeout", "aborted"}

TaskStarted(status) == status # "pending"

TaskExited(status) == status \in {"failed", "rejected", "complete", "aborted"}

(* Variants: recovery of every task ever started; of approving tasks only.  *)
StartedRecoverable(status) == status # "pending"
ApprovingRecoverable(status) == status = "approving"

(* The statuses recoverTask looks for after a restart.                      *)
TaskRecoverable(status) == status \in {"running", "approving"}

(* Only apply and destroy tasks change an environment.                      *)
IsEffectTask(type) == type \in {"apply", "destroy"}

(* The task status that a step status implies: a step returned to pending   *)
(* (by an approval or a retry) makes the task running.                      *)
StepToTask(status) ==
    CASE status \in {"pending", "running"} -> "running"
      [] status \in {"failed", "timeout"}  -> "failed"
      [] OTHER                             -> status

(* Variant: only a successful task ends the deployment of its environment.  *)
EnvAfterSuccessOnly(env, type, status, touched) ==
    IF ~IsEffectTask(type) \/ ~TaskStarted(status) THEN env
    ELSE IF status = "complete"
    THEN [status |-> IF type = "apply" THEN "active" ELSE "destroyed",
          taskStatus |-> "", deploying |-> FALSE]
    ELSE [env EXCEPT !.deploying = TRUE]

(* The environment row once a task of the given type has the given status.  *)
(* touched says whether an apply or destroy step of the task has started.   *)
EnvAfter(env, type, status, touched) ==
    IF ~IsEffectTask(type) \/ ~TaskStarted(status) THEN env
    ELSE [status |-> CASE status = "failed"                 -> "failed"
                       [] status = "aborted" /\ touched     -> "failed"
                       [] status = "complete"               ->
                            IF type = "apply" THEN "active" ELSE "destroyed"
                       [] OTHER                             -> env.status,
          taskStatus |-> IF TaskExited(status) THEN "" ELSE status,
          deploying  |-> ~TaskExited(status)]
=============================================================================
