------------------------------- MODULE TaskRun -------------------------------
(***************************************************************************)
(* One deployment task: the goroutine of the task manager that runs it     *)
(* (doRunTask ... processTaskDone), the API calls that approve, reject and *)
(* abort it, and the crash and recovery of the portal.  All of them work   *)
(* on the same rows of the database, through copies they read earlier and  *)
(* with one write per statement, and none of them takes a lock.            *)
(*                                                                         *)
(* The procedure ChangeTaskStepStatus -> ChangeTaskStatusWithStep ->       *)
(* ChangeEnvStatusWithTaskAndStep that every process calls is three        *)
(* separate writes: ChangeStep, then WriteTask, then WriteEnv.             *)
(***************************************************************************)
EXTENDS DeployStatus, Naturals, Sequences

CONSTANTS
    Flow,            \* the step types of the task, in order
    TaskType,        \* plan, apply or destroy
    AutoApprove,     \* task.AutoApprove: no step waits for approval
    StopOnViolation, \* task.StopOnViolation: a failed scan stops the task
    RetryAble,       \* task.RetryAble
    RetryNumber,     \* retries allowed to a step
    Worker,          \* the goroutine that runs the task
    Sessions,        \* API requests; each makes one call
    Calls,           \* the calls they may make
    MaxCrashes,      \* bound: crashes of the portal
    MaxFaults        \* bound: failed exchanges between portal and runner

ASSUME TaskRunAssumption ==
    /\ Flow \in Seq(StepTypes) /\ Len(Flow) > 0
    /\ TaskType \in TaskTypes
    /\ AutoApprove \in BOOLEAN /\ StopOnViolation \in BOOLEAN
    /\ RetryAble \in BOOLEAN /\ RetryNumber \in Nat
    /\ Worker \notin Sessions
    /\ Calls \subseteq {"approve", "reject", "abort"}
    /\ MaxCrashes \in Nat /\ MaxFaults \in Nat

Steps == 1..Len(Flow)
Procs == Sessions \cup {Worker}

(* Bound: starts are counted up to one more than a step may ever need.        *)
MaxLaunches == RetryNumber + 2

MustApproval(k) == ~AutoApprove /\ Flow[k] \in {"apply", "destroy"}
IsTolerated(k) == Flow[k] = "scan" /\ ~StopOnViolation

(* The columns of the rows that the control flow reads.  msg: the message   *)
(* column is not empty.  Step k of the flow is index k - 1 of the code.     *)
(* cid: the container id of the task is recorded.                           *)
TaskRow == [status : TaskStatuses, currStep : Steps, aborting : BOOLEAN,
            cid : BOOLEAN]
StepRow == [status : StepStatuses, approved : BOOLEAN, msg : BOOLEAN,
            retryNumber : 0..RetryNumber]
EnvRow  == [status : EnvStatuses, taskStatus : TaskStatuses \cup {""},
            deploying : BOOLEAN]

VARIABLES
    task, steps, env,   \* database: the task, its steps, its environment
    exec, info,         \* runner: each step's command; the file that keeps its
                        \* exit state
    control, box,       \* runner: abort mark; container
    booted,             \* the task manager has run recoverTask
    pc,                 \* where each process is
    mem,                \* the copies each process holds of the rows it read
    wSteps, retried,    \* the worker's step list and CurrentRetryCount
    reqCid,             \* the worker's request names the task's container
    crashes, faults,    \* how much of the bounds is used
    launches, done      \* history: starts of each step's command; steps that
                        \* ended well

dbVars   == <<task, steps, env>>
runVars  == <<exec, info, control, box>>
workVars == <<booted, wSteps, retried, reqCid>>
histVars == <<launches, done>>
bounds   == <<crashes, faults>>
vars == <<dbVars, runVars, pc, mem, workVars, histVars, bounds>>

WorkerLabels  == {"off", "enter", "load", "begin", "gate", "poll", "drive",
                  "call", "saveCid", "watch", "settle", "judge", "after", "last"}
SessionLabels == {"idle", "sign", "reread", "rejectRead", "grant", "refuse",
                  "abortPending", "abortApproving", "abortRunning",
                  "abortSend", "over"}
Labels == WorkerLabels \cup SessionLabels \cup {"task", "env"}

(* What a process keeps in memory: the task and the step it read, the index *)
(* it works at, and where it goes on after the shared status procedure.     *)
MemRow == [task : TaskRow, step : StepRow, k : Steps, ret : Labels]

NewTask == [status |-> "pending", currStep |-> 1, aborting |-> FALSE,
            cid |-> FALSE]
NewStep == [status |-> "pending", approved |-> FALSE, msg |-> FALSE,
            retryNumber |-> RetryNumber]

(* A task just created by doCreateTask, all its steps pending.              *)
Init ==
    /\ task = NewTask
    /\ steps = [k \in Steps |-> NewStep]
    /\ env = [status |-> IF TaskType = "destroy" THEN "active" ELSE "inactive",
              taskStatus |-> "", deploying |-> FALSE]
    /\ exec = [k \in Steps |-> "none"] /\ info = [k \in Steps |-> "none"]
    /\ control = FALSE /\ box = "none"
    /\ booted = FALSE
    /\ pc = [p \in Procs |-> IF p = Worker THEN "off" ELSE "idle"]
    /\ mem = [p \in Procs |->
                [task |-> NewTask, step |-> NewStep, k |-> 1, ret |-> "off"]]
    /\ wSteps = [k \in Steps |-> NewStep]
    /\ retried = 0 /\ reqCid = FALSE
    /\ crashes = 0 /\ faults = 0
    /\ launches = [k \in Steps |-> 0]
    /\ done = {}

Goto(p, label) == pc' = [pc EXCEPT ![p] = label]

Fault == faults < MaxFaults /\ faults' = faults + 1

-----------------------------------------------------------------------------
(* The shared status procedure.                                             *)

(* The columns of a step that a change of its status writes.                *)
Mark(row, status, msg) == [row EXCEPT !.status = status, !.msg = msg]

(* Variant: a rejected step leaves the task for later like any exited step. *)
ChangeStepRejectLater(p, status, msg, ret) ==
    IF mem[p].step.status = status /\ ~msg
    THEN Goto(p, ret) /\ UNCHANGED <<steps, mem>>
    ELSE /\ steps' = [steps EXCEPT ![mem[p].k] = Mark(@, status, msg)]
         /\ mem' = [mem EXCEPT ![p] =
                      [mem[p] EXCEPT !.step = Mark(mem[p].step, status, msg),
                                     !.ret = ret]]
         /\ Goto(p, IF StepExited(status) THEN ret ELSE "task")

(***************************************************************************)
(* ChangeTaskStepStatus: nothing when the copy already has the status and  *)
(* there is no message; otherwise the copy and the row are written.  A     *)
(* step that exits, unless rejected, leaves the task for later.            *)
(***************************************************************************)
ChangeStep(p, status, msg, ret) ==
    IF mem[p].step.status = status /\ ~msg
    THEN Goto(p, ret) /\ UNCHANGED <<steps, mem>>
    ELSE /\ steps' = [steps EXCEPT ![mem[p].k] = Mark(@, status, msg)]
         /\ mem' = [mem EXCEPT ![p] =
                      [mem[p] EXCEPT !.step = Mark(mem[p].step, status, msg),
                                     !.ret = ret]]
         /\ Goto(p, IF StepExited(status) /\ status # "rejected"
                    THEN ret ELSE "task")

(***************************************************************************)
(* The write of ChangeTaskStatus: status, and aborting cleared when the    *)
(* COPY says the task is aborting and the new status is an exited one.     *)
(***************************************************************************)
ChangeTask(p, status, ret) ==
    LET keep == ~(mem[p].task.aborting /\ TaskExited(status))
        Set(row) == [row EXCEPT !.status = status, !.aborting = keep /\ @]
    IN  /\ task' = Set(task)
        /\ mem' = [mem EXCEPT ![p] =
                      [mem[p] EXCEPT !.task = Set(mem[p].task), !.ret = ret]]
        /\ Goto(p, "env")

(* ChangeTaskStatusWithStep: skipped when the copy of the task already has  *)
(* the status and the step carries no message.                              *)
WriteTask(p) ==
    /\ pc[p] = "task"
    /\ LET status == StepToTask(mem[p].step.status)
       IN  IF mem[p].task.status = status /\ ~mem[p].step.msg
           THEN Goto(p, mem[p].ret) /\ UNCHANGED <<task, mem>>
           ELSE ChangeTask(p, status, mem[p].ret)
    /\ UNCHANGED <<steps, env, runVars, workVars, histVars, bounds>>

(* ChangeEnvStatusWithTaskAndStep, with the task copy just written.         *)
WriteEnv(p) ==
    /\ pc[p] = "env"
    /\ env' = EnvAfter(env, TaskType, mem[p].task.status,
                       \E k \in Steps : /\ Flow[k] \in {"apply", "destroy"}
                                        /\ StepStarted(steps[k].status))
    /\ Goto(p, mem[p].ret)
    /\ UNCHANGED <<task, steps, mem, runVars, workVars, histVars, bounds>>

-----------------------------------------------------------------------------
(* The task manager: dispatch, recovery, and the worker goroutine.          *)

StartWorker ==
    /\ mem' = [mem EXCEPT ![Worker].task = task]
    /\ Goto(Worker, "enter")

(* recoverTask, once per start of the manager, for running and approving    *)
(* tasks.                                                                   *)
Boot ==
    /\ ~booted
    /\ booted' = TRUE
    /\ IF TaskRecoverable(task.status)
       THEN StartWorker ELSE UNCHANGED <<mem, pc>>
    /\ UNCHANGED <<dbVars, runVars, wSteps, retried, reqCid, histVars, bounds>>

(* processPendingTask: a pending task whose environment has no goroutine.   *)
PickPending ==
    /\ booted /\ pc[Worker] = "off" /\ task.status = "pending"
    /\ StartWorker
    /\ UNCHANGED <<dbVars, runVars, workVars, histVars, bounds>>

(* doRunTask: mark a task that is not started as running, before any call.  *)
Enter ==
    /\ pc[Worker] = "enter"
    /\ IF TaskStarted(mem[Worker].task.status)
       THEN Goto(Worker, "load") /\ UNCHANGED <<task, mem>>
       ELSE ChangeTask(Worker, "running", "load")
    /\ UNCHANGED <<steps, env, runVars, workVars, histVars, bounds>>

(* The step list is read once; steps before the copy's CurrStep are         *)
(* skipped.                                                                 *)
LoadSteps ==
    /\ pc[Worker] = "load"
    /\ wSteps' = steps
    /\ mem' = [mem EXCEPT ![Worker].k = mem[Worker].task.currStep]
    /\ Goto(Worker, "begin")
    /\ UNCHANGED <<dbVars, runVars, booted, retried, reqCid, histVars, bounds>>

(* taskStartFailed: the request cannot be built; processTaskDone does not   *)
(* follow.                                                                  *)
StartFailed ==
    /\ pc[Worker] = "load"
    /\ Fault
    /\ ChangeTask(Worker, "failed", "off")
    /\ UNCHANGED <<steps, env, runVars, workVars, histVars, crashes>>

(* processStartStep: CurrStep is saved, in the row and in the copy, and the *)
(* container id is read again for the request of this step.                 *)
BeginStep ==
    /\ pc[Worker] = "begin"
    /\ LET k == mem[Worker].k
       IN  /\ task' = [task EXCEPT !.currStep = k]
           /\ mem' = [mem EXCEPT ![Worker] =
                        [mem[Worker] EXCEPT !.task.currStep = k, !.step = wSteps[k]]]
    /\ retried' = 0 /\ reqCid' = task.cid
    /\ Goto(Worker, "gate")
    /\ UNCHANGED <<steps, env, runVars, booted, wSteps, histVars, bounds>>

(* Variant: a step found approving after a restart is taken for approved.   *)
GateTrustsApproving ==
    /\ pc[Worker] = "gate"
    /\ IF MustApproval(mem[Worker].k) /\ mem[Worker].step.status = "pending"
       THEN ChangeStep(Worker, "approving", FALSE, "poll")
       ELSE Goto(Worker, "drive") /\ UNCHANGED <<steps, mem>>
    /\ UNCHANGED <<task, env, runVars, workVars, histVars, bounds>>

(* waitTaskStepApprove, its first half: ask for approval when needed.       *)
Gate ==
    /\ pc[Worker] = "gate"
    /\ IF /\ MustApproval(mem[Worker].k)
          /\ ~(mem[Worker].step.approved /\ mem[Worker].step.status # "rejected")
       THEN ChangeStep(Worker, "approving", FALSE, "poll")
       ELSE Goto(Worker, "drive") /\ UNCHANGED <<steps, mem>>
    /\ UNCHANGED <<task, env, runVars, workVars, histVars, bounds>>

(* Variant: any change of the row away from approving counts as approval.   *)
PollAnyChange ==
    /\ pc[Worker] = "poll"
    /\ steps[mem[Worker].k].status # "approving"
    /\ mem' = [mem EXCEPT ![Worker].step = [steps[mem[Worker].k] EXCEPT !.status = "pending"]]
    /\ Goto(Worker, "drive")
    /\ UNCHANGED <<dbVars, runVars, workVars, histVars, bounds>>

(* WaitTaskStepApprove: a poll of the row that finds an answer.             *)
PollApproval ==
    /\ pc[Worker] = "poll"
    /\ LET row == steps[mem[Worker].k]
       IN  \/ /\ row.status \in {"rejected", "aborted"}
              /\ Goto(Worker, "after") /\ UNCHANGED mem
           \/ /\ row.status \notin {"rejected", "aborted"} /\ row.approved
              /\ mem' = [mem EXCEPT ![Worker].step = row]
              /\ Goto(Worker, "drive")
    /\ UNCHANGED <<dbVars, runVars, workVars, histVars, bounds>>

(* Variant: the call is made without first saving the step as running.      *)
DriveUnsaved ==
    /\ pc[Worker] = "drive"
    /\ LET status == mem[Worker].step.status
       IN  IF status \in {"pending", "approving"}
           THEN mem' = [mem EXCEPT ![Worker].step.status = "running"] /\ Goto(Worker, "call")
           ELSE /\ Goto(Worker, IF status = "running" THEN "watch" ELSE "judge")
                /\ UNCHANGED mem
    /\ UNCHANGED <<dbVars, runVars, workVars, histVars, bounds>>

(* The switch of waitTaskStepDone on the status of the copy.                *)
Drive ==
    /\ pc[Worker] = "drive"
    /\ LET status == mem[Worker].step.status
       IN  IF status \in {"pending", "approving"}
           THEN ChangeStep(Worker, "running", FALSE, "call")
           ELSE /\ Goto(Worker, IF status = "running" THEN "watch" ELSE "judge")
                /\ UNCHANGED <<steps, mem>>
    /\ UNCHANGED <<task, env, runVars, workVars, histVars, bounds>>

(* The runner can start a step: in the container the request names, or in a *)
(* new one, which takes the task's id as its name and so must not exist.    *)
CanStart == IF reqCid THEN box = "up" ELSE box = "none"

(* Task.Run: the container, then the abort mark, then the command.  Only    *)
(* with a new container is the file of an earlier attempt removed.          *)
Launch(k) ==
    /\ box' = "up"
    /\ info' = IF reqCid THEN info ELSE [info EXCEPT ![k] = "none"]
    /\ IF control
       THEN UNCHANGED <<exec, launches>>
       ELSE /\ exec' = [exec EXCEPT ![k] = "running"]
            /\ launches' = [launches EXCEPT ![k] = IF @ = MaxLaunches THEN @ ELSE @ + 1]

(* StartTaskStep, answered by the runner: started, refused because the task *)
(* is marked aborted there, or in error, which is never tried again.        *)
CallRunner ==
    /\ pc[Worker] = "call"
    /\ IF CanStart
       THEN /\ Launch(mem[Worker].k)
            /\ IF control
               THEN ChangeStep(Worker, "aborted", TRUE, "judge")
               ELSE /\ Goto(Worker, IF mem[Worker].task.cid THEN "drive" ELSE "saveCid")
                    /\ UNCHANGED <<steps, mem>>
       ELSE /\ ChangeStep(Worker, "failed", TRUE, "judge")
            /\ UNCHANGED <<exec, info, box, launches>>
    /\ UNCHANGED <<task, env, control, workVars, done, bounds>>

(* UpdateTaskContainerId, while the worker's copy of the task names none.   *)
SaveContainer ==
    /\ pc[Worker] = "saveCid"
    /\ task' = [task EXCEPT !.cid = TRUE]
    /\ Goto(Worker, "drive")
    /\ UNCHANGED <<steps, env, mem, runVars, workVars, histVars, bounds>>

(***************************************************************************)
(* The exchange of StartTaskStep is lost, with the request delivered or    *)
(* not.  It may be tried again: RetryNumber is overwritten, the in-memory  *)
(* count is not, and once no retry is left the step stays running and is   *)
(* watched.                                                                *)
(***************************************************************************)
CallFails ==
    /\ pc[Worker] = "call"
    /\ Fault
    /\ \/ CanStart /\ Launch(mem[Worker].k)
       \/ UNCHANGED <<exec, info, box, launches>>
    /\ \/ ~RetryAble /\ ChangeStep(Worker, "failed", TRUE, "judge")
       \/ /\ RetryAble /\ retried < mem[Worker].step.retryNumber
          /\ steps' = [steps EXCEPT ![mem[Worker].k] =
                [Mark(@, "pending", TRUE) EXCEPT !.retryNumber = retried + 1]]
          /\ mem' = [mem EXCEPT ![Worker] =
                       [mem[Worker] EXCEPT !.step = Mark(mem[Worker].step, "pending", TRUE),
                                           !.ret = "drive"]]
          /\ Goto(Worker, "task")
       \/ /\ RetryAble /\ retried >= mem[Worker].step.retryNumber
          /\ Goto(Worker, "drive") /\ UNCHANGED <<steps, mem>>
    /\ UNCHANGED <<task, env, control, workVars, done, crashes>>

(* Variant: a message that says the command still runs ends the wait.       *)
WatchEarly ==
    /\ pc[Worker] = "watch"
    /\ ChangeStep(Worker, IF exec[mem[Worker].k] = "ok" THEN "complete" ELSE "failed",
                  exec[mem[Worker].k] # "ok", "judge")
    /\ UNCHANGED <<task, env, runVars, workVars, histVars, bounds>>

(* What the runner reports of a step: the file, once it is there.           *)
ExitState(k) == IF info[k] = "none" THEN exec[k] ELSE info[k]

(* WaitTaskStep: the result the runner reports.  A task marked aborted is   *)
(* reported aborted whether its command ended or not; a step the runner     *)
(* does not know is failed.                                                 *)
Watch ==
    /\ pc[Worker] = "watch"
    /\ LET state == ExitState(mem[Worker].k)
       IN  \/ /\ state = "none"
              /\ ChangeStep(Worker, "failed", TRUE, "settle")
           \/ /\ state # "none" /\ control
              /\ ChangeStep(Worker, "aborted", TRUE, "judge")
           \/ /\ ~control /\ state = "ok"
              /\ ChangeStep(Worker, "complete", FALSE, "judge")
           \/ /\ ~control /\ state \in {"fail", "killed"}
              /\ \E ret \in IF Flow[mem[Worker].k] = "scan"
                            THEN {"settle", "judge"} ELSE {"settle"} :
                    ChangeStep(Worker, "failed", TRUE, ret)
    /\ UNCHANGED <<task, env, runVars, workVars, histVars, bounds>>

(* WaitTaskStep gives up: the deadline passes (a result that is retried)    *)
(* or the runner cannot be reached (an error that is not).                  *)
WatchFails ==
    /\ pc[Worker] = "watch"
    /\ Fault
    /\ \/ ChangeStep(Worker, "timeout", TRUE, "settle")
       \/ ChangeStep(Worker, "failed", TRUE, "judge")
    /\ UNCHANGED <<task, env, runVars, workVars, histVars, crashes>>

(* A failed or timed out step is put back to pending while retries last.    *)
Settle ==
    /\ pc[Worker] = "settle"
    /\ IF RetryAble /\ retried < mem[Worker].step.retryNumber
       THEN /\ retried' = retried + 1
            /\ ChangeStep(Worker, "pending", TRUE, "drive")
       ELSE Goto(Worker, "judge") /\ UNCHANGED <<steps, mem, retried>>
    /\ UNCHANGED <<task, env, runVars, booted, wSteps, reqCid, histVars, bounds>>

(* Variant: a failed step does not stop the task.                           *)
JudgeGoesOn ==
    /\ pc[Worker] = "judge"
    /\ LET k == mem[Worker].k
       IN  IF mem[Worker].step.status # "aborted" /\ k < Len(Flow)
           THEN mem' = [mem EXCEPT ![Worker].k = k + 1] /\ Goto(Worker, "begin")
           ELSE Goto(Worker, "after") /\ UNCHANGED mem
    /\ UNCHANGED <<dbVars, runVars, workVars, histVars, bounds>>

(* The end of a step: go on, or leave the loop of doRunTask.                *)
Judge ==
    /\ pc[Worker] = "judge"
    /\ LET k == mem[Worker].k
       IN  IF /\ mem[Worker].step.status = "complete" \/ IsTolerated(k)
              /\ k < Len(Flow)
           THEN mem' = [mem EXCEPT ![Worker].k = k + 1] /\ Goto(Worker, "begin")
           ELSE Goto(Worker, "after") /\ UNCHANGED mem
    /\ UNCHANGED <<dbVars, runVars, workVars, histVars, bounds>>

(* runTaskStepsDoneActions (abstracted: it writes none of these rows) and   *)
(* the start of processTaskDone: read the task again and stop the container *)
(* it records, with whatever still runs there.                              *)
AfterSteps ==
    /\ pc[Worker] = "after"
    /\ mem' = [mem EXCEPT ![Worker].task = task]
    /\ Goto(Worker, "last")
    /\ \/ /\ task.cid /\ box' = "gone"
          /\ exec' = [k \in Steps |-> IF exec[k] = "running" THEN "killed" ELSE exec[k]]
          /\ UNCHANGED faults
       \/ ~task.cid /\ UNCHANGED <<exec, box, faults>>
       \/ task.cid /\ Fault /\ UNCHANGED <<exec, box>>
    /\ UNCHANGED <<dbVars, info, control, workVars, histVars, crashes>>

(* The rest of processTaskDone: unless it was rejected, the last step       *)
(* decides the status of the task.                                          *)
LastStep ==
    /\ pc[Worker] = "last"
    /\ LET k == mem[Worker].task.currStep
       IN  IF steps[k].status = "rejected"
           THEN Goto(Worker, "off") /\ UNCHANGED mem
           ELSE /\ mem' = [mem EXCEPT ![Worker] =
                             [mem[Worker] EXCEPT !.step = steps[k], !.k = k, !.ret = "off"]]
                /\ Goto(Worker, "task")
    /\ UNCHANGED <<dbVars, runVars, workVars, histVars, bounds>>

-----------------------------------------------------------------------------
(* API handlers.                                                            *)

(* ApproveTask up to its last check; the answer is an approval or a         *)
(* rejection.                                                               *)
AnswerCheck(s, call) ==
    /\ pc[s] = "idle" /\ call \in Calls
    /\ task.status = "approving" /\ ~task.aborting
    /\ ~steps[task.currStep].approved
    /\ mem' = [mem EXCEPT ![s].k = task.currStep]
    /\ Goto(s, IF call = "approve" THEN "sign" ELSE "rejectRead")
    /\ UNCHANGED <<dbVars, runVars, workVars, histVars, bounds>>

(* ApproveTaskStep, first write: the approver.                              *)
Sign(s) ==
    /\ pc[s] = "sign"
    /\ steps' = [steps EXCEPT ![mem[s].k].approved = TRUE]
    /\ Goto(s, "reread")
    /\ UNCHANGED <<task, env, mem, runVars, workVars, histVars, bounds>>

(* ApproveTaskStep and RejectTaskStep read the step and the task again.     *)
Reread(s) ==
    /\ pc[s] \in {"reread", "rejectRead"}
    /\ mem' = [mem EXCEPT ![s] =
                 [mem[s] EXCEPT !.step = steps[mem[s].k], !.task = task]]
    /\ Goto(s, IF pc[s] = "reread" THEN "grant" ELSE "refuse")
    /\ UNCHANGED <<dbVars, runVars, workVars, histVars, bounds>>

(* ... and change the status of the step, whatever it is by now.            *)
Grant(s) ==
    /\ pc[s] = "grant"
    /\ ChangeStep(s, "pending", FALSE, "over")
    /\ UNCHANGED <<task, env, runVars, workVars, histVars, bounds>>

Refuse(s) ==
    /\ pc[s] = "refuse"
    /\ ChangeStep(s, "rejected", TRUE, "over")
    /\ UNCHANGED <<task, env, runVars, workVars, histVars, bounds>>

(***************************************************************************)
(* AbortTask reads the task and its current step in a transaction and      *)
(* branches.  For a task that runs, the runner is asked first whether the  *)
(* abort can be done: it must know a step and not be aborting already.     *)
(***************************************************************************)
AbortRead(s) ==
    /\ pc[s] = "idle" /\ "abort" \in Calls
    /\ ~task.aborting
    /\ LET k == task.currStep
       IN  /\ mem' = [mem EXCEPT ![s] =
                        [mem[s] EXCEPT !.task = task, !.step = steps[k], !.k = k]]
           /\ \/ task.status = "pending" /\ Goto(s, "abortPending")
              \/ /\ task.status # "pending" /\ steps[k].status = "approving"
                 /\ Goto(s, "abortApproving")
              \/ /\ TaskStarted(task.status) /\ ~TaskExited(task.status)
                 /\ steps[k].status # "approving"
                 /\ ~control /\ \E j \in Steps : launches[j] > 0
                 /\ Goto(s, "abortRunning")
    /\ UNCHANGED <<dbVars, runVars, workVars, histVars, bounds>>

(* UpdateModel writes every column of the copy that is not the zero value;  *)
(* index 0 (step 1 here) and false are zero values.                         *)
Overlay(row, copy) ==
    [status   |-> copy.status,
     currStep |-> IF copy.currStep = 1 THEN row.currStep ELSE copy.currStep,
     aborting |-> row.aborting \/ copy.aborting,
     cid      |-> row.cid \/ copy.cid]

AbortPending(s) ==
    /\ pc[s] = "abortPending"
    /\ task' = Overlay(task, [mem[s].task EXCEPT !.status = "aborted"])
    /\ Goto(s, "over")
    /\ UNCHANGED <<steps, env, mem, runVars, workVars, histVars, bounds>>

(* ChangeTaskStep2Aborted stops at the step: aborted is an exited status,   *)
(* so the task is left to the worker.                                       *)
AbortApproving(s) ==
    /\ pc[s] = "abortApproving"
    /\ task' = Overlay(task, [mem[s].task EXCEPT !.aborting = TRUE])
    /\ ChangeStep(s, "aborted", TRUE, "over")
    /\ UNCHANGED <<env, runVars, workVars, histVars, bounds>>

AbortRunning(s) ==
    /\ pc[s] = "abortRunning"
    /\ task' = Overlay(task, [mem[s].task EXCEPT !.aborting = TRUE])
    /\ Goto(s, "abortSend")
    /\ UNCHANGED <<steps, env, mem, runVars, workVars, histVars, bounds>>

(* goAbortRunnerTask: the runner marks the task aborted, or the call fails, *)
(* before or after the mark is written, and aborting is cleared again.      *)
AbortSend(s) ==
    /\ pc[s] = "abortSend"
    /\ \/ ~control /\ control' = TRUE /\ UNCHANGED <<task, faults>>
       \/ /\ control \/ faults < MaxFaults
          /\ faults' = IF control THEN faults ELSE faults + 1
          /\ task' = [task EXCEPT !.aborting = FALSE]
          /\ control' \in {control, TRUE}
    /\ Goto(s, "over")
    /\ UNCHANGED <<steps, env, mem, exec, info, box, workVars, histVars, crashes>>

-----------------------------------------------------------------------------
(* The runner's commands and the crash of the portal.                       *)

(* A running command ends; once the task is marked aborted it is killed.    *)
ExecEnds(k) ==
    /\ exec[k] = "running"
    /\ \E end \in {"ok", "fail"} \cup (IF control THEN {"killed"} ELSE {}) :
         /\ exec' = [exec EXCEPT ![k] = end]
         /\ done' = IF end = "ok" THEN done \cup {k} ELSE done
    /\ UNCHANGED <<dbVars, info, control, box, pc, mem, workVars, launches, bounds>>

(* StartedTask.Wait: while somebody watches a step whose command has ended, *)
(* the exit state is saved; a watch that is quicker leaves it unsaved.      *)
SaveExit(k) ==
    /\ pc[Worker] = "watch" /\ mem[Worker].k = k
    /\ exec[k] \notin {"none", "running"} /\ info[k] = "none"
    /\ info' = [info EXCEPT ![k] = exec[k]]
    /\ UNCHANGED <<dbVars, exec, control, box, pc, mem, workVars, histVars, bounds>>

(* The portal process dies: the goroutine is gone, and any of the calls in  *)
(* progress with it (those served by another portal process survive).       *)
Crash ==
    /\ crashes < MaxCrashes /\ booted
    /\ crashes' = crashes + 1
    /\ booted' = FALSE
    /\ \E dead \in SUBSET {s \in Sessions : pc[s] \notin {"idle", "over"}} :
         pc' = [p \in Procs |-> IF p = Worker THEN "off"
                                ELSE IF p \in dead THEN "over" ELSE pc[p]]
    /\ UNCHANGED <<dbVars, runVars, mem, wSteps, retried, reqCid, histVars, faults>>

-----------------------------------------------------------------------------
WorkerStep ==
    \/ WriteTask(Worker) \/ WriteEnv(Worker)
    \/ PickPending \/ Enter \/ LoadSteps \/ StartFailed \/ BeginStep
    \/ Gate \/ PollApproval \/ Drive \/ CallRunner \/ SaveContainer \/ CallFails
    \/ Watch \/ WatchFails \/ Settle \/ Judge \/ AfterSteps \/ LastStep

(* What a session does once its call has begun.                             *)
SessionStep(s) ==
    \/ WriteTask(s) \/ WriteEnv(s)
    \/ Sign(s) \/ Reread(s) \/ Grant(s) \/ Refuse(s)
    \/ AbortPending(s) \/ AbortApproving(s) \/ AbortRunning(s) \/ AbortSend(s)

SessionStart(s) ==
    \/ \E call \in {"approve", "reject"} : AnswerCheck(s, call)
    \/ AbortRead(s)

Next ==
    \/ Boot \/ WorkerStep \/ Crash
    \/ \E s \in Sessions : SessionStart(s) \/ SessionStep(s)
    \/ \E k \in Steps : ExecEnds(k) \/ SaveExit(k)

Spec == Init /\ [][Next]_vars

(* The goroutine and the handlers keep running, commands end (the runner    *)
(* enforces a timeout), and a portal that dies is started again.  Nothing   *)
(* obliges a user to call.                                                  *)
Fairness ==
    /\ WF_vars(Boot) /\ WF_vars(WorkerStep)
    /\ \A s \in Sessions : WF_vars(SessionStep(s))
    /\ \A k \in Steps : WF_vars(ExecEnds(k))

FairSpec == Spec /\ Fairness
-----------------------------------------------------------------------------
(* Properties.                                                              *)

(* Every variable has its type; at each label the copies are well formed.   *)
TypeOK ==
    /\ task \in TaskRow /\ steps \in [Steps -> StepRow] /\ env \in EnvRow
    /\ exec \in [Steps -> {"none", "running", "ok", "fail", "killed"}]
    /\ info \in [Steps -> {"none", "ok", "fail", "killed"}]
    /\ control \in BOOLEAN /\ booted \in BOOLEAN /\ reqCid \in BOOLEAN
    /\ box \in {"none", "up", "gone"}
    /\ pc \in [Procs -> Labels]
    /\ mem \in [Procs -> MemRow]
    /\ wSteps \in [Steps -> StepRow]
    /\ retried \in 0..RetryNumber
    /\ crashes \in 0..MaxCrashes /\ faults \in 0..MaxFaults
    /\ launches \in [Steps -> 0..MaxLaunches] /\ done \subseteq Steps

(* A step that needs approval is never started on the runner before         *)
(* somebody approved it, whatever crash, recovery or concurrent call        *)
(* intervenes (waitTaskStepApprove is skipped on no path).                  *)
ApprovedBeforeRun ==
    \A k \in Steps : launches[k] > 0 /\ MustApproval(k) => steps[k].approved

(* A step is started only when every earlier step has succeeded, or is a    *)
(* scan whose failure the task tolerates: also after recovery from a        *)
(* CurrStep that an abort wrote back to an older value.                     *)
Passed(k) == k \in done \/ IsTolerated(k)
StepsInOrder ==
    \A k \in Steps : launches[k] > 0 => \A j \in 1..(k - 1) : Passed(j)

(* A task reported complete has run all its steps with success, and an      *)
(* environment it made active or destroyed is the result of such a run      *)
(* (processTaskDone decides both from one step, the one CurrStep names).    *)
CompleteMeansDone ==
    /\ task.status = "complete" => \A k \in Steps : Passed(k)
    /\ env.status \notin {"failed", IF TaskType = "destroy" THEN "active" ELSE "inactive"}
         => \A k \in Steps : Passed(k)

(* The command of a step is started at most once, and once more for every   *)
(* retry its RetryNumber allows, crashes and recoveries included.           *)
LaunchBound ==
    \A k \in Steps : launches[k] <= 1 + (IF RetryAble THEN RetryNumber ELSE 0)

(* Each exchange lost on the way to the runner costs at most one start more *)
(* than RetryNumber allows, as long as the portal does not restart.         *)
RetriesBounded ==
    RetryAble => \A k \in Steps : launches[k] <= 1 + RetryNumber + faults

(* A task that has exited keeps its status: no recovery, late result or     *)
(* final update takes it out of a terminal status.                          *)
ExitedIsFinal == [][TaskExited(task.status) => task'.status = task.status]_vars

(* Once no process works on the task any more, and none has died, the       *)
(* environment of a task nobody answers agrees with it: deploying and       *)
(* task_status are set exactly when the task is under way.                  *)
AtRest == booted /\ \A p \in Procs : pc[p] \in {"off", "idle", "over"}
EnvFollowsTask ==
    AtRest /\ crashes = 0 /\ Calls = {} /\ IsEffectTask(TaskType) /\ TaskExited(task.status)
      => ~env.deploying /\ env.taskStatus = ""

(* While every exchange with the runner succeeds, no command outlives its   *)
(* task: nothing runs once the task has exited and its worker is gone.      *)
NoOrphan ==
    faults = 0 /\ AtRest /\ TaskExited(task.status)
        => \A k \in Steps : exec[k] # "running"

(* While every exchange succeeds, the worker takes the result of a step     *)
(* only once the command it started last has ended (the exit state kept     *)
(* from an earlier attempt is not taken for that of a retry).               *)
ResultIsOver ==
    faults = 0 /\ ~task.aborting /\ ~control /\ pc[Worker] \in {"settle", "judge"}
        => exec[mem[Worker].k] # "running"

(* Every task ends, through crashes of the portal.                          *)
Terminates == <>[]TaskExited(task.status)

(* A rejection ends the task: once a user refuses, the task exits rejected  *)
(* and its gated steps have not been run.                                   *)
RejectEnds ==
    \A s \in Sessions : (pc[s] = "refuse") ~> [](task.status = "rejected")
RejectedMeansNotRun ==
    task.status = "rejected" =>
        \A k \in Steps : MustApproval(k) => launches[k] = 0

(* An abort that was accepted ends the task or is withdrawn.                *)
AbortEnds == task.aborting ~> (TaskExited(task.status) \/ ~task.aborting)

(***************************************************************************)
(* The inductive invariant behind ApprovedBeforeRun and StepsInOrder.  A    *)
(* process inside the status procedure is where it will go on after it.     *)
(***************************************************************************)
InDrive == {"drive", "call", "saveCid", "watch", "settle", "judge"}
InStep == InDrive \cup {"gate", "poll"}
Where == IF pc[Worker] \in {"task", "env"} THEN mem[Worker].ret ELSE pc[Worker]

(* complete is only ever said of a step whose command succeeded, in the     *)
(* rows, in the worker's list and in the copy it works with.                *)
CompleteIsDone ==
    /\ \A k \in Steps : steps[k].status = "complete" => k \in done
    /\ \A k \in Steps : wSteps[k].status = "complete" => k \in done
    /\ \A k \in Steps : exec[k] = "ok" \/ info[k] = "ok" => k \in done
    /\ Where \in InStep /\ mem[Worker].step.status = "complete"
         => mem[Worker].k \in done

(* No index, in the row or in any copy, points beyond a step not passed.    *)
IndexPassed ==
    /\ \A j \in 1..(task.currStep - 1) : Passed(j)
    /\ \A p \in Procs : \A j \in 1..(mem[p].task.currStep - 1) : Passed(j)
    /\ Where \in InStep \cup {"begin"} =>
          \A j \in 1..(mem[Worker].k - 1) : Passed(j)

(* What the worker takes for approved is approved in the row.               *)
ApprovalKnown ==
    /\ \A k \in Steps : wSteps[k].approved => steps[k].approved
    /\ Where \in InStep /\ mem[Worker].step.approved
         => steps[mem[Worker].k].approved
    /\ Where \in InDrive /\ MustApproval(mem[Worker].k)
         => steps[mem[Worker].k].approved

(* Only a command that was started has a state on the runner.               *)
StartedIsCounted == \A k \in Steps : exec[k] # "none" => launches[k] > 0

PipelineInv == /\ CompleteIsDone /\ IndexPassed /\ ApprovalKnown
               /\ StartedIsCounted /\ StepsInOrder /\ ApprovedBeforeRun

(* TaskRun implements the promise of Pipeline.                              *)
Pipe == INSTANCE Pipeline WITH
            N <- Len(Flow),
            Gated <- {k \in Steps : MustApproval(k)},
            Tolerated <- {k \in Steps : IsTolerated(k)},
            approved <- {k \in Steps : steps[k].approved},
            launched <- {k \in Steps : launches[k] > 0},
            done <- done
ImplementsPipeline == Pipe!Spec
=============================================================================
