--------------------------- MODULE TaskRun_proofs ---------------------------
(***************************************************************************)
(* Theorems of TaskRun: its types, the two safety promises of a pipeline,  *)
(* and that it implements Pipeline, for every flow, every number of        *)
(* sessions, retries, crashes and faults; and, where the calls that may be *)
(* made are restricted, what they would break: a rejected task has run no  *)
(* gated step, a command is started once, a terminal status is final, the  *)
(* environment follows its task, no command outlives it.                   *)
(***************************************************************************)
EXTENDS TaskRun, TLAPS

USE TaskRunAssumption

(* The worker is a process, and no session is the worker.                   *)
LEMMA ProcsFacts == Worker \in Procs /\ \A s \in Sessions : s \in Procs /\ s # Worker
  BY DEF Procs

(* The first step exists, and steps are numbers.                            *)
LEMMA StepsFacts == 1 \in Steps /\ Steps \subseteq Nat
  BY DEF Steps

(* A step status maps to a task status.                                     *)
LEMMA StepToTaskType == \A status \in StepStatuses : StepToTask(status) \in TaskStatuses
  BY DEF StepStatuses, TaskStatuses, StepToTask

(* Marking a step keeps it a step; nothing but status and message change.   *)
LEMMA MarkType ==
  ASSUME NEW row \in StepRow, NEW status \in StepStatuses, NEW msg \in BOOLEAN
  PROVE  /\ Mark(row, status, msg) \in StepRow
         /\ Mark(row, status, msg).status = status
         /\ Mark(row, status, msg).approved = row.approved
  BY DEF Mark, StepRow

(* The environment row keeps its type.                                      *)
LEMMA EnvAfterType ==
  ASSUME NEW e \in EnvRow, NEW status \in TaskStatuses, NEW touched
  PROVE  EnvAfter(e, TaskType, status, touched) \in EnvRow
<1>1. CASE ~IsEffectTask(TaskType) \/ ~TaskStarted(status)
  BY <1>1 DEF EnvAfter
<1>2. CASE ~(~IsEffectTask(TaskType) \/ ~TaskStarted(status))
  <2> DEFINE st == CASE status = "failed"             -> "failed"
                     [] status = "aborted" /\ touched -> "failed"
                     [] status = "complete"           ->
                          IF TaskType = "apply" THEN "active" ELSE "destroyed"
                     [] OTHER                         -> e.status
             ts == IF TaskExited(status) THEN "" ELSE status
             dep == ~TaskExited(status)
  <2>1. st \in EnvStatuses
    BY DEF EnvRow, EnvStatuses
  <2>2. EnvAfter(e, TaskType, status, touched) =
          [status |-> st, taskStatus |-> ts, deploying |-> dep]
    BY <1>2, Zenon DEF EnvAfter
  <2>3. dep = TRUE \/ dep = FALSE
    BY Zenon DEF TaskExited
  <2>4. ts \in TaskStatuses \cup {""}
    BY Zenon
  <2>5. ASSUME NEW s \in EnvStatuses, NEW t \in TaskStatuses \cup {""}, NEW d \in BOOLEAN
        PROVE  [status |-> s, taskStatus |-> t, deploying |-> d] \in EnvRow
    BY DEF EnvRow
  <2> HIDE DEF st, ts, dep
  <2> QED BY <2>1, <2>2, <2>3, <2>4, <2>5, Zenon
<1> QED BY <1>1, <1>2

(* The types that ChangeStep may disturb.                                   *)
LEMMA ChangeStepType ==
  ASSUME TypeOK, NEW p \in Procs, NEW status \in StepStatuses,
         NEW msg \in BOOLEAN, NEW ret \in Labels, ChangeStep(p, status, msg, ret)
  PROVE  /\ steps' \in [Steps -> StepRow]
         /\ mem' \in [Procs -> MemRow]
         /\ pc' \in [Procs -> Labels]
<1>1. CASE mem[p].step.status = status /\ ~msg
  BY <1>1 DEF TypeOK, ChangeStep, Goto
<1>2. CASE ~(mem[p].step.status = status /\ ~msg)
  <2> DEFINE k == mem[p].k
             new == [mem[p] EXCEPT !.step = Mark(@, status, msg), !.ret = ret]
  <2>0. mem[p] \in MemRow /\ mem[p].step \in StepRow /\ k \in Steps
    BY DEF TypeOK, MemRow
  <2>1. steps' \in [Steps -> StepRow]
    <3>1. steps' = [steps EXCEPT ![k] = Mark(steps[k], status, msg)]
      BY <1>2 DEF ChangeStep
    <3>2. steps[k] \in StepRow
      BY <2>0 DEF TypeOK
    <3> QED BY <3>1, <3>2, MarkType DEF TypeOK
  <2>2. mem' \in [Procs -> MemRow]
    <3>1. mem' = [mem EXCEPT ![p] = new]
      BY <1>2, Zenon DEF ChangeStep
    <3>2. Mark(mem[p].step, status, msg) \in StepRow
      BY <2>0, MarkType
    <3>3. new \in MemRow
      BY <2>0, <3>2 DEF MemRow
    <3> QED BY <3>1, <3>3 DEF TypeOK
  <2>3. pc' \in [Procs -> Labels]
    BY <1>2 DEF TypeOK, ChangeStep, Goto, Labels
  <2> QED BY <2>1, <2>2, <2>3
<1> QED BY <1>1, <1>2

(* The types that ChangeTask may disturb.                                   *)
LEMMA ChangeTaskType ==
  ASSUME TypeOK, NEW p \in Procs, NEW status \in TaskStatuses, NEW ret \in Labels,
         ChangeTask(p, status, ret)
  PROVE  /\ task' \in TaskRow
         /\ mem' \in [Procs -> MemRow]
         /\ pc' \in [Procs -> Labels]
<1> DEFINE keep == ~(mem[p].task.aborting /\ TaskExited(status))
           Set(row) == [row EXCEPT !.status = status, !.aborting = keep /\ @]
           new == [mem[p] EXCEPT !.task = Set(@), !.ret = ret]
<1>1. ASSUME NEW row \in TaskRow PROVE Set(row) \in TaskRow
  <2>1. (keep /\ row.aborting) \in BOOLEAN
    BY Zenon
  <2> HIDE DEF keep
  <2> QED BY <2>1 DEF TaskRow
<1>2. task' = Set(task) /\ mem' = [mem EXCEPT ![p] = new]
  BY Zenon DEF ChangeTask
<1>3. mem[p] \in MemRow /\ mem[p].task \in TaskRow
  BY DEF TypeOK, MemRow
<1>4. new \in MemRow
  <2>1. Set(mem[p].task) \in TaskRow
    BY <1>1, <1>3
  <2> HIDE DEF Set
  <2> QED BY <1>3, <2>1 DEF MemRow
<1>5. task' \in TaskRow
  BY <1>1, <1>2 DEF TypeOK
<1>6. mem' \in [Procs -> MemRow]
  <2> HIDE DEF new
  <2> QED BY <1>2, <1>4 DEF TypeOK
<1>7. pc' \in [Procs -> Labels]
  BY DEF TypeOK, ChangeTask, Goto, Labels
<1> QED BY <1>5, <1>6, <1>7

(* The rows a process read are rows, and its labels are labels.             *)
LEMMA MemFacts ==
  ASSUME TypeOK, NEW p \in Procs
  PROVE  /\ mem[p] \in MemRow
         /\ mem[p].task \in TaskRow /\ mem[p].step \in StepRow
         /\ mem[p].k \in Steps /\ mem[p].ret \in Labels
         /\ mem[p].task.status \in TaskStatuses
         /\ mem[p].task.currStep \in Steps
         /\ mem[p].step.status \in StepStatuses
         /\ mem[p].step.retryNumber \in 0..RetryNumber
         /\ steps[mem[p].k] \in StepRow
  BY DEF TypeOK, MemRow, TaskRow, StepRow

(* Every label the specification names is one.                              *)
LEMMA LabelFacts ==
  /\ {"off", "enter", "load", "begin", "gate", "poll", "drive", "call", "saveCid",
      "watch", "settle", "judge", "after", "last", "idle", "sign", "reread",
      "rejectRead", "grant", "refuse", "abortPending", "abortApproving",
      "abortRunning", "abortSend", "over", "task", "env"} \subseteq Labels
  /\ {"approving", "pending", "running", "rejected", "failed", "timeout",
      "aborted", "complete"} \subseteq StepStatuses
  BY DEF Labels, WorkerLabels, SessionLabels, StepStatuses

(* Going to a label keeps pc a function to labels.                          *)
LEMMA GotoType ==
  ASSUME TypeOK, NEW p \in Procs, NEW label \in Labels, Goto(p, label)
  PROVE  pc' \in [Procs -> Labels]
  BY DEF TypeOK, Goto

(* The initial state has its types.                                         *)
LEMMA InitType == Init => TypeOK
<1> SUFFICES ASSUME Init PROVE TypeOK
  OBVIOUS
<1>1. NewTask \in TaskRow /\ NewStep \in StepRow
  BY StepsFacts DEF NewTask, NewStep, TaskRow, StepRow, TaskStatuses, StepStatuses
<1>2. [task |-> NewTask, step |-> NewStep, k |-> 1, ret |-> "off"] \in MemRow
  BY <1>1, StepsFacts, LabelFacts DEF MemRow
<1>3. env \in EnvRow
  BY DEF Init, EnvRow, EnvStatuses
<1>4. pc \in [Procs -> Labels]
  BY LabelFacts DEF Init
<1>5. 0 \in 0..RetryNumber /\ 0 \in 0..MaxCrashes /\ 0 \in 0..MaxFaults /\ 0 \in 0..MaxLaunches
  BY DEF MaxLaunches
<1> QED BY <1>1, <1>2, <1>3, <1>4, <1>5 DEF Init, TypeOK

(* The shared status procedure keeps the types.                             *)
LEMMA ProcedureType ==
  ASSUME TypeOK, NEW p \in Procs, WriteTask(p) \/ WriteEnv(p)
  PROVE  TypeOK'
<1>1. CASE WriteTask(p)
  <2> DEFINE status == StepToTask(mem[p].step.status)
  <2>1. status \in TaskStatuses
    BY MemFacts, StepToTaskType
  <2>2. CASE ChangeTask(p, status, mem[p].ret)
    BY <1>1, <2>1, <2>2, ChangeTaskType, MemFacts
       DEF TypeOK, WriteTask, runVars, workVars, histVars, bounds
  <2>3. CASE Goto(p, mem[p].ret) /\ UNCHANGED <<task, mem>>
    BY <1>1, <2>3, GotoType, MemFacts
       DEF TypeOK, WriteTask, runVars, workVars, histVars, bounds
  <2> QED BY <1>1, <2>2, <2>3 DEF WriteTask
<1>2. CASE WriteEnv(p)
  <2> DEFINE touched == \E k \in Steps : /\ Flow[k] \in {"apply", "destroy"}
                                         /\ StepStarted(steps[k].status)
  <2>1. env' = EnvAfter(env, TaskType, mem[p].task.status, touched)
    BY <1>2 DEF WriteEnv
  <2> HIDE DEF touched
  <2>2. env' \in EnvRow
    BY <2>1, EnvAfterType, MemFacts DEF TypeOK
  <2> QED BY <1>2, <2>2, GotoType, MemFacts
             DEF TypeOK, WriteEnv, runVars, workVars, histVars, bounds
<1> QED BY <1>1, <1>2

(* Dispatch, recovery and the start of a step keep the types.               *)
LEMMA DispatchType ==
  ASSUME TypeOK, Boot \/ PickPending \/ Enter \/ LoadSteps \/ StartFailed \/ BeginStep
  PROVE  TypeOK'
<1> USE ProcsFacts, LabelFacts DEF TypeOK, dbVars, runVars, workVars, histVars, bounds
<1>1. ASSUME StartWorker PROVE mem' \in [Procs -> MemRow] /\ pc' \in [Procs -> Labels]
  <2>1. [mem[Worker] EXCEPT !.task = task] \in MemRow
    BY MemFacts DEF MemRow
  <2> QED BY <1>1, <2>1, GotoType DEF StartWorker
<1>2. CASE Boot
  BY <1>1, <1>2 DEF Boot
<1>3. CASE PickPending
  BY <1>1, <1>3 DEF PickPending
<1>4. CASE Enter
  <2>1. "running" \in TaskStatuses
    BY DEF TaskStatuses
  <2> QED BY <1>4, <2>1, ChangeTaskType, GotoType DEF Enter
<1>5. CASE LoadSteps
  <2>1. [mem[Worker] EXCEPT !.k = mem[Worker].task.currStep] \in MemRow
    BY MemFacts DEF MemRow
  <2> QED BY <1>5, <2>1, GotoType DEF LoadSteps
<1>6. CASE StartFailed
  <2>1. "failed" \in TaskStatuses
    BY DEF TaskStatuses
  <2>2. faults' \in 0..MaxFaults
    BY <1>6 DEF StartFailed, Fault
  <2> QED BY <1>6, <2>1, <2>2, ChangeTaskType DEF StartFailed
<1>7. CASE BeginStep
  <2> DEFINE k == mem[Worker].k
             new == [mem[Worker] EXCEPT !.task.currStep = k, !.step = wSteps[k]]
  <2>1. k \in Steps /\ wSteps[k] \in StepRow
    BY MemFacts
  <2>2. task' = [task EXCEPT !.currStep = k] /\ mem' = [mem EXCEPT ![Worker] = new]
    BY <1>7 DEF BeginStep
  <2>3. task' \in TaskRow
    BY <2>1, <2>2 DEF TaskRow
  <2>4. new \in MemRow
    BY <2>1, MemFacts, ZenonT(60) DEF MemRow, TaskRow
  <2>5. mem' \in [Procs -> MemRow]
    BY <2>2, <2>4
  <2>6. retried' \in 0..RetryNumber /\ reqCid' \in BOOLEAN
    BY <1>7 DEF BeginStep, TaskRow
  <2> QED BY <1>7, <2>3, <2>5, <2>6, GotoType DEF BeginStep
<1> QED BY <1>2, <1>3, <1>4, <1>5, <1>6, <1>7

(* Launch, by a call of the worker, keeps the runner's types.               *)
LEMMA LaunchType ==
  ASSUME TypeOK, Launch(mem[Worker].k)
  PROVE  /\ box' \in {"none", "up", "gone"}
         /\ exec' \in [Steps -> {"none", "running", "ok", "fail", "killed"}]
         /\ info' \in [Steps -> {"none", "ok", "fail", "killed"}]
         /\ launches' \in [Steps -> 0..MaxLaunches]
<1> DEFINE k == mem[Worker].k
<1>1. k \in Steps
  BY MemFacts, ProcsFacts
<1>0. info' \in [Steps -> {"none", "ok", "fail", "killed"}]
  BY <1>1 DEF Launch, TypeOK
<1>2. CASE control
  BY <1>0, <1>2 DEF Launch, TypeOK
<1>3. CASE ~control
  <2>1. MaxLaunches \in Nat
    BY DEF MaxLaunches
  <2> DEFINE n == IF launches[k] = MaxLaunches THEN launches[k] ELSE launches[k] + 1
  <2>2. n \in 0..MaxLaunches
    BY <1>1, <2>1 DEF TypeOK
  <2>3. /\ box' = "up" /\ exec' = [exec EXCEPT ![k] = "running"]
        /\ launches' = [launches EXCEPT ![k] = n]
    BY <1>3 DEF Launch
  <2> HIDE DEF k, n
  <2> QED BY <1>0, <1>1, <2>2, <2>3 DEF TypeOK
<1> QED BY <1>2, <1>3

(* The worker's actions on a step keep the types.                           *)
LEMMA StepActionType ==
  ASSUME TypeOK,
         Gate \/ PollApproval \/ Drive \/ CallRunner \/ SaveContainer \/ CallFails
         \/ Watch \/ WatchFails \/ Settle \/ Judge \/ AfterSteps \/ LastStep
  PROVE  TypeOK'
<1> USE ProcsFacts, LabelFacts DEF TypeOK, dbVars, runVars, workVars, histVars, bounds
<1>1. CASE Gate
  BY <1>1, ChangeStepType, GotoType DEF Gate
<1>2. CASE PollApproval
  <2>1. [mem[Worker] EXCEPT !.step = steps[mem[Worker].k]] \in MemRow
    BY MemFacts DEF MemRow
  <2> QED BY <1>2, <2>1, GotoType, ZenonT(60) DEF PollApproval
<1>3. CASE Drive
  BY <1>3, ChangeStepType, GotoType DEF Drive
<1>4. CASE CallRunner
  <2>1. CASE CanStart
    BY <1>4, <2>1, LaunchType, ChangeStepType, GotoType DEF CallRunner
  <2>2. CASE ~CanStart
    BY <1>4, <2>2, ChangeStepType DEF CallRunner
  <2> QED BY <2>1, <2>2
<1>5. CASE SaveContainer
  <2>1. task' \in TaskRow
    BY <1>5 DEF SaveContainer, TaskRow
  <2> QED BY <1>5, <2>1, GotoType DEF SaveContainer
<1>6. CASE CallFails
  <2> DEFINE k == mem[Worker].k
  <2>1. faults' \in 0..MaxFaults
    BY <1>6 DEF CallFails, Fault
  <2>2. /\ box' \in {"none", "up", "gone"}
        /\ exec' \in [Steps -> {"none", "running", "ok", "fail", "killed"}]
        /\ info' \in [Steps -> {"none", "ok", "fail", "killed"}]
        /\ launches' \in [Steps -> 0..MaxLaunches]
    BY <1>6, LaunchType DEF CallFails
  <2>3. /\ steps' \in [Steps -> StepRow]
        /\ mem' \in [Procs -> MemRow]
        /\ pc' \in [Procs -> Labels]
    <3>1. CASE ~RetryAble /\ ChangeStep(Worker, "failed", TRUE, "judge")
      BY <3>1, ChangeStepType
    <3>2. CASE RetryAble /\ retried >= mem[Worker].step.retryNumber
               /\ Goto(Worker, "drive") /\ UNCHANGED <<steps, mem>>
      BY <3>2, GotoType
    <3>3. CASE /\ RetryAble /\ retried < mem[Worker].step.retryNumber
               /\ steps' = [steps EXCEPT ![k] =
                    [Mark(@, "pending", TRUE) EXCEPT !.retryNumber = retried + 1]]
               /\ mem' = [mem EXCEPT ![Worker] =
                    [mem[Worker] EXCEPT !.step = Mark(mem[Worker].step, "pending", TRUE),
                                        !.ret = "drive"]]
               /\ Goto(Worker, "task")
      <4>1. retried + 1 \in 0..RetryNumber
        BY <3>3, MemFacts
      <4>2. [Mark(steps[k], "pending", TRUE) EXCEPT !.retryNumber = retried + 1] \in StepRow
        <5>1. ASSUME NEW row \in StepRow
              PROVE  [row EXCEPT !.retryNumber = retried + 1] \in StepRow
          BY <4>1 DEF StepRow
        <5>2. Mark(steps[k], "pending", TRUE) \in StepRow
          BY MemFacts, MarkType
        <5> QED BY <5>1, <5>2
      <4>3. Mark(mem[Worker].step, "pending", TRUE) \in StepRow
        BY MemFacts, MarkType
      <4>4. [mem[Worker] EXCEPT !.step = Mark(mem[Worker].step, "pending", TRUE),
                                !.ret = "drive"] \in MemRow
        BY <4>3, MemFacts DEF MemRow
      <4> QED BY <3>3, <4>2, <4>4, GotoType, MemFacts
    <3> QED BY <1>6, <3>1, <3>2, <3>3 DEF CallFails
  <2> QED BY <1>6, <2>1, <2>2, <2>3 DEF CallFails
<1>7. CASE Watch
  BY <1>7, ChangeStepType, ZenonT(60) DEF Watch
<1>8. CASE WatchFails
  <2>1. faults' \in 0..MaxFaults
    BY <1>8 DEF WatchFails, Fault
  <2> QED BY <1>8, <2>1, ChangeStepType DEF WatchFails
<1>9. CASE Settle
  <2>1. CASE RetryAble /\ retried < mem[Worker].step.retryNumber
    <3>1. retried' \in 0..RetryNumber
      BY <1>9, <2>1, MemFacts DEF Settle
    <3> QED BY <1>9, <2>1, <3>1, ChangeStepType DEF Settle
  <2>2. CASE ~(RetryAble /\ retried < mem[Worker].step.retryNumber)
    BY <1>9, <2>2, GotoType DEF Settle
  <2> QED BY <2>1, <2>2
<1>10. CASE Judge
  <2> DEFINE k == mem[Worker].k
  <2>1. CASE k < Len(Flow)
    <3>1. k + 1 \in Steps
      BY <2>1, MemFacts DEF Steps
    <3>2. [mem[Worker] EXCEPT !.k = k + 1] \in MemRow
      <4> DEFINE m == mem[Worker]
      <4>1. m \in MemRow
        BY MemFacts
      <4> HIDE DEF k, m
      <4>2. [m EXCEPT !.k = k + 1] \in MemRow
        BY <3>1, <4>1 DEF MemRow
      <4> QED BY <4>2 DEF m
    <3> QED BY <1>10, <2>1, <3>2, GotoType DEF Judge
  <2>2. CASE ~(k < Len(Flow))
    BY <1>10, <2>2, GotoType DEF Judge
  <2> QED BY <2>1, <2>2
<1>11. CASE AfterSteps
  <2>1. [mem[Worker] EXCEPT !.task = task] \in MemRow
    BY MemFacts DEF MemRow
  <2>2. exec' \in [Steps -> {"none", "running", "ok", "fail", "killed"}]
    BY <1>11 DEF AfterSteps
  <2>3. box' \in {"none", "up", "gone"} /\ faults' \in 0..MaxFaults
    BY <1>11 DEF AfterSteps, Fault
  <2> QED BY <1>11, <2>1, <2>2, <2>3, GotoType DEF AfterSteps
<1>12. CASE LastStep
  <2> DEFINE k == mem[Worker].task.currStep
  <2>1. [mem[Worker] EXCEPT !.step = steps[k], !.k = k, !.ret = "off"] \in MemRow
    BY MemFacts DEF MemRow
  <2> QED BY <1>12, <2>1, GotoType, ZenonT(60) DEF LastStep
<1> QED BY <1>1, <1>2, <1>3, <1>4, <1>5, <1>6, <1>7, <1>8, <1>9, <1>10, <1>11, <1>12

(* What UpdateModel writes is a task row.                                   *)
LEMMA OverlayType ==
  ASSUME NEW row \in TaskRow, NEW copy \in TaskRow
  PROVE  Overlay(row, copy) \in TaskRow
<1>1. (row.aborting \/ copy.aborting) \in BOOLEAN /\ (row.cid \/ copy.cid) \in BOOLEAN
  BY Zenon
<1>2. ASSUME NEW a \in BOOLEAN, NEW c \in BOOLEAN
      PROVE  [status |-> copy.status,
              currStep |-> IF copy.currStep = 1 THEN row.currStep ELSE copy.currStep,
              aborting |-> a, cid |-> c] \in TaskRow
  BY DEF TaskRow
<1> QED BY <1>1, <1>2, Zenon DEF Overlay

(* What a session reads fits its copies.                                    *)
LEMMA MemUpdate ==
  ASSUME NEW m \in MemRow, NEW k \in Steps
  PROVE  /\ [m EXCEPT !.k = k] \in MemRow
         /\ \A t \in TaskRow, r \in StepRow :
               [m EXCEPT !.task = t, !.step = r, !.k = k] \in MemRow
  BY DEF MemRow

(* The handlers of a session keep the types.                                *)
LEMMA SessionType ==
  ASSUME TypeOK, NEW s \in Sessions, SessionStart(s) \/ SessionStep(s)
  PROVE  TypeOK'
<1> USE ProcsFacts, LabelFacts DEF TypeOK, dbVars, runVars, workVars, histVars, bounds
<1>1. ASSUME NEW call, AnswerCheck(s, call) PROVE TypeOK'
  <2>0. task.currStep \in Steps
    BY DEF TaskRow
  <2>1. [mem[s] EXCEPT !.k = task.currStep] \in MemRow
    BY MemFacts, MemUpdate, <2>0
  <2> QED BY <1>1, <2>1, GotoType DEF AnswerCheck
<1>2. CASE AbortRead(s)
  <2> DEFINE k == task.currStep
  <2>0. k \in Steps
    BY DEF TaskRow
  <2>1. [mem[s] EXCEPT !.task = task, !.step = steps[k], !.k = k] \in MemRow
    BY MemFacts, MemUpdate, <2>0
  <2> QED BY <1>2, <2>1, GotoType DEF AbortRead
<1>3. CASE Sign(s)
  <2>1. [steps[mem[s].k] EXCEPT !.approved = TRUE] \in StepRow
    BY MemFacts DEF StepRow
  <2> QED BY <1>3, <2>1, MemFacts, GotoType DEF Sign
<1>4. CASE Reread(s)
  <2>1. [mem[s] EXCEPT !.step = steps[mem[s].k], !.task = task] \in MemRow
    BY MemFacts DEF MemRow
  <2> QED BY <1>4, <2>1, GotoType DEF Reread
<1>5. CASE Grant(s)
  BY <1>5, ChangeStepType DEF Grant
<1>6. CASE Refuse(s)
  BY <1>6, ChangeStepType DEF Refuse
<1>7. CASE AbortPending(s)
  <2>1. [mem[s].task EXCEPT !.status = "aborted"] \in TaskRow
    BY MemFacts, ZenonT(60) DEF TaskRow, TaskStatuses
  <2> QED BY <1>7, <2>1, OverlayType, GotoType DEF AbortPending
<1>8. CASE AbortApproving(s)
  <2>1. [mem[s].task EXCEPT !.aborting = TRUE] \in TaskRow
    BY MemFacts DEF TaskRow
  <2> QED BY <1>8, <2>1, OverlayType, ChangeStepType DEF AbortApproving
<1>9. CASE AbortRunning(s)
  <2>1. [mem[s].task EXCEPT !.aborting = TRUE] \in TaskRow
    BY MemFacts DEF TaskRow
  <2> QED BY <1>9, <2>1, OverlayType, GotoType DEF AbortRunning
<1>10. CASE AbortSend(s)
  <2>1. task' \in TaskRow
    BY <1>10 DEF AbortSend, TaskRow
  <2>2. control' \in BOOLEAN
    BY <1>10 DEF AbortSend
  <2>3. faults' \in 0..MaxFaults
    <3>1. faults' = faults \/ (faults < MaxFaults /\ faults' = faults + 1)
      BY <1>10, Zenon DEF AbortSend
    <3> QED BY <3>1
  <2> QED BY <1>10, <2>1, <2>2, <2>3, GotoType DEF AbortSend
<1>11. CASE WriteTask(s) \/ WriteEnv(s)
  BY <1>11, ProcedureType
<1> QED BY <1>1, <1>2, <1>3, <1>4, <1>5, <1>6, <1>7, <1>8, <1>9, <1>10, <1>11
           DEF SessionStart, SessionStep

(* The end of a command and a crash keep the types.                         *)
LEMMA RestType ==
  ASSUME TypeOK, Crash \/ \E k \in Steps : ExecEnds(k) \/ SaveExit(k)
  PROVE  TypeOK'
<1> USE DEF TypeOK, dbVars, runVars, workVars, histVars, bounds
<1>1. CASE Crash
  <2>1. pc' \in [Procs -> Labels]
    BY <1>1, LabelFacts DEF Crash
  <2>2. crashes' \in 0..MaxCrashes
    BY <1>1 DEF Crash
  <2> QED BY <1>1, <2>1, <2>2 DEF Crash
<1>2. ASSUME NEW k \in Steps, ExecEnds(k) PROVE TypeOK'
  <2>1. PICK end \in {"ok", "fail", "killed"} :
             /\ exec' = [exec EXCEPT ![k] = end]
             /\ done' = IF end = "ok" THEN done \cup {k} ELSE done
    BY <1>2 DEF ExecEnds
  <2> QED BY <1>2, <2>1 DEF ExecEnds
<1>3. ASSUME NEW k \in Steps, SaveExit(k) PROVE TypeOK'
  BY <1>3 DEF SaveExit
<1> QED BY <1>1, <1>2, <1>3

(***************************************************************************)
(* Types are preserved by every step, so they always hold.                 *)
(***************************************************************************)
LEMMA TypeStep == TypeOK /\ [Next]_vars => TypeOK'
<1> SUFFICES ASSUME TypeOK, [Next]_vars PROVE TypeOK'
  OBVIOUS
<1>1. CASE Boot \/ WorkerStep
  BY <1>1, ProcsFacts, DispatchType, StepActionType, ProcedureType DEF WorkerStep
<1>2. CASE \E s \in Sessions : SessionStart(s) \/ SessionStep(s)
  BY <1>2, SessionType
<1>3. CASE Crash \/ \E k \in Steps : ExecEnds(k) \/ SaveExit(k)
  BY <1>3, RestType
<1>4. CASE UNCHANGED vars
  BY <1>4 DEF TypeOK, vars, dbVars, runVars, workVars, histVars, bounds
<1> QED BY <1>1, <1>2, <1>3, <1>4 DEF Next

(* In every reachable state every variable has its type.                    *)
THEOREM TypeCorrect == Spec => []TypeOK
  BY InitType, TypeStep, PTL DEF Spec

-----------------------------------------------------------------------------
(* The safety of the pipeline.                                              *)

(* A change of a step's status: nobody's approval and nobody's indices      *)
(* change, at most one row takes the new status, and the process goes to    *)
(* ret, directly or through the rest of the procedure.                      *)
LEMMA ChangeStepEffect ==
  ASSUME TypeOK, NEW p \in Procs, NEW status \in StepStatuses,
         NEW msg \in BOOLEAN, NEW ret \in Labels \ {"task", "env"},
         ChangeStep(p, status, msg, ret)
  PROVE  /\ \A k \in Steps : steps'[k].approved = steps[k].approved
         /\ \A k \in Steps : \/ steps'[k].status = steps[k].status
                             \/ k = mem[p].k /\ steps'[k].status = status
         /\ \A q \in Procs : mem'[q].k = mem[q].k /\ mem'[q].task = mem[q].task
         /\ mem'[p].step.approved = mem[p].step.approved
         /\ mem'[p].step.status = status
         /\ \A q \in Procs \ {p} : mem'[q] = mem[q] /\ pc'[q] = pc[q]
         /\ p = Worker => Where' = ret
<1> USE MemFacts
<1>1. CASE mem[p].step.status = status /\ ~msg
  BY <1>1 DEF TypeOK, ChangeStep, Goto, Where
<1>2. CASE ~(mem[p].step.status = status /\ ~msg)
  <2> DEFINE k == mem[p].k
             new == [mem[p] EXCEPT !.step = Mark(mem[p].step, status, msg), !.ret = ret]
  <2>1. steps' = [steps EXCEPT ![k] = Mark(steps[k], status, msg)]
    BY <1>2 DEF ChangeStep
  <2>2. mem' = [mem EXCEPT ![p] = new]
    BY <1>2 DEF ChangeStep
  <2>3. /\ new.k = mem[p].k /\ new.task = mem[p].task /\ new.ret = ret
        /\ new.step = Mark(mem[p].step, status, msg)
    BY DEF MemRow
  <2>4. pc' = [pc EXCEPT ![p] = ret] \/ pc' = [pc EXCEPT ![p] = "task"]
    BY <1>2 DEF ChangeStep, Goto
  <2>5. /\ Mark(steps[k], status, msg).status = status
        /\ Mark(steps[k], status, msg).approved = steps[k].approved
        /\ Mark(mem[p].step, status, msg).status = status
        /\ Mark(mem[p].step, status, msg).approved = mem[p].step.approved
    BY MarkType, SMTT(30)
  <2> HIDE DEF new
  <2>6. mem'[p] = new /\ \A q \in Procs \ {p} : mem'[q] = mem[q]
    BY <2>2 DEF TypeOK
  <2>7. p = Worker => Where' = ret
    BY <2>3, <2>4, <2>6 DEF TypeOK, Where
  <2> QED BY <2>1, <2>3, <2>4, <2>5, <2>6, <2>7 DEF TypeOK
<1> QED BY <1>1, <1>2

(* A change of the task's status leaves the steps and all indices alone.    *)
LEMMA ChangeTaskEffect ==
  ASSUME TypeOK, NEW p \in Procs, NEW status, NEW ret \in Labels, ChangeTask(p, status, ret)
  PROVE  /\ task'.currStep = task.currStep
         /\ \A q \in Procs : /\ mem'[q].k = mem[q].k /\ mem'[q].step = mem[q].step
                             /\ mem'[q].task.currStep = mem[q].task.currStep
         /\ \A q \in Procs \ {p} : mem'[q] = mem[q] /\ pc'[q] = pc[q]
         /\ mem'[p].ret = ret /\ pc'[p] = "env"
<1> DEFINE keep == ~(mem[p].task.aborting /\ TaskExited(status))
           Set(row) == [row EXCEPT !.status = status, !.aborting = keep /\ @]
           new == [mem[p] EXCEPT !.task = Set(mem[p].task), !.ret = ret]
<1>1. task' = Set(task) /\ mem' = [mem EXCEPT ![p] = new] /\ pc' = [pc EXCEPT ![p] = "env"]
  BY DEF ChangeTask, Goto
<1>2. ASSUME NEW row \in TaskRow PROVE Set(row).currStep = row.currStep
  BY DEF TaskRow
<1> HIDE DEF Set
<1>3. /\ new.k = mem[p].k /\ new.step = mem[p].step /\ new.ret = ret
      /\ new.task = Set(mem[p].task)
  BY MemFacts DEF MemRow
<1> HIDE DEF new
<1>4. mem'[p] = new /\ \A q \in Procs \ {p} : mem'[q] = mem[q]
  BY <1>1 DEF TypeOK
<1> QED BY <1>1, <1>2, <1>3, <1>4, MemFacts DEF TypeOK

(* What a step that is not the worker's own progress may do without harm:   *)
(* approvals are only added, no row becomes complete, indices move only to  *)
(* known ones, and the worker stays where it is.                            *)
LEMMA Harmless ==
  ASSUME TypeOK, TypeOK', PipelineInv,
         UNCHANGED <<info, wSteps, launches, done>>,
         \A k \in Steps : exec'[k] = exec[k] \/ (exec'[k] = "killed" /\ exec[k] # "none"),
         \A k \in Steps : steps[k].approved => steps'[k].approved,
         \A k \in Steps : steps'[k].status = "complete" => steps[k].status = "complete",
         \/ task'.currStep = task.currStep
         \/ \E p \in Procs : task'.currStep = mem[p].task.currStep,
         \A p \in Procs : \/ mem'[p].task.currStep = mem[p].task.currStep
                          \/ mem'[p].task.currStep = task.currStep,
         \/ Where' \notin InStep \cup {"begin"}
         \/ /\ Where' = Where
            /\ mem'[Worker].k = mem[Worker].k /\ mem'[Worker].step = mem[Worker].step
  PROVE  PipelineInv'
<1> USE ProcsFacts DEF PipelineInv
<1>1. CompleteIsDone'
  BY DEF CompleteIsDone
<1>2. IndexPassed'
  <2>1. \A j \in 1..(task'.currStep - 1) : Passed(j)'
    BY DEF IndexPassed, Passed
  <2>2. \A p \in Procs : \A j \in 1..(mem'[p].task.currStep - 1) : Passed(j)'
    BY DEF IndexPassed, Passed
  <2>3. Where' \in InStep \cup {"begin"} => \A j \in 1..(mem'[Worker].k - 1) : Passed(j)'
    BY DEF IndexPassed, Passed
  <2> QED BY <2>1, <2>2, <2>3 DEF IndexPassed
<1>3. ApprovalKnown'
  <2>1. mem[Worker].k \in Steps
    BY MemFacts
  <2> QED BY <2>1 DEF ApprovalKnown, InStep, InDrive, MustApproval
<1>4. StartedIsCounted'
  BY DEF StartedIsCounted
<1>5. StepsInOrder'
  BY DEF StepsInOrder, Passed
<1>6. ApprovedBeforeRun'
  BY DEF ApprovedBeforeRun, MustApproval
<1> QED BY <1>1, <1>2, <1>3, <1>4, <1>5, <1>6

(* The handlers of a session preserve the invariant.                        *)
LEMMA SessionInv ==
  ASSUME TypeOK, TypeOK', PipelineInv, NEW s \in Sessions,
         SessionStart(s) \/ SessionStep(s)
  PROVE  PipelineInv'
<1> USE ProcsFacts, LabelFacts, MemFacts DEF dbVars, runVars, workVars, histVars, bounds
<1> DEFINE Frame ==
      /\ UNCHANGED <<info, wSteps, launches, done, exec>>
      /\ mem'[Worker] = mem[Worker] /\ pc'[Worker] = pc[Worker]
      /\ \A k \in Steps : steps[k].approved => steps'[k].approved
      /\ \A k \in Steps : steps'[k].status = "complete" => steps[k].status = "complete"
      /\ \/ task'.currStep = task.currStep
         \/ task'.currStep = mem[s].task.currStep
      /\ \A p \in Procs : \/ mem'[p].task.currStep = mem[p].task.currStep
                          \/ mem'[p].task.currStep = task.currStep
<1>0. ASSUME Frame PROVE PipelineInv'
  <2>1. Where' = Where
    BY <1>0 DEF Where
  <2>2. mem'[Worker].k = mem[Worker].k /\ mem'[Worker].step = mem[Worker].step
    BY <1>0
  <2>3. \/ task'.currStep = task.currStep
        \/ \E p \in Procs : task'.currStep = mem[p].task.currStep
    BY <1>0
  <2>4. \A k \in Steps : exec'[k] = exec[k] \/ (exec'[k] = "killed" /\ exec[k] # "none")
    <3>1. exec' = exec
      BY <1>0
    <3> QED BY <3>1, Zenon
  <2>5. UNCHANGED <<info, wSteps, launches, done>>
    BY <1>0
  <2> QED BY <1>0, <2>1, <2>2, <2>3, <2>4, <2>5, Harmless
<1>01. ASSUME NEW status \in StepStatuses \ {"complete"}, NEW msg \in BOOLEAN,
              ChangeStep(s, status, msg, "over")
       PROVE  /\ \A k \in Steps : steps[k].approved => steps'[k].approved
              /\ \A k \in Steps : steps'[k].status = "complete" => steps[k].status = "complete"
              /\ \A p \in Procs : mem'[p].task.currStep = mem[p].task.currStep
              /\ mem'[Worker] = mem[Worker] /\ pc'[Worker] = pc[Worker]
  <2>1. "over" \in Labels \ {"task", "env"}
    OBVIOUS
  <2> QED BY <1>01, <2>1, ChangeStepEffect
<1>1. ASSUME NEW call, AnswerCheck(s, call) PROVE Frame
  BY <1>1 DEF AnswerCheck, Goto, TypeOK
<1>2. CASE AbortRead(s)
  <2> DEFINE k == task.currStep
             new == [mem[s] EXCEPT !.task = task, !.step = steps[k], !.k = k]
  <2>1. mem' = [mem EXCEPT ![s] = new] /\ new.task = task
    BY <1>2 DEF AbortRead, MemRow
  <2>2. pc'[Worker] = pc[Worker]
    BY <1>2 DEF AbortRead, Goto, TypeOK
  <2> HIDE DEF new
  <2>3. Frame
    BY <1>2, <2>1, <2>2 DEF AbortRead, TypeOK
  <2> QED BY <2>3, <1>0
<1>3. CASE Sign(s)
  <2>1. Frame
    BY <1>3 DEF Sign, Goto, TypeOK, StepRow
  <2> QED BY <2>1, <1>0
<1>4. CASE Reread(s)
  <2> DEFINE new == [mem[s] EXCEPT !.step = steps[mem[s].k], !.task = task]
  <2>1. mem' = [mem EXCEPT ![s] = new] /\ new.task = task
    BY <1>4 DEF Reread, MemRow
  <2> HIDE DEF new
  <2>3. Frame
    BY <1>4, <2>1 DEF Reread, Goto, TypeOK
  <2> QED BY <2>3, <1>0
<1>5. CASE Grant(s)
  <2>1. ChangeStep(s, "pending", FALSE, "over")
    BY <1>5 DEF Grant
  <2>2. Frame
    BY <1>5, <2>1, <1>01 DEF Grant
  <2> QED BY <2>2, <1>0
<1>6. CASE Refuse(s)
  <2>1. ChangeStep(s, "rejected", TRUE, "over")
    BY <1>6 DEF Refuse
  <2>2. Frame
    BY <1>6, <2>1, <1>01 DEF Refuse
  <2> QED BY <2>2, <1>0
<1>7. ASSUME NEW row \in TaskRow, NEW copy \in TaskRow
      PROVE  Overlay(row, copy).currStep \in {row.currStep, copy.currStep}
  BY DEF Overlay
<1>8. CASE AbortPending(s)
  <2> DEFINE copy == [mem[s].task EXCEPT !.status = "aborted"]
  <2>1. copy \in TaskRow /\ copy.currStep = mem[s].task.currStep
    BY DEF TaskRow, TaskStatuses
  <2>2. task' = Overlay(task, copy)
    BY <1>8 DEF AbortPending
  <2> HIDE DEF copy
  <2>3. Frame
    BY <1>8, <1>7, <2>1, <2>2 DEF AbortPending, Goto, TypeOK
  <2> QED BY <2>3, <1>0
<1>9. CASE AbortApproving(s) \/ AbortRunning(s)
  <2> DEFINE copy == [mem[s].task EXCEPT !.aborting = TRUE]
  <2>1. copy \in TaskRow /\ copy.currStep = mem[s].task.currStep
    BY DEF TaskRow
  <2>2. task' = Overlay(task, copy)
    BY <1>9 DEF AbortApproving, AbortRunning
  <2> HIDE DEF copy
  <2>3. task'.currStep \in {task.currStep, mem[s].task.currStep}
    BY <1>7, <2>1, <2>2 DEF TypeOK
  <2>4. CASE AbortApproving(s)
    <3>1. ChangeStep(s, "aborted", TRUE, "over")
      BY <2>4 DEF AbortApproving
    <3>2. Frame
      BY <2>3, <2>4, <3>1, <1>01 DEF AbortApproving
    <3> QED BY <3>2, <1>0
  <2>5. CASE AbortRunning(s)
    <3>1. Frame
      BY <2>3, <2>5 DEF AbortRunning, Goto, TypeOK
    <3> QED BY <3>1, <1>0
  <2> QED BY <1>9, <2>4, <2>5
<1>10. CASE AbortSend(s)
  <2>1. Frame
    BY <1>10 DEF AbortSend, Goto, TypeOK, TaskRow
  <2> QED BY <2>1, <1>0
<1>11. CASE WriteTask(s)
  <2>1. CASE ChangeTask(s, StepToTask(mem[s].step.status), mem[s].ret)
    <3>1. Frame
      BY <1>11, <2>1, ChangeTaskEffect DEF WriteTask
    <3> QED BY <3>1, <1>0
  <2>2. CASE Goto(s, mem[s].ret) /\ UNCHANGED <<task, mem>>
    <3>1. Frame
      BY <1>11, <2>2 DEF WriteTask, Goto, TypeOK
    <3> QED BY <3>1, <1>0
  <2> QED BY <1>11, <2>1, <2>2 DEF WriteTask
<1>12. CASE WriteEnv(s)
  <2>1. Frame
    BY <1>12 DEF WriteEnv, Goto, TypeOK
  <2> QED BY <2>1, <1>0
<1> QED BY <1>0, <1>1, <1>2, <1>3, <1>4, <1>5, <1>6, <1>8, <1>9, <1>10, <1>11, <1>12
           DEF SessionStart, SessionStep

(* What a step of the worker inside a step of the flow may do: the copy     *)
(* learns only what the rows or the runner say, and only the step it works  *)
(* at, once approved if it must be, is launched.                            *)
LEMMA Progress ==
  ASSUME TypeOK, TypeOK', PipelineInv, NEW k, k = mem[Worker].k,
         Where \in InStep, Where' \in InStep,
         Where' \in InDrive => Where \in InDrive \/ (MustApproval(k) => steps[k].approved),
         task'.currStep = task.currStep, UNCHANGED <<wSteps, done>>,
         mem'[Worker].k = k,
         \A p \in Procs : mem'[p].task.currStep = mem[p].task.currStep,
         mem'[Worker].step.approved => mem[Worker].step.approved \/ steps[k].approved,
         mem'[Worker].step.status = "complete" => k \in done,
         \A j \in Steps : steps'[j].approved = steps[j].approved,
         \A j \in Steps : steps'[j].status = "complete" => j \in done,
         \A j \in Steps : exec'[j] = "ok" => exec[j] = "ok",
         \A j \in Steps : info'[j] = "ok" => info[j] = "ok",
         \A j \in Steps : exec'[j] # "none" => exec[j] # "none" \/ launches'[j] > 0,
         \A j \in Steps : launches[j] > 0 => launches'[j] > 0,
         \A j \in Steps : launches'[j] > 0 => launches[j] > 0 \/ (j = k /\ Where \in InDrive)
  PROVE  PipelineInv'
<1> USE ProcsFacts DEF PipelineInv
<1>0. k \in Steps
  BY MemFacts
<1>1. CompleteIsDone'
  BY DEF CompleteIsDone
<1>2. IndexPassed'
  <2>1. \A j \in 1..(task'.currStep - 1) : Passed(j)'
    BY DEF IndexPassed, Passed
  <2>2. \A p \in Procs : \A j \in 1..(mem'[p].task.currStep - 1) : Passed(j)'
    BY DEF IndexPassed, Passed
  <2>3. \A j \in 1..(mem'[Worker].k - 1) : Passed(j)'
    BY DEF IndexPassed, Passed
  <2> QED BY <2>1, <2>2, <2>3 DEF IndexPassed
<1>3. ApprovalKnown'
  <2>1. \A j \in Steps : wSteps'[j].approved => steps'[j].approved
    BY DEF ApprovalKnown
  <2>2. mem'[Worker].step.approved => steps'[mem'[Worker].k].approved
    BY <1>0 DEF ApprovalKnown
  <2>3. Where' \in InDrive /\ MustApproval(mem'[Worker].k) => steps'[mem'[Worker].k].approved
    BY <1>0 DEF ApprovalKnown
  <2> QED BY <2>1, <2>2, <2>3 DEF ApprovalKnown, MustApproval
<1>4. StartedIsCounted'
  BY DEF StartedIsCounted
<1>5. StepsInOrder'
  <2>1. \A j \in 1..(k - 1) : Passed(j)
    BY DEF IndexPassed
  <2> QED BY <2>1 DEF StepsInOrder, Passed
<1>6. ApprovedBeforeRun'
  <2>1. Where \in InDrive /\ MustApproval(k) => steps[k].approved
    BY DEF ApprovalKnown
  <2> QED BY <2>1 DEF ApprovedBeforeRun, MustApproval
<1> QED BY <1>1, <1>2, <1>3, <1>4, <1>5, <1>6

(* A change of status by the worker, inside a step, preserves the invariant *)
(* when complete is said only of a step whose command succeeded.            *)
LEMMA ChangeStepInv ==
  ASSUME TypeOK, TypeOK', PipelineInv,
         NEW k, k = mem[Worker].k,
         NEW status \in StepStatuses, NEW msg \in BOOLEAN, NEW ret \in InStep,
         ChangeStep(Worker, status, msg, ret),
         status = "complete" => k \in done,
         Where \in InStep, ret \in InDrive => Where \in InDrive,
         UNCHANGED <<task, wSteps, done>>,
         \A j \in Steps : exec'[j] = "ok" => exec[j] = "ok",
         \A j \in Steps : info'[j] = "ok" => info[j] = "ok",
         \A j \in Steps : exec'[j] # "none" => exec[j] # "none" \/ launches'[j] > 0,
         \A j \in Steps : launches[j] > 0 => launches'[j] > 0,
         \A j \in Steps : launches'[j] > 0 => launches[j] > 0 \/ (j = k /\ Where \in InDrive)
  PROVE  PipelineInv'
<1>1. ret \in Labels \ {"task", "env"}
  BY LabelFacts DEF InStep, InDrive
<1>2. /\ \A j \in Steps : steps'[j].approved = steps[j].approved
      /\ \A j \in Steps : \/ steps'[j].status = steps[j].status
                          \/ j = k /\ steps'[j].status = status
      /\ \A q \in Procs : mem'[q].k = mem[q].k /\ mem'[q].task = mem[q].task
      /\ mem'[Worker].step.approved = mem[Worker].step.approved
      /\ mem'[Worker].step.status = status
      /\ Where' = ret
  BY <1>1, ChangeStepEffect, ProcsFacts
<1>3. \A j \in Steps : steps'[j].status = "complete" => j \in done
  BY <1>2 DEF PipelineInv, CompleteIsDone
<1>4. task'.currStep = task.currStep /\ mem'[Worker].k = k
  BY <1>2, ProcsFacts
<1> QED BY <1>2, <1>3, <1>4, Progress, ProcsFacts

(* Launch, by the worker's call, starts only the step it works at.          *)
LEMMA LaunchEffect ==
  ASSUME TypeOK, NEW k, k = mem[Worker].k, Launch(k)
  PROVE  /\ \A j \in Steps : exec'[j] = "ok" => exec[j] = "ok"
         /\ \A j \in Steps : info'[j] = "ok" => info[j] = "ok"
         /\ \A j \in Steps : exec'[j] # "none" => exec[j] # "none" \/ launches'[j] > 0
         /\ \A j \in Steps : launches[j] > 0 => launches'[j] > 0
         /\ \A j \in Steps : launches'[j] > 0 => launches[j] > 0 \/ j = k
<1>1. k \in Steps
  BY MemFacts, ProcsFacts
<1>0. \A j \in Steps : info'[j] = "ok" => info[j] = "ok"
  BY <1>1 DEF Launch, TypeOK
<1>2. CASE control
  BY <1>0, <1>2 DEF Launch
<1>3. CASE ~control
  <2> DEFINE n == IF launches[k] = MaxLaunches THEN launches[k] ELSE launches[k] + 1
  <2>1. n > 0
    BY <1>1 DEF MaxLaunches, TypeOK
  <2>2. exec' = [exec EXCEPT ![k] = "running"] /\ launches' = [launches EXCEPT ![k] = n]
    BY <1>3 DEF Launch
  <2> HIDE DEF n
  <2> QED BY <1>0, <1>1, <2>1, <2>2 DEF TypeOK
<1> QED BY <1>2, <1>3

(* Dispatch, recovery, the start of a step and the end of the run preserve  *)
(* the invariant.                                                           *)
LEMMA DispatchInv ==
  ASSUME TypeOK, TypeOK', PipelineInv,
         \/ Boot \/ PickPending \/ Enter \/ LoadSteps \/ StartFailed \/ BeginStep
         \/ Judge \/ AfterSteps \/ LastStep \/ WriteTask(Worker) \/ WriteEnv(Worker)
  PROVE  PipelineInv'
<1> USE ProcsFacts, LabelFacts, MemFacts DEF dbVars, runVars, workVars, histVars, bounds
<1> DEFINE Away == Where' \notin InStep \cup {"begin"}
<1>1. ASSUME StartWorker
      PROVE  /\ Away
             /\ \A p \in Procs : mem'[p].task.currStep \in {mem[p].task.currStep, task.currStep}
  <2> DEFINE new == [mem[Worker] EXCEPT !.task = task]
  <2>1. mem' = [mem EXCEPT ![Worker] = new] /\ new.task = task
    BY <1>1 DEF StartWorker, MemRow
  <2>2. pc'[Worker] = "enter"
    BY <1>1 DEF StartWorker, Goto, TypeOK
  <2> HIDE DEF new
  <2> QED BY <2>1, <2>2 DEF Where, InStep, InDrive, TypeOK
<1>2. CASE Boot
  <2>1. CASE StartWorker
    BY <1>2, <2>1, <1>1, Harmless DEF Boot
  <2>2. CASE UNCHANGED <<mem, pc>>
    BY <1>2, <2>2, Harmless DEF Boot, Where
  <2> QED BY <1>2, <2>1, <2>2 DEF Boot
<1>3. CASE PickPending
  BY <1>3, <1>1, Harmless DEF PickPending
<1>4. ASSUME NEW status, NEW ret \in {"load", "off"}, ChangeTask(Worker, status, ret),
             UNCHANGED <<steps, exec, info, wSteps, launches, done>>
      PROVE  PipelineInv'
  <2>1. Away
    BY <1>4, ChangeTaskEffect DEF Where, InStep, InDrive
  <2> QED BY <2>1, <1>4, ChangeTaskEffect, Harmless
<1>5. CASE Enter
  <2>1. CASE Goto(Worker, "load") /\ UNCHANGED <<task, mem>>
    <3>1. Away
      BY <2>1 DEF Goto, Where, InStep, InDrive, TypeOK
    <3> QED BY <1>5, <2>1, <3>1, Harmless DEF Enter
  <2> QED BY <1>5, <1>4, <2>1 DEF Enter
<1>6. CASE StartFailed
  BY <1>6, <1>4 DEF StartFailed
<1>7. CASE AfterSteps
  <2> DEFINE new == [mem[Worker] EXCEPT !.task = task]
  <2>1. mem' = [mem EXCEPT ![Worker] = new] /\ new.task = task
    BY <1>7 DEF AfterSteps, MemRow
  <2>2. Away
    BY <1>7 DEF AfterSteps, Goto, Where, InStep, InDrive, TypeOK
  <2> HIDE DEF new
  <2>3. \A p \in Procs : mem'[p].task.currStep \in {mem[p].task.currStep, task.currStep}
    BY <2>1 DEF TypeOK
  <2>4. \A k \in Steps : exec'[k] = exec[k] \/ (exec'[k] = "killed" /\ exec[k] # "none")
    BY <1>7 DEF AfterSteps
  <2> QED BY <1>7, <2>2, <2>3, <2>4, Harmless DEF AfterSteps
<1>8. CASE LastStep
  <2> DEFINE k == mem[Worker].task.currStep
             new == [mem[Worker] EXCEPT !.step = steps[k], !.k = k, !.ret = "off"]
  <2>1. CASE Goto(Worker, "off") /\ UNCHANGED mem
    <3>1. Away
      BY <2>1 DEF Goto, Where, InStep, InDrive, TypeOK
    <3> QED BY <1>8, <2>1, <3>1, Harmless DEF LastStep
  <2>2. CASE mem' = [mem EXCEPT ![Worker] = new] /\ Goto(Worker, "task")
    <3>1. new.task = mem[Worker].task /\ new.ret = "off"
      BY DEF MemRow
    <3> HIDE DEF new
    <3>2. Away
      BY <2>2, <3>1 DEF Goto, Where, InStep, InDrive, TypeOK
    <3>3. \A p \in Procs : mem'[p].task = mem[p].task
      BY <2>2, <3>1 DEF TypeOK
    <3> QED BY <1>8, <3>2, <3>3, Harmless DEF LastStep
  <2> QED BY <1>8, <2>1, <2>2 DEF LastStep
<1>9. CASE WriteTask(Worker)
  <2>1. CASE ChangeTask(Worker, StepToTask(mem[Worker].step.status), mem[Worker].ret)
    <3>1. Where' = Where
      BY <1>9, <2>1, ChangeTaskEffect DEF WriteTask, Where
    <3> QED BY <1>9, <2>1, <3>1, ChangeTaskEffect, Harmless DEF WriteTask
  <2>2. CASE Goto(Worker, mem[Worker].ret) /\ UNCHANGED <<task, mem>>
    <3>1. Where' = Where
      BY <1>9, <2>2 DEF WriteTask, Goto, Where, TypeOK
    <3> QED BY <1>9, <2>2, <3>1, Harmless DEF WriteTask
  <2> QED BY <1>9, <2>1, <2>2 DEF WriteTask
<1>10. CASE WriteEnv(Worker)
  <2>1. Where' = Where
    BY <1>10 DEF WriteEnv, Goto, Where, TypeOK
  <2> QED BY <1>10, <2>1, Harmless DEF WriteEnv
<1>11. ASSUME NEW i \in Steps, mem' = [mem EXCEPT ![Worker].k = i], Goto(Worker, "begin"),
              \A j \in 1..(i - 1) : Passed(j),
              \A j \in Steps : wSteps'[j].status = "complete" => j \in done,
              \A j \in Steps : wSteps'[j].approved => steps[j].approved,
              UNCHANGED <<task, steps, exec, info, launches, done>>
       PROVE  PipelineInv'
  <2>1. Where' = "begin"
    BY <1>11 DEF Goto, Where, TypeOK
  <2>2. /\ \A p \in Procs : mem'[p].task = mem[p].task
        /\ mem'[Worker].k = i
    BY <1>11 DEF TypeOK, MemRow
  <2>3. CompleteIsDone'
    BY <1>11, <2>1 DEF PipelineInv, CompleteIsDone, InStep, InDrive
  <2>4. IndexPassed'
    <3>1. \A j \in 1..(task'.currStep - 1) : Passed(j)'
      BY <1>11 DEF PipelineInv, IndexPassed, Passed
    <3>2. \A p \in Procs : \A j \in 1..(mem'[p].task.currStep - 1) : Passed(j)'
      BY <1>11, <2>2 DEF PipelineInv, IndexPassed, Passed
    <3>3. \A j \in 1..(mem'[Worker].k - 1) : Passed(j)'
      BY <1>11, <2>2 DEF Passed
    <3> QED BY <3>1, <3>2, <3>3 DEF IndexPassed
  <2>5. ApprovalKnown'
    BY <1>11, <2>1 DEF PipelineInv, ApprovalKnown, InStep, InDrive
  <2>6. StartedIsCounted' /\ StepsInOrder' /\ ApprovedBeforeRun'
    BY <1>11 DEF PipelineInv, StartedIsCounted, StepsInOrder, ApprovedBeforeRun,
                 Passed, MustApproval
  <2> QED BY <2>3, <2>4, <2>5, <2>6 DEF PipelineInv
<1>12. CASE LoadSteps
  <2>1. \A j \in 1..(mem[Worker].task.currStep - 1) : Passed(j)
    BY DEF PipelineInv, IndexPassed
  <2>2. \A j \in Steps : wSteps'[j].status = "complete" => j \in done
    BY <1>12 DEF LoadSteps, PipelineInv, CompleteIsDone
  <2> QED BY <1>11, <1>12, <2>1, <2>2 DEF LoadSteps
<1>13. CASE Judge
  <2> DEFINE k == mem[Worker].k
  <2>1. CASE /\ mem[Worker].step.status = "complete" \/ IsTolerated(k)
             /\ k < Len(Flow)
    <3>1. Where = "judge" /\ k + 1 \in Steps
      BY <1>13, <2>1 DEF Judge, Where, Steps
    <3>2. Passed(k)
      BY <2>1, <3>1 DEF PipelineInv, CompleteIsDone, InStep, InDrive, Passed
    <3>3. \A j \in 1..(k - 1) : Passed(j)
      BY <3>1 DEF PipelineInv, IndexPassed, InStep, InDrive
    <3>4. PICK i \in Steps : i = k + 1
      BY <3>1
    <3>5. \A j \in 1..(i - 1) : Passed(j)
      <4>1. k \in Nat
        BY MemFacts, StepsFacts
      <4>2. \A j \in 1..(i - 1) : j = k \/ j \in 1..(k - 1)
        <5> HIDE DEF k
        <5> QED BY <3>4, <4>1
      <4> QED BY <3>2, <3>3, <4>2
    <3>6. /\ \A j \in Steps : wSteps'[j].status = "complete" => j \in done
          /\ \A j \in Steps : wSteps'[j].approved => steps[j].approved
      BY <1>13 DEF Judge, PipelineInv, CompleteIsDone, ApprovalKnown
    <3>7. /\ mem' = [mem EXCEPT ![Worker].k = i] /\ Goto(Worker, "begin")
          /\ UNCHANGED <<task, steps, exec, info, launches, done>>
      BY <1>13, <2>1, <3>4 DEF Judge
    <3> QED BY <1>11, <3>5, <3>6, <3>7
  <2>2. CASE Goto(Worker, "after") /\ UNCHANGED mem
    <3>1. Away
      BY <2>2 DEF Goto, Where, InStep, InDrive, TypeOK
    <3> QED BY <1>13, <2>2, <3>1, Harmless DEF Judge
  <2> QED BY <1>13, <2>1, <2>2 DEF Judge
<1>14. CASE BeginStep
  <2> DEFINE k == mem[Worker].k
             new == [mem[Worker] EXCEPT !.task.currStep = k, !.step = wSteps[k]]
  <2>1. /\ task' = [task EXCEPT !.currStep = k] /\ mem' = [mem EXCEPT ![Worker] = new]
        /\ UNCHANGED <<steps, exec, info, wSteps, launches, done>>
    BY <1>14 DEF BeginStep
  <2>2. new.k = k /\ new.step = wSteps[k] /\ new.task.currStep = k
    BY DEF MemRow, TaskRow
  <2> HIDE DEF new
  <2>3. /\ mem'[Worker].k = k /\ mem'[Worker].step = wSteps[k]
        /\ mem'[Worker].task.currStep = k
        /\ \A p \in Procs \ {Worker} : mem'[p] = mem[p]
    BY <2>1, <2>2 DEF TypeOK
  <2>4. Where = "begin" /\ Where' = "gate" /\ task'.currStep = k /\ k \in Steps
    BY <1>14, <2>1 DEF BeginStep, Goto, Where, TypeOK, TaskRow
  <2>5. \A j \in 1..(k - 1) : Passed(j)
    BY <2>4 DEF PipelineInv, IndexPassed
  <2>6. CompleteIsDone'
    BY <2>1, <2>3, <2>4 DEF PipelineInv, CompleteIsDone, InStep, InDrive
  <2>7. IndexPassed'
    <3>1. \A j \in 1..(task'.currStep - 1) : Passed(j)'
      BY <2>1, <2>4, <2>5 DEF Passed
    <3>2. \A p \in Procs : \A j \in 1..(mem'[p].task.currStep - 1) : Passed(j)'
      BY <2>1, <2>3, <2>5 DEF PipelineInv, IndexPassed, Passed
    <3>3. \A j \in 1..(mem'[Worker].k - 1) : Passed(j)'
      BY <2>1, <2>3, <2>5 DEF Passed
    <3> QED BY <3>1, <3>2, <3>3 DEF IndexPassed
  <2>8. ApprovalKnown'
    BY <2>1, <2>3, <2>4 DEF PipelineInv, ApprovalKnown, InStep, InDrive
  <2>9. StartedIsCounted' /\ StepsInOrder' /\ ApprovedBeforeRun'
    BY <2>1 DEF PipelineInv, StartedIsCounted, StepsInOrder, ApprovedBeforeRun,
                Passed, MustApproval
  <2> QED BY <2>6, <2>7, <2>8, <2>9 DEF PipelineInv
<1> QED BY <1>2, <1>3, <1>5, <1>6, <1>7, <1>8, <1>9, <1>10, <1>12, <1>13, <1>14

(* The worker's actions inside a step preserve the invariant.               *)
LEMMA StepActionInv ==
  ASSUME TypeOK, TypeOK', PipelineInv,
         Gate \/ PollApproval \/ Drive \/ CallRunner \/ SaveContainer \/ CallFails
         \/ Watch \/ WatchFails \/ Settle
  PROVE  PipelineInv'
<1> USE ProcsFacts, LabelFacts, MemFacts DEF dbVars, runVars, workVars, histVars, bounds
<1> DEFINE k == mem[Worker].k
<1>0. /\ Where \in InStep => (mem[Worker].step.status = "complete" => k \in done)
      /\ \A j \in Steps : steps[j].status = "complete" => j \in done
      /\ Where \in InStep => (mem[Worker].step.approved => steps[k].approved)
  BY DEF PipelineInv, CompleteIsDone, ApprovalKnown
<1>1. ASSUME NEW label \in InStep, Goto(Worker, label), UNCHANGED <<steps, mem>>,
             task'.currStep = task.currStep, UNCHANGED <<wSteps, done>>,
             Where \in InStep, label \in InDrive => Where \in InDrive,
             \A j \in Steps : exec'[j] = "ok" => exec[j] = "ok",
             \A j \in Steps : info'[j] = "ok" => info[j] = "ok",
             \A j \in Steps : exec'[j] # "none" => exec[j] # "none" \/ launches'[j] > 0,
             \A j \in Steps : launches[j] > 0 => launches'[j] > 0,
             \A j \in Steps : launches'[j] > 0 => launches[j] > 0 \/ (j = k /\ Where \in InDrive)
      PROVE  PipelineInv'
  <2>1. Where' = label
    BY <1>1 DEF Goto, Where, TypeOK, InStep, InDrive
  <2> QED BY <1>0, <1>1, <2>1, Progress
<1>2. ASSUME NEW status \in StepStatuses, NEW msg \in BOOLEAN, NEW ret \in InStep,
             ChangeStep(Worker, status, msg, ret), status = "complete" => k \in done,
             Where \in InStep, ret \in InDrive => Where \in InDrive,
             UNCHANGED <<task, exec, info, wSteps, launches, done>>
      PROVE  PipelineInv'
  BY <1>2, ChangeStepInv
<1>3. {"gate", "poll"} \subseteq InStep /\ InDrive \subseteq InStep
      /\ InDrive = {"drive", "call", "saveCid", "watch", "settle", "judge"}
  BY DEF InStep, InDrive
<1>4. CASE Gate
  <2>1. Where = "gate"
    BY <1>4 DEF Gate, Where
  <2>2. CASE ChangeStep(Worker, "approving", FALSE, "poll")
    <3>1. "poll" \in InStep /\ "poll" \notin InDrive
      BY DEF InStep, InDrive
    <3> QED BY <1>2, <1>3, <1>4, <2>1, <2>2, <3>1 DEF Gate
  <2>3. CASE ~(MustApproval(k) /\ ~(mem[Worker].step.approved
                                    /\ mem[Worker].step.status # "rejected"))
    <3>1. MustApproval(k) => steps[k].approved
      BY <1>0, <1>3, <2>1, <2>3
    <3>2. Goto(Worker, "drive") /\ UNCHANGED <<steps, mem>>
      BY <1>4, <2>3 DEF Gate
    <3>3. Where' = "drive"
      BY <3>2 DEF Goto, Where, TypeOK
    <3> QED BY <1>0, <1>3, <1>4, <2>1, <3>1, <3>2, <3>3, Progress DEF Gate
  <2> QED BY <1>4, <2>2, <2>3 DEF Gate
<1>5. CASE PollApproval
  <2>1. Where = "poll"
    BY <1>5 DEF PollApproval, Where
  <2>2. CASE Goto(Worker, "after") /\ UNCHANGED mem
    <3>1. Where' \notin InStep \cup {"begin"}
      BY <2>2 DEF Goto, Where, InStep, InDrive, TypeOK
    <3> QED BY <1>5, <2>2, <3>1, Harmless DEF PollApproval
  <2>3. CASE /\ steps[k].approved /\ Goto(Worker, "drive")
             /\ mem' = [mem EXCEPT ![Worker].step = steps[k]]
    <3>1. Where' = "drive"
      BY <2>3 DEF Goto, Where, TypeOK
    <3>2. /\ mem'[Worker].k = k /\ mem'[Worker].step = steps[k]
          /\ \A p \in Procs : mem'[p].task = mem[p].task
      BY <2>3 DEF TypeOK, MemRow
    <3> QED BY <1>0, <1>3, <1>5, <2>1, <2>3, <3>1, <3>2, Progress DEF PollApproval
  <2> QED BY <1>5, <2>2, <2>3 DEF PollApproval
<1>6. CASE Drive
  <2>1. Where = "drive"
    BY <1>6 DEF Drive, Where
  <2> QED BY <1>1, <1>2, <1>3, <1>6, <2>1 DEF Drive
<1>7. CASE CallRunner
  <2>1. Where = "call"
    BY <1>7 DEF CallRunner, Where
  <2>2. CASE CanStart
    <3>1. Launch(k)
      BY <1>7, <2>2 DEF CallRunner
    <3>2. CASE ChangeStep(Worker, "aborted", TRUE, "judge")
      BY <1>3, <1>7, <2>1, <3>1, <3>2, LaunchEffect, ChangeStepInv DEF CallRunner
    <3>3. CASE Goto(Worker, IF mem[Worker].task.cid THEN "drive" ELSE "saveCid")
               /\ UNCHANGED <<steps, mem>>
      BY <1>1, <1>3, <1>7, <2>1, <3>1, <3>3, LaunchEffect DEF CallRunner
    <3> QED BY <1>7, <2>2, <3>2, <3>3 DEF CallRunner
  <2>3. CASE ~CanStart
    BY <1>2, <1>3, <1>7, <2>1, <2>3 DEF CallRunner
  <2> QED BY <2>2, <2>3
<1>8. CASE SaveContainer
  <2>1. Where = "saveCid" /\ task'.currStep = task.currStep
    BY <1>8 DEF SaveContainer, Where, TypeOK, TaskRow
  <2> QED BY <1>1, <1>3, <1>8, <2>1 DEF SaveContainer
<1>9. CASE CallFails
  <2>1. Where = "call"
    BY <1>9 DEF CallFails, Where
  <2>2. /\ \A j \in Steps : exec'[j] = "ok" => exec[j] = "ok"
        /\ \A j \in Steps : info'[j] = "ok" => info[j] = "ok"
        /\ \A j \in Steps : exec'[j] # "none" => exec[j] # "none" \/ launches'[j] > 0
        /\ \A j \in Steps : launches[j] > 0 => launches'[j] > 0
        /\ \A j \in Steps : launches'[j] > 0 => launches[j] > 0 \/ j = k
    BY <1>9, LaunchEffect DEF CallFails
  <2>3. CASE ChangeStep(Worker, "failed", TRUE, "judge")
    BY <1>3, <1>9, <2>1, <2>2, <2>3, ChangeStepInv DEF CallFails
  <2>4. CASE Goto(Worker, "drive") /\ UNCHANGED <<steps, mem>>
    BY <1>1, <1>3, <1>9, <2>1, <2>2, <2>4 DEF CallFails
  <2>5. CASE /\ steps' = [steps EXCEPT ![k] =
                  [Mark(@, "pending", TRUE) EXCEPT !.retryNumber = retried + 1]]
             /\ mem' = [mem EXCEPT ![Worker] =
                  [mem[Worker] EXCEPT !.step = Mark(mem[Worker].step, "pending", TRUE),
                                      !.ret = "drive"]]
             /\ Goto(Worker, "task")
    <3> DEFINE row == [Mark(steps[k], "pending", TRUE) EXCEPT !.retryNumber = retried + 1]
               new == [mem[Worker] EXCEPT !.step = Mark(mem[Worker].step, "pending", TRUE),
                                          !.ret = "drive"]
    <3>1. row.status = "pending" /\ row.approved = steps[k].approved
      <4>1. ASSUME NEW r \in StepRow
            PROVE  /\ [r EXCEPT !.retryNumber = retried + 1].status = r.status
                   /\ [r EXCEPT !.retryNumber = retried + 1].approved = r.approved
        BY DEF StepRow
      <4>2. /\ Mark(steps[k], "pending", TRUE) \in StepRow
            /\ Mark(steps[k], "pending", TRUE).status = "pending"
            /\ Mark(steps[k], "pending", TRUE).approved = steps[k].approved
        BY MarkType
      <4> QED BY <4>1, <4>2
    <3>2. /\ new.k = k /\ new.task = mem[Worker].task /\ new.ret = "drive"
          /\ new.step = Mark(mem[Worker].step, "pending", TRUE)
      BY DEF MemRow
    <3>3. steps' = [steps EXCEPT ![k] = row] /\ mem' = [mem EXCEPT ![Worker] = new]
      BY <2>5
    <3> HIDE DEF row, new
    <3>4. /\ \A j \in Steps : steps'[j].approved = steps[j].approved
          /\ \A j \in Steps : steps'[j].status = "complete" => j \in done
      BY <1>0, <3>1, <3>3 DEF TypeOK
    <3>5. /\ mem'[Worker] = new
          /\ \A p \in Procs : mem'[p].task.currStep = mem[p].task.currStep
      BY <3>2, <3>3 DEF TypeOK
    <3>6. Where' = "drive"
      BY <2>5, <3>2, <3>5 DEF Goto, Where, TypeOK
    <3>7. /\ mem'[Worker].step.approved = mem[Worker].step.approved
          /\ mem'[Worker].step.status = "pending"
      <4>1. /\ Mark(mem[Worker].step, "pending", TRUE).status = "pending"
            /\ Mark(mem[Worker].step, "pending", TRUE).approved = mem[Worker].step.approved
        BY MarkType, ZenonT(60)
      <4> QED BY <3>2, <3>5, <4>1
    <3> QED BY <1>3, <1>9, <2>1, <2>2, <3>2, <3>4, <3>5, <3>6, <3>7, Progress DEF CallFails
  <2> QED BY <1>9, <2>3, <2>4, <2>5 DEF CallFails
<1>10. CASE Watch
  <2>1. Where = "watch" /\ (ExitState(k) = "ok" => k \in done)
    BY <1>10 DEF Watch, Where, PipelineInv, CompleteIsDone, ExitState
  <2> QED BY <1>2, <1>3, <1>10, <2>1 DEF Watch
<1>11. CASE WatchFails
  <2>1. Where = "watch"
    BY <1>11 DEF WatchFails, Where
  <2> QED BY <1>2, <1>3, <1>11, <2>1 DEF WatchFails
<1>12. CASE Settle
  <2>1. Where = "settle"
    BY <1>12 DEF Settle, Where
  <2> QED BY <1>1, <1>2, <1>3, <1>12, <2>1 DEF Settle
<1> QED BY <1>4, <1>5, <1>6, <1>7, <1>8, <1>9, <1>10, <1>11, <1>12

(* The end of a command and a crash preserve the invariant.                 *)
LEMMA RestInv ==
  ASSUME TypeOK, TypeOK', PipelineInv,
         Crash \/ \E k \in Steps : ExecEnds(k) \/ SaveExit(k)
  PROVE  PipelineInv'
<1> USE ProcsFacts DEF dbVars, runVars, workVars, histVars, bounds
<1>1. CASE Crash
  <2>1. Where' \notin InStep \cup {"begin"}
    BY <1>1 DEF Crash, Where, InStep, InDrive
  <2> QED BY <1>1, <2>1, Harmless DEF Crash
<1>2. ASSUME NEW k \in Steps, ExecEnds(k) PROVE PipelineInv'
  <2>1. PICK end \in {"ok", "fail", "killed"} :
             /\ exec' = [exec EXCEPT ![k] = end]
             /\ done' = IF end = "ok" THEN done \cup {k} ELSE done
    BY <1>2 DEF ExecEnds
  <2>2. UNCHANGED <<task, steps, info, mem, pc, wSteps, launches>> /\ exec[k] = "running"
    BY <1>2 DEF ExecEnds
  <2>3. \A j \in Steps : exec'[j] = "ok" => exec[j] = "ok" \/ j \in done'
    BY <2>1 DEF TypeOK
  <2>4. \A j \in Steps : exec'[j] # "none" => exec[j] # "none"
    BY <2>1, <2>2 DEF TypeOK
  <2>5. done \subseteq done' /\ Where' = Where
    BY <2>1, <2>2 DEF Where
  <2>6. CompleteIsDone'
    BY <2>2, <2>3, <2>5 DEF PipelineInv, CompleteIsDone
  <2>7. IndexPassed'
    BY <2>2, <2>5 DEF PipelineInv, IndexPassed, Passed
  <2>8. ApprovalKnown' /\ StartedIsCounted' /\ StepsInOrder' /\ ApprovedBeforeRun'
    BY <2>2, <2>4, <2>5 DEF PipelineInv, ApprovalKnown, StartedIsCounted, StepsInOrder,
                            ApprovedBeforeRun, Passed, MustApproval
  <2> QED BY <2>6, <2>7, <2>8 DEF PipelineInv
<1>3. ASSUME NEW k \in Steps, SaveExit(k) PROVE PipelineInv'
  <2>1. UNCHANGED <<task, steps, exec, mem, pc, wSteps, launches, done>>
    BY <1>3 DEF SaveExit
  <2>2. Where' = Where
    BY <2>1 DEF Where
  <2>3. \A j \in Steps : info'[j] = info[j] \/ info'[j] = exec[j]
    BY <1>3 DEF SaveExit, TypeOK
  <2>4. CompleteIsDone'
    BY <2>1, <2>2, <2>3 DEF PipelineInv, CompleteIsDone
  <2>5. IndexPassed'
    BY <2>1, <2>2 DEF PipelineInv, IndexPassed, Passed
  <2>6. ApprovalKnown' /\ StartedIsCounted' /\ StepsInOrder' /\ ApprovedBeforeRun'
    BY <2>1, <2>2 DEF PipelineInv, ApprovalKnown, StartedIsCounted, StepsInOrder,
                      ApprovedBeforeRun, Passed, MustApproval
  <2> QED BY <2>4, <2>5, <2>6 DEF PipelineInv
<1> QED BY <1>1, <1>2, <1>3

(* The invariant holds initially.                                           *)
LEMMA InitInv == Init => PipelineInv
<1> SUFFICES ASSUME Init PROVE PipelineInv
  OBVIOUS
<1>1. /\ task.currStep = 1 /\ \A p \in Procs : mem[p].task.currStep = 1
      /\ \A k \in Steps : /\ steps[k].status = "pending" /\ wSteps[k].status = "pending"
                          /\ wSteps[k].approved = FALSE
                          /\ exec[k] = "none" /\ info[k] = "none" /\ launches[k] = 0
  BY DEF Init, NewTask, NewStep
<1>2. Where = "off"
  BY ProcsFacts DEF Init, Where
<1>3. CompleteIsDone /\ ApprovalKnown /\ StartedIsCounted
  BY <1>1, <1>2 DEF CompleteIsDone, ApprovalKnown, StartedIsCounted, InStep, InDrive
<1>4. IndexPassed
  BY <1>1, <1>2 DEF IndexPassed, InStep, InDrive
<1>5. StepsInOrder /\ ApprovedBeforeRun
  BY <1>1 DEF StepsInOrder, ApprovedBeforeRun
<1> QED BY <1>3, <1>4, <1>5 DEF PipelineInv

(* The invariant is preserved by every step.                                *)
LEMMA StepInv == TypeOK /\ PipelineInv /\ [Next]_vars => PipelineInv'
<1> SUFFICES ASSUME TypeOK, PipelineInv, [Next]_vars PROVE PipelineInv'
  OBVIOUS
<1>1. TypeOK'
  BY TypeStep
<1>2. CASE Boot \/ WorkerStep
  BY <1>1, <1>2, DispatchInv, StepActionInv DEF WorkerStep
<1>3. CASE \E s \in Sessions : SessionStart(s) \/ SessionStep(s)
  BY <1>1, <1>3, SessionInv
<1>4. CASE Crash \/ \E k \in Steps : ExecEnds(k) \/ SaveExit(k)
  BY <1>1, <1>4, RestInv
<1>5. CASE UNCHANGED vars
  BY <1>5, ProcsFacts, Harmless, <1>1
     DEF vars, dbVars, runVars, workVars, histVars, bounds, Where
<1> QED BY <1>2, <1>3, <1>4, <1>5 DEF Next

(* The inductive invariant always holds.                                    *)
THEOREM PipelineCorrect == Spec => []PipelineInv
  BY InitType, TypeStep, InitInv, StepInv, PTL DEF Spec

(* No step that needs approval is ever started unapproved.                  *)
THEOREM ApprovalCorrect == Spec => []ApprovedBeforeRun
<1>1. PipelineInv => ApprovedBeforeRun
  BY DEF PipelineInv
<1> QED BY <1>1, PipelineCorrect, PTL

(* Steps are started in the order of the flow, after their predecessors     *)
(* have succeeded.                                                          *)
THEOREM OrderCorrect == Spec => []StepsInOrder
<1>1. PipelineInv => StepsInOrder
  BY DEF PipelineInv
<1> QED BY <1>1, PipelineCorrect, PTL

-----------------------------------------------------------------------------
(* Refinement.                                                              *)

(* Quiet: a step that Pipeline does not see.                                *)
Quiet == /\ \A k \in Steps : steps'[k].approved = steps[k].approved
         /\ UNCHANGED <<launches, done>>

(* A quiet step leaves Pipeline's variables unchanged.                      *)
LEMMA QuietStutters == Quiet => UNCHANGED Pipe!vars
  BY DEF Quiet, Pipe!vars

(* A change of a step's status approves nothing.                            *)
LEMMA ChangeStepQuiet ==
  ASSUME TypeOK, NEW p \in Procs, NEW status, NEW msg, NEW ret, ChangeStep(p, status, msg, ret)
  PROVE  \A k \in Steps : steps'[k].approved = steps[k].approved
<1>1. CASE UNCHANGED steps
  BY <1>1
<1>2. CASE steps' = [steps EXCEPT ![mem[p].k] = Mark(steps[mem[p].k], status, msg)]
  <2>1. Mark(steps[mem[p].k], status, msg).approved = steps[mem[p].k].approved
    BY MemFacts DEF Mark, StepRow
  <2> QED BY <1>2, <2>1, MemFacts DEF TypeOK
<1> QED BY <1>1, <1>2 DEF ChangeStep

(* Every step of the worker but the two that call the runner is quiet.      *)
LEMMA WorkerQuiet ==
  ASSUME TypeOK, Boot \/ WorkerStep, ~CallRunner, ~CallFails
  PROVE  Quiet
<1> USE ProcsFacts DEF Quiet, dbVars, histVars
<1>1. CASE Boot \/ PickPending \/ LoadSteps \/ BeginStep \/ PollApproval \/ Judge
           \/ AfterSteps \/ LastStep \/ SaveContainer
  BY <1>1 DEF Boot, PickPending, LoadSteps, BeginStep, PollApproval, Judge,
              AfterSteps, LastStep, SaveContainer
<1>2. CASE Enter \/ StartFailed \/ WriteTask(Worker) \/ WriteEnv(Worker)
  BY <1>2 DEF Enter, StartFailed, WriteTask, WriteEnv
<1>3. CASE Gate \/ Drive
  BY <1>3, ChangeStepQuiet DEF Gate, Drive
<1>4. CASE Watch \/ WatchFails \/ Settle
  BY <1>4, ChangeStepQuiet DEF Watch, WatchFails, Settle
<1> QED BY <1>1, <1>2, <1>3, <1>4 DEF WorkerStep

(* Every step of a session but the signature of an approval is quiet.       *)
LEMMA SessionQuiet ==
  ASSUME TypeOK, NEW s \in Sessions, SessionStart(s) \/ SessionStep(s), ~Sign(s)
  PROVE  Quiet
<1> USE ProcsFacts DEF Quiet, dbVars, histVars
<1>1. CASE SessionStart(s)
  BY <1>1 DEF SessionStart, AnswerCheck, AbortRead
<1>2. CASE WriteTask(s) \/ WriteEnv(s) \/ Reread(s) \/ AbortPending(s) \/ AbortRunning(s)
           \/ AbortSend(s)
  BY <1>2 DEF WriteTask, WriteEnv, Reread, AbortPending, AbortRunning, AbortSend
<1>3. CASE Grant(s) \/ Refuse(s) \/ AbortApproving(s)
  BY <1>3, ChangeStepQuiet DEF Grant, Refuse, AbortApproving
<1> QED BY <1>1, <1>2, <1>3 DEF SessionStep

(* Every step is a step of Pipeline or a stutter.                           *)
LEMMA StepRefines ==
  TypeOK /\ PipelineInv /\ PipelineInv' /\ [Next]_vars => [Pipe!Next]_Pipe!vars
<1> SUFFICES ASSUME TypeOK, PipelineInv, PipelineInv', [Next]_vars
             PROVE  [Pipe!Next]_Pipe!vars
  OBVIOUS
<1> USE ProcsFacts, MemFacts DEF dbVars, runVars, workVars, histVars, bounds
<1>1. CASE CallRunner \/ CallFails
  <2> DEFINE k == mem[Worker].k
  <2>1. /\ \A j \in Steps : steps'[j].approved = steps[j].approved
        /\ done' = done
    <3>1. CASE CallRunner
      BY <3>1, ChangeStepQuiet DEF CallRunner
    <3>2. CASE CallFails
      <4>1. CASE steps' = [steps EXCEPT ![k] =
                   [Mark(@, "pending", TRUE) EXCEPT !.retryNumber = retried + 1]]
        <5>1. Mark(steps[k], "pending", TRUE).approved = steps[k].approved
              /\ Mark(steps[k], "pending", TRUE) \in StepRow
          BY MarkType, LabelFacts
        <5>2. ASSUME NEW r \in StepRow
              PROVE  [r EXCEPT !.retryNumber = retried + 1].approved = r.approved
          BY DEF StepRow
        <5> QED BY <3>2, <4>1, <5>1, <5>2 DEF CallFails, TypeOK
      <4>2. CASE UNCHANGED steps
        BY <3>2, <4>2 DEF CallFails
      <4>3. CASE ChangeStep(Worker, "failed", TRUE, "judge")
        BY <3>2, <4>3, ChangeStepQuiet DEF CallFails
      <4> QED BY <3>2, <4>1, <4>2, <4>3 DEF CallFails
    <3> QED BY <1>1, <3>1, <3>2
  <2>2. CASE UNCHANGED launches
    BY <2>1, <2>2, QuietStutters DEF Quiet
  <2>3. CASE Launch(k) /\ ~UNCHANGED launches
    <3>1. k \in 1..Len(Flow)
      BY DEF Steps
    <3>2. {j \in Steps : launches'[j] > 0} = {j \in Steps : launches[j] > 0} \cup {k}
      <4> DEFINE n == IF launches[k] = MaxLaunches THEN launches[k] ELSE launches[k] + 1
      <4>1. n > 0
        BY DEF MaxLaunches, TypeOK
      <4>2. launches' = [launches EXCEPT ![k] = n]
        BY <2>3 DEF Launch
      <4> HIDE DEF n, k
      <4> QED BY <3>1, <4>1, <4>2 DEF TypeOK, Steps
    <3>3. launches'[k] > 0
      BY <3>1, <3>2 DEF Steps
    <3>4. MustApproval(k) => steps[k].approved
      BY <2>1, <3>1, <3>3 DEF PipelineInv, ApprovedBeforeRun, MustApproval, Steps
    <3>5. \A j \in 1..(k - 1) : j \in done \cup {i \in Steps : IsTolerated(i)}
      BY <2>1, <3>1, <3>3 DEF PipelineInv, StepsInOrder, Passed, IsTolerated, Steps
    <3>6. {j \in Steps : steps'[j].approved} = {j \in Steps : steps[j].approved}
      BY <2>1
    <3>7. PICK i \in 1..Len(Flow) : i = k
      BY <3>1
    <3>8. Pipe!Launch(i)
      BY <2>1, <3>1, <3>2, <3>4, <3>5, <3>6, <3>7 DEF Pipe!Launch
    <3> QED BY <3>8 DEF Pipe!Next
  <2> QED BY <1>1, <2>2, <2>3 DEF CallRunner, CallFails
<1>2. ASSUME NEW s \in Sessions, Sign(s) PROVE [Pipe!Next]_Pipe!vars
  <2> DEFINE k == mem[s].k
  <2>1. k \in 1..Len(Flow)
    BY DEF Steps
  <2>2. steps' = [steps EXCEPT ![k].approved = TRUE] /\ UNCHANGED <<launches, done>>
    BY <1>2 DEF Sign
  <2>3. {j \in Steps : steps'[j].approved} = {j \in Steps : steps[j].approved} \cup {k}
    BY <2>1, <2>2 DEF TypeOK, StepRow, Steps
  <2>4. PICK i \in 1..Len(Flow) : i = k
    BY <2>1
  <2>5. Pipe!Approve(i)
    BY <2>2, <2>3, <2>4 DEF Pipe!Approve
  <2> QED BY <2>5 DEF Pipe!Next
<1>3. ASSUME NEW k \in Steps, ExecEnds(k) PROVE [Pipe!Next]_Pipe!vars
  <2>1. UNCHANGED <<steps, launches>> /\ done' \in {done, done \cup {k}}
    BY <1>3 DEF ExecEnds
  <2>2. launches[k] > 0
    BY <1>3 DEF ExecEnds, PipelineInv, StartedIsCounted
  <2>3. CASE done' = done
    BY <2>1, <2>3, QuietStutters DEF Quiet
  <2>4. CASE done' = done \cup {k}
    <3>1. Pipe!Succeed(k)
      BY <2>1, <2>2, <2>4 DEF Pipe!Succeed
    <3> QED BY <3>1 DEF Pipe!Next, Steps
  <2> QED BY <2>1, <2>3, <2>4
<1>4. CASE Boot \/ WorkerStep
  BY <1>1, <1>4, WorkerQuiet, QuietStutters
<1>5. ASSUME NEW s \in Sessions, SessionStart(s) \/ SessionStep(s)
      PROVE  [Pipe!Next]_Pipe!vars
  BY <1>2, <1>5, SessionQuiet, QuietStutters
<1>6. CASE Crash \/ UNCHANGED vars \/ \E k \in Steps : SaveExit(k)
  BY <1>6, QuietStutters DEF Crash, SaveExit, vars, Quiet
<1> QED BY <1>3, <1>4, <1>5, <1>6 DEF Next

(* A task keeps, whatever crashes, lost exchanges and racing users it       *)
(* meets, the promise of Pipeline.                                          *)
THEOREM Refinement == Spec => ImplementsPipeline
<1>1. Init => Pipe!Init
  <2> SUFFICES ASSUME Init PROVE Pipe!Init
    OBVIOUS
  <2>1. \A k \in Steps : steps[k].approved = FALSE /\ launches[k] = 0 /\ done = {}
    BY DEF Init, NewStep
  <2>2. done = {}
    BY DEF Init
  <2> QED BY <2>1, <2>2 DEF Pipe!Init
<1> QED BY <1>1, TypeCorrect, PipelineCorrect, StepRefines, PTL
           DEF Spec, ImplementsPipeline, Pipe!Spec

-----------------------------------------------------------------------------
(* What nobody asks for, nobody answers.                                    *)

NoneApproves == AutoApprove \/ "approve" \notin Calls
NoneCalls == "abort" \notin Calls /\ (AutoApprove \/ Calls = {})

(* A task that approves itself never waits for an approval.                 *)
Unasked ==
    /\ task.status # "approving"
    /\ \A k \in Steps : steps[k].status # "approving" /\ wSteps[k].status # "approving"
    /\ \A p \in Procs : mem[p].task.status # "approving" /\ mem[p].step.status # "approving"

Approving == {"sign", "reread", "grant"}
Unapproved ==
    /\ \A k \in Steps : ~steps[k].approved
    /\ \A s \in Sessions : pc[s] \notin Approving /\ mem[s].ret \notin Approving

Inert == \A s \in Sessions : pc[s] = "idle"

Answers == /\ AutoApprove => Unasked
           /\ NoneApproves => Unapproved
           /\ NoneCalls => Inert

(* More of what a change of a step's status does: where the process goes.   *)
LEMMA ChangeStepGoes ==
  ASSUME TypeOK, NEW p \in Procs, NEW status \in StepStatuses,
         NEW msg \in BOOLEAN, NEW ret \in Labels \ {"task", "env"},
         ChangeStep(p, status, msg, ret)
  PROVE  /\ \/ pc'[p] = ret
            \/ /\ pc'[p] = "task" /\ mem'[p].ret = ret
               /\ StepExited(status) => status = "rejected"
         /\ mem'[p].ret \in {mem[p].ret, ret}
         /\ steps'[mem[p].k].status = status \/ mem[p].step.status = status
<1> USE MemFacts
<1>1. CASE mem[p].step.status = status /\ ~msg
  BY <1>1 DEF TypeOK, ChangeStep, Goto
<1>2. CASE ~(mem[p].step.status = status /\ ~msg)
  <2> DEFINE k == mem[p].k
             new == [mem[p] EXCEPT !.step = Mark(mem[p].step, status, msg), !.ret = ret]
  <2>1. steps' = [steps EXCEPT ![k] = Mark(steps[k], status, msg)]
    BY <1>2 DEF ChangeStep
  <2>2. mem' = [mem EXCEPT ![p] = new] /\ new.ret = ret
    BY <1>2 DEF ChangeStep, MemRow
  <2>3. Mark(steps[k], status, msg).status = status
    BY MarkType
  <2>4. \/ pc' = [pc EXCEPT ![p] = ret]
        \/ pc' = [pc EXCEPT ![p] = "task"] /\ (StepExited(status) => status = "rejected")
    BY <1>2 DEF ChangeStep, Goto
  <2> HIDE DEF new
  <2> QED BY <2>1, <2>2, <2>3, <2>4 DEF TypeOK
<1> QED BY <1>1, <1>2

(* A change of the task's status: the row and the copy take it.             *)
LEMMA ChangeTaskSays ==
  ASSUME TypeOK, NEW p \in Procs, NEW status, NEW ret \in Labels, ChangeTask(p, status, ret)
  PROVE  /\ task'.status = status /\ task'.cid = task.cid
         /\ mem'[p].task.status = status /\ mem'[p].task.cid = mem[p].task.cid
<1> DEFINE keep == ~(mem[p].task.aborting /\ TaskExited(status))
           Set(row) == [row EXCEPT !.status = status, !.aborting = keep /\ @]
           new == [mem[p] EXCEPT !.task = Set(mem[p].task), !.ret = ret]
<1>1. task' = Set(task) /\ mem' = [mem EXCEPT ![p] = new]
  BY DEF ChangeTask
<1>2. ASSUME NEW row \in TaskRow PROVE Set(row).status = status /\ Set(row).cid = row.cid
  BY DEF TaskRow
<1> HIDE DEF Set
<1>3. new.task = Set(mem[p].task)
  BY MemFacts DEF MemRow
<1> HIDE DEF new
<1>4. mem'[p] = new
  BY <1>1 DEF TypeOK
<1> QED BY <1>1, <1>2, <1>3, <1>4, MemFacts DEF TypeOK

(* A process goes to a label.                                               *)
LEMMA GotoGoes ==
  ASSUME TypeOK, NEW p \in Procs, NEW label \in Labels, Goto(p, label)
  PROVE  /\ pc'[p] = label
         /\ \A q \in Procs \ {p} : pc'[q] = pc[q]
  BY DEF TypeOK, Goto

(* Only Gate asks for an approval, and not of a task that approves itself.  *)
LEMMA UnaskedStep ==
  ASSUME AutoApprove, TypeOK, Unasked, [Next]_vars
  PROVE  Unasked'
<1> USE ProcsFacts, LabelFacts, MemFacts DEF dbVars, runVars, workVars, histVars, bounds
<1> DEFINE Copies == \A p \in Procs : /\ mem'[p].task.status # "approving"
                                      /\ mem'[p].step.status # "approving"
           Rows == \A k \in Steps : steps'[k].status # "approving"
<1>1. ASSUME NEW p \in Procs, NEW status \in StepStatuses \ {"approving"},
             NEW msg \in BOOLEAN, NEW ret \in Labels \ {"task", "env"},
             ChangeStep(p, status, msg, ret)
      PROVE  Copies /\ Rows
  BY <1>1, ChangeStepEffect DEF Unasked
<1>2. ASSUME NEW p \in Procs, NEW status \in TaskStatuses \ {"approving"},
             NEW ret \in Labels, ChangeTask(p, status, ret)
      PROVE  Copies /\ task'.status # "approving"
  BY <1>2, ChangeTaskEffect, ChangeTaskSays DEF Unasked
<1>3. ASSUME NEW p \in Procs, NEW new \in MemRow, mem' = [mem EXCEPT ![p] = new],
             new.task.status # "approving", new.step.status # "approving"
      PROVE  Copies
  BY <1>3 DEF TypeOK, Unasked
<1>4. ASSUME UNCHANGED mem
      PROVE  Copies
  BY <1>4 DEF Unasked
<1>5. \A s \in StepStatuses \ {"approving"} : StepToTask(s) \in TaskStatuses \ {"approving"}
  BY DEF StepToTask, StepStatuses, TaskStatuses
<1>6. task \in TaskRow /\ \A k \in Steps : steps[k] \in StepRow /\ wSteps[k] \in StepRow
  BY DEF TypeOK
<1>7. ASSUME NEW p \in Procs, WriteTask(p) \/ WriteEnv(p) PROVE Unasked'
  <2>1. CASE WriteTask(p)
    <3> DEFINE status == StepToTask(mem[p].step.status)
    <3>1. status \in TaskStatuses \ {"approving"}
      BY <1>5 DEF Unasked
    <3> HIDE DEF status
    <3>2. ChangeTask(p, status, mem[p].ret) \/ UNCHANGED <<task, mem>>
      BY <2>1 DEF WriteTask, status
    <3>3. UNCHANGED <<steps, wSteps>>
      BY <2>1 DEF WriteTask
    <3> QED BY <1>2, <1>4, <3>1, <3>2, <3>3 DEF Unasked
  <2>2. CASE WriteEnv(p)
    BY <2>2, <1>4 DEF WriteEnv, Unasked
  <2> QED BY <1>7, <2>1, <2>2
<1>8. ASSUME StartWorker PROVE Copies
  <2>1. [mem[Worker] EXCEPT !.task = task] \in MemRow
    BY <1>6 DEF MemRow
  <2>2. /\ [mem[Worker] EXCEPT !.task = task].task = task
        /\ [mem[Worker] EXCEPT !.task = task].step = mem[Worker].step
    BY DEF MemRow
  <2>3. mem' = [mem EXCEPT ![Worker] = [mem[Worker] EXCEPT !.task = task]]
    BY <1>8 DEF StartWorker
  <2> QED BY <1>3, <2>1, <2>2, <2>3 DEF Unasked
<1>9. CASE Boot \/ PickPending
  BY <1>4, <1>8, <1>9 DEF Boot, PickPending, Unasked
<1>10. CASE Enter \/ StartFailed
  <2>1. "running" \in TaskStatuses \ {"approving"} /\ "failed" \in TaskStatuses \ {"approving"}
    BY DEF TaskStatuses
  <2> QED BY <1>2, <1>4, <1>10, <2>1 DEF Enter, StartFailed, Unasked
<1>11. CASE LoadSteps \/ Judge
  <2>1. \A i \in Steps : /\ [mem[Worker] EXCEPT !.k = i] \in MemRow
                         /\ [mem[Worker] EXCEPT !.k = i].task = mem[Worker].task
                         /\ [mem[Worker] EXCEPT !.k = i].step = mem[Worker].step
    BY DEF MemRow
  <2>2. UNCHANGED mem \/ \E i \in Steps : mem' = [mem EXCEPT ![Worker] = [mem[Worker] EXCEPT !.k = i]]
    <3>1. CASE LoadSteps
      BY <3>1 DEF LoadSteps
    <3>2. CASE Judge
      <4>1. CASE UNCHANGED mem
        BY <4>1
      <4>2. CASE /\ mem[Worker].k < Len(Flow)
                 /\ mem' = [mem EXCEPT ![Worker].k = mem[Worker].k + 1]
        <5>1. mem[Worker].k + 1 \in Steps
          BY <4>2 DEF Steps
        <5> QED BY <4>2, <5>1
      <4> QED BY <3>2, <4>1, <4>2 DEF Judge
    <3> QED BY <1>11, <3>1, <3>2
  <2>3. Copies
    BY <1>3, <1>4, <2>1, <2>2, ZenonT(60) DEF Unasked
  <2> QED BY <1>11, <2>3 DEF LoadSteps, Judge, Unasked
<1>12. CASE BeginStep
  <2> DEFINE k == mem[Worker].k
             new == [mem[Worker] EXCEPT !.task.currStep = k, !.step = wSteps[k]]
  <2>1. new \in MemRow /\ new.task.status = mem[Worker].task.status /\ new.step = wSteps[k]
    BY <1>6 DEF MemRow, TaskRow
  <2>2. mem' = [mem EXCEPT ![Worker] = new] /\ task' = [task EXCEPT !.currStep = k]
        /\ UNCHANGED <<steps, wSteps>>
    BY <1>12 DEF BeginStep
  <2> HIDE DEF new
  <2>3. Copies
    BY <1>3, <2>1, <2>2 DEF Unasked
  <2> QED BY <1>6, <2>2, <2>3 DEF Unasked, TaskRow
<1>13. CASE Gate
  BY <1>4, <1>13 DEF Gate, MustApproval, Unasked
<1>14. CASE PollApproval
  <2>1. /\ [mem[Worker] EXCEPT !.step = steps[mem[Worker].k]] \in MemRow
        /\ [mem[Worker] EXCEPT !.step = steps[mem[Worker].k]].task = mem[Worker].task
        /\ [mem[Worker] EXCEPT !.step = steps[mem[Worker].k]].step = steps[mem[Worker].k]
    BY DEF MemRow
  <2>2. UNCHANGED mem
        \/ mem' = [mem EXCEPT ![Worker] = [mem[Worker] EXCEPT !.step = steps[mem[Worker].k]]]
    BY <1>14 DEF PollApproval
  <2>3. Copies
    BY <1>3, <1>4, <2>1, <2>2, ZenonT(60) DEF Unasked
  <2> QED BY <1>14, <2>3 DEF PollApproval, Unasked
<1>15. CASE Drive \/ Watch \/ WatchFails \/ Settle
  BY <1>1, <1>4, <1>15 DEF Drive, Watch, WatchFails, Settle, Unasked
<1>16. CASE CallRunner
  BY <1>1, <1>4, <1>16 DEF CallRunner, Unasked
<1>17. CASE CallFails
  <2> DEFINE k == mem[Worker].k
  <2>1. CASE /\ steps' = [steps EXCEPT ![k] =
                  [Mark(@, "pending", TRUE) EXCEPT !.retryNumber = retried + 1]]
             /\ mem' = [mem EXCEPT ![Worker] =
                  [mem[Worker] EXCEPT !.step = Mark(mem[Worker].step, "pending", TRUE),
                                      !.ret = "drive"]]
    <3> DEFINE row == [Mark(steps[k], "pending", TRUE) EXCEPT !.retryNumber = retried + 1]
               new == [mem[Worker] EXCEPT !.step = Mark(mem[Worker].step, "pending", TRUE),
                                          !.ret = "drive"]
    <3>1. /\ Mark(steps[k], "pending", TRUE) \in StepRow
          /\ Mark(steps[k], "pending", TRUE).status = "pending"
          /\ Mark(mem[Worker].step, "pending", TRUE) \in StepRow
          /\ Mark(mem[Worker].step, "pending", TRUE).status = "pending"
      BY MarkType, ZenonT(60)
    <3>2. row.status = "pending"
      BY <3>1 DEF StepRow
    <3>3. /\ new \in MemRow /\ new.task = mem[Worker].task
          /\ new.step = Mark(mem[Worker].step, "pending", TRUE)
      BY <3>1 DEF MemRow
    <3>4. steps' = [steps EXCEPT ![k] = row] /\ mem' = [mem EXCEPT ![Worker] = new]
      BY <2>1
    <3> HIDE DEF row, new
    <3>5. Rows
      BY <3>2, <3>4 DEF TypeOK, Unasked
    <3>6. Copies
      BY <1>3, <3>1, <3>3, <3>4 DEF Unasked
    <3> QED BY <1>17, <3>5, <3>6 DEF CallFails, Unasked
  <2>2. CASE ChangeStep(Worker, "failed", TRUE, "judge") \/ UNCHANGED <<steps, mem>>
    BY <1>1, <1>4, <1>17, <2>2 DEF CallFails, Unasked
  <2> QED BY <1>17, <2>1, <2>2 DEF CallFails
<1>18. CASE SaveContainer
  BY <1>4, <1>6, <1>18 DEF SaveContainer, Unasked, TaskRow
<1>19. CASE AfterSteps
  <2>1. [mem[Worker] EXCEPT !.task = task] \in MemRow
    BY <1>6 DEF MemRow
  <2>2. /\ [mem[Worker] EXCEPT !.task = task].task = task
        /\ [mem[Worker] EXCEPT !.task = task].step = mem[Worker].step
    BY DEF MemRow
  <2>3. mem' = [mem EXCEPT ![Worker] = [mem[Worker] EXCEPT !.task = task]]
    BY <1>19 DEF AfterSteps
  <2>4. UNCHANGED <<task, steps, wSteps>>
    BY <1>19 DEF AfterSteps
  <2> QED BY <1>3, <2>1, <2>2, <2>3, <2>4 DEF Unasked
<1>20. CASE LastStep
  <2> DEFINE k == mem[Worker].task.currStep
             new == [mem[Worker] EXCEPT !.step = steps[k], !.k = k, !.ret = "off"]
  <2>1. new \in MemRow /\ new.task = mem[Worker].task /\ new.step = steps[k]
    BY <1>6 DEF MemRow
  <2>2. UNCHANGED mem \/ mem' = [mem EXCEPT ![Worker] = new]
    BY <1>20 DEF LastStep
  <2> HIDE DEF new
  <2>3. Copies
    BY <1>3, <1>4, <2>1, <2>2 DEF Unasked
  <2> QED BY <1>20, <2>3 DEF LastStep, Unasked
<1>21. ASSUME NEW s \in Sessions, SessionStart(s) \/ SessionStep(s) PROVE Unasked'
  <2>1. ASSUME NEW call, AnswerCheck(s, call) PROVE FALSE
    BY <2>1 DEF AnswerCheck, Unasked
  <2>2. CASE AbortRead(s)
    <3> DEFINE new == [mem[s] EXCEPT !.task = task, !.step = steps[task.currStep],
                                     !.k = task.currStep]
    <3>1. task.currStep \in Steps
      BY <1>6 DEF TaskRow
    <3>2. new \in MemRow /\ new.task = task /\ new.step = steps[task.currStep]
      BY <1>6, <3>1 DEF MemRow
    <3>3. mem' = [mem EXCEPT ![s] = new]
      BY <2>2 DEF AbortRead
    <3> HIDE DEF new
    <3>4. Copies
      BY <1>3, <3>1, <3>2, <3>3 DEF Unasked
    <3> QED BY <2>2, <3>4 DEF AbortRead, Unasked
  <2>3. CASE Sign(s)
    BY <1>4, <1>6, <2>3 DEF Sign, Unasked, StepRow, TypeOK
  <2>4. CASE Reread(s)
    <3> DEFINE new == [mem[s] EXCEPT !.step = steps[mem[s].k], !.task = task]
    <3>1. new \in MemRow /\ new.task = task /\ new.step = steps[mem[s].k]
      BY <1>6 DEF MemRow
    <3>2. mem' = [mem EXCEPT ![s] = new]
      BY <2>4 DEF Reread
    <3> HIDE DEF new
    <3>3. Copies
      BY <1>3, <3>1, <3>2 DEF Unasked
    <3> QED BY <2>4, <3>3 DEF Reread, Unasked
  <2>5. CASE Grant(s) \/ Refuse(s)
    BY <1>1, <2>5 DEF Grant, Refuse, Unasked
  <2>6. ASSUME NEW row \in TaskRow, NEW copy \in TaskRow
        PROVE  Overlay(row, copy).status = copy.status
    BY DEF Overlay
  <2>7. /\ \A v \in TaskStatuses : /\ [mem[s].task EXCEPT !.status = v] \in TaskRow
                                   /\ [mem[s].task EXCEPT !.status = v].status = v
        /\ [mem[s].task EXCEPT !.aborting = TRUE] \in TaskRow
        /\ [mem[s].task EXCEPT !.aborting = TRUE].status = mem[s].task.status
        /\ "aborted" \in TaskStatuses
    BY DEF TaskRow, TaskStatuses
  <2>8. CASE AbortPending(s)
    BY <1>4, <1>6, <2>6, <2>7, <2>8, ZenonT(60) DEF AbortPending, Unasked
  <2>9. CASE AbortApproving(s)
    <3>1. Copies /\ Rows
      BY <1>1, <2>9 DEF AbortApproving
    <3> DEFINE copy == [mem[s].task EXCEPT !.aborting = TRUE]
    <3>2. task' = Overlay(task, copy) /\ UNCHANGED wSteps
      BY <2>9 DEF AbortApproving
    <3>3. copy \in TaskRow /\ copy.status = mem[s].task.status
      BY <2>7
    <3> HIDE DEF copy
    <3>4. task'.status = mem[s].task.status
      BY <1>6, <2>6, <3>2, <3>3
    <3> QED BY <3>1, <3>2, <3>4 DEF Unasked
  <2>10. CASE AbortRunning(s)
    BY <1>4, <1>6, <2>6, <2>7, <2>10, ZenonT(60) DEF AbortRunning, Unasked
  <2>11. CASE AbortSend(s)
    BY <1>4, <1>6, <2>11 DEF AbortSend, Unasked, TaskRow
  <2> QED BY <1>7, <1>21, <2>1, <2>2, <2>3, <2>4, <2>5, <2>8, <2>9, <2>10, <2>11
             DEF SessionStart, SessionStep
<1>22. CASE Crash \/ UNCHANGED vars \/ \E k \in Steps : ExecEnds(k) \/ SaveExit(k)
  BY <1>22 DEF Crash, vars, ExecEnds, SaveExit, Unasked
<1> QED BY <1>7, <1>9, <1>10, <1>11, <1>12, <1>13, <1>14, <1>15, <1>16, <1>17, <1>18,
           <1>19, <1>20, <1>21, <1>22 DEF Next, WorkerStep

(* The worker leaves the sessions' copies and places alone.                 *)
LEMMA WorkerOwn ==
  ASSUME TypeOK, Boot \/ WorkerStep
  PROVE  \A s \in Sessions : mem'[s] = mem[s] /\ pc'[s] = pc[s]
<1> USE ProcsFacts DEF TypeOK, dbVars, Goto
<1> DEFINE Own == \A s \in Sessions : mem'[s] = mem[s] /\ pc'[s] = pc[s]
<1>1. ASSUME NEW status, NEW msg, NEW ret, ChangeStep(Worker, status, msg, ret) PROVE Own
  BY <1>1 DEF ChangeStep
<1>2. ASSUME NEW status, NEW ret, ChangeTask(Worker, status, ret) PROVE Own
  BY <1>2 DEF ChangeTask
<1>3. CASE Boot \/ PickPending
  BY <1>3 DEF Boot, PickPending, StartWorker
<1>4. CASE Enter \/ StartFailed \/ WriteTask(Worker)
  BY <1>2, <1>4 DEF Enter, StartFailed, WriteTask
<1>5. CASE WriteEnv(Worker) \/ LoadSteps \/ Judge \/ PollApproval \/ SaveContainer
  BY <1>5 DEF WriteEnv, LoadSteps, Judge, PollApproval, SaveContainer
<1>6. CASE BeginStep \/ AfterSteps \/ LastStep
  BY <1>6 DEF BeginStep, AfterSteps, LastStep
<1>7. CASE Gate \/ Drive \/ Watch \/ WatchFails \/ Settle
  BY <1>1, <1>7 DEF Gate, Drive, Watch, WatchFails, Settle
<1>8. CASE CallRunner
  BY <1>1, <1>8 DEF CallRunner
<1>9. CASE CallFails
  BY <1>1, <1>9 DEF CallFails
<1> QED BY <1>3, <1>4, <1>5, <1>6, <1>7, <1>8, <1>9 DEF WorkerStep

(* Only a signature approves a step.                                        *)
LEMMA OnlySigned ==
  ASSUME TypeOK, [Next]_vars, ~\E s \in Sessions : Sign(s)
  PROVE  \A k \in Steps : steps'[k].approved = steps[k].approved
<1> USE ProcsFacts, MemFacts
<1>1. CASE CallRunner
  BY <1>1, ChangeStepQuiet DEF CallRunner
<1>2. CASE CallFails
  <2> DEFINE k == mem[Worker].k
             row == [Mark(steps[k], "pending", TRUE) EXCEPT !.retryNumber = retried + 1]
  <2>1. CASE steps' = [steps EXCEPT ![k] = row]
    <3>1. /\ Mark(steps[k], "pending", TRUE).approved = steps[k].approved
          /\ Mark(steps[k], "pending", TRUE) \in StepRow
      BY MarkType, LabelFacts
    <3>2. row.approved = steps[k].approved
      BY <3>1 DEF StepRow
    <3> HIDE DEF row
    <3> QED BY <2>1, <3>2 DEF TypeOK
  <2>2. CASE UNCHANGED steps \/ ChangeStep(Worker, "failed", TRUE, "judge")
    BY <2>2, ChangeStepQuiet
  <2> QED BY <1>2, <2>1, <2>2 DEF CallFails
<1>3. CASE Boot \/ WorkerStep
  BY <1>1, <1>2, <1>3, WorkerQuiet DEF Quiet
<1>4. CASE \E s \in Sessions : SessionStart(s) \/ SessionStep(s)
  BY <1>4, SessionQuiet DEF Quiet
<1>5. CASE Crash \/ UNCHANGED vars \/ \E k \in Steps : ExecEnds(k) \/ SaveExit(k)
  BY <1>5 DEF Crash, vars, ExecEnds, SaveExit, dbVars
<1> QED BY <1>3, <1>4, <1>5 DEF Next

(* Where nobody may approve, or is asked to, no session gets that far.      *)
LEMMA UnapprovedStep ==
  ASSUME NoneApproves, AutoApprove => Unasked, TypeOK, Unapproved, [Next]_vars
  PROVE  Unapproved'
<1> USE ProcsFacts, LabelFacts, MemFacts DEF dbVars, Unapproved
<1>1. \A k \in Steps : ~steps'[k].approved
  BY OnlySigned DEF Sign, Approving
<1> DEFINE Out(s) == pc'[s] \notin Approving /\ mem'[s].ret \notin Approving
<1>2. CASE Boot \/ WorkerStep
  BY <1>1, <1>2, WorkerOwn
<1>3. ASSUME NEW s \in Sessions, SessionStart(s) \/ SessionStep(s) PROVE Unapproved'
  <2>1. \A q \in Sessions \ {s} : mem'[q] = mem[q] /\ pc'[q] = pc[q]
    <3>1. ASSUME NEW status, NEW msg, NEW ret, ChangeStep(s, status, msg, ret)
          PROVE  \A q \in Sessions \ {s} : mem'[q] = mem[q] /\ pc'[q] = pc[q]
      BY <3>1 DEF ChangeStep, TypeOK, Goto
    <3>2. ASSUME NEW status, NEW ret, ChangeTask(s, status, ret)
          PROVE  \A q \in Sessions \ {s} : mem'[q] = mem[q] /\ pc'[q] = pc[q]
      BY <3>2 DEF ChangeTask, TypeOK, Goto
    <3>3. CASE SessionStart(s)
      BY <3>3 DEF SessionStart, AnswerCheck, AbortRead, TypeOK, Goto
    <3>4. CASE WriteTask(s)
      BY <3>2, <3>4 DEF WriteTask, TypeOK, Goto
    <3>5. CASE Grant(s) \/ Refuse(s) \/ AbortApproving(s)
      BY <3>1, <3>5 DEF Grant, Refuse, AbortApproving
    <3>6. CASE WriteEnv(s) \/ Sign(s) \/ Reread(s) \/ AbortPending(s) \/ AbortRunning(s)
               \/ AbortSend(s)
      BY <3>6 DEF WriteEnv, Sign, Reread, AbortPending, AbortRunning, AbortSend, TypeOK, Goto
    <3> QED BY <1>3, <3>3, <3>4, <3>5, <3>6 DEF SessionStep
  <2>2. Out(s)
    <3> USE DEF Approving
    <3>1. ASSUME NEW call \in {"approve", "reject"}, AnswerCheck(s, call) PROVE Out(s)
      <4>1. call = "reject"
        BY <3>1 DEF AnswerCheck, NoneApproves, Unasked
      <4>2. pc' = [pc EXCEPT ![s] = "rejectRead"]
        BY <3>1, <4>1 DEF AnswerCheck, Goto
      <4>3. mem'[s].ret = mem[s].ret
        BY <3>1 DEF AnswerCheck, TypeOK, MemRow
      <4> QED BY <4>2, <4>3 DEF TypeOK
    <3>2. CASE AbortRead(s)
      <4> DEFINE new == [mem[s] EXCEPT !.task = task, !.step = steps[task.currStep],
                                       !.k = task.currStep]
      <4>1. new.ret = mem[s].ret
        BY DEF MemRow
      <4>2. mem' = [mem EXCEPT ![s] = new]
        BY <3>2 DEF AbortRead
      <4> HIDE DEF new
      <4>3. pc'[s] \in {"abortPending", "abortApproving", "abortRunning"}
        BY <3>2 DEF AbortRead, Goto, TypeOK
      <4> QED BY <4>1, <4>2, <4>3 DEF TypeOK
    <3>3. CASE Reread(s)
      <4> DEFINE new == [mem[s] EXCEPT !.step = steps[mem[s].k], !.task = task]
      <4>1. new.ret = mem[s].ret
        BY DEF MemRow
      <4>2. mem' = [mem EXCEPT ![s] = new]
        BY <3>3 DEF Reread
      <4> HIDE DEF new
      <4>3. pc'[s] = "refuse"
        BY <3>3 DEF Reread, Goto, TypeOK
      <4> QED BY <4>1, <4>2, <4>3 DEF TypeOK
    <3>4. ASSUME NEW status \in StepStatuses, NEW msg \in BOOLEAN,
                 ChangeStep(s, status, msg, "over")
          PROVE  Out(s)
      BY <3>4, ChangeStepGoes
    <3>5. CASE Grant(s) \/ Refuse(s) \/ AbortApproving(s)
      BY <3>4, <3>5 DEF Grant, Refuse, AbortApproving
    <3>6. CASE WriteTask(s)
      <4>1. CASE ChangeTask(s, StepToTask(mem[s].step.status), mem[s].ret)
        BY <4>1, ChangeTaskEffect
      <4>2. CASE Goto(s, mem[s].ret) /\ UNCHANGED <<task, mem>>
        BY <4>2, GotoGoes
      <4> QED BY <3>6, <4>1, <4>2 DEF WriteTask
    <3>7. CASE WriteEnv(s) \/ AbortPending(s) \/ AbortRunning(s) \/ AbortSend(s)
      BY <3>7, GotoGoes DEF WriteEnv, AbortPending, AbortRunning, AbortSend
    <3>8. ~Sign(s)
      BY DEF Sign
    <3> QED BY <1>3, <3>1, <3>2, <3>3, <3>5, <3>6, <3>7, <3>8
               DEF SessionStart, SessionStep
  <2> QED BY <1>1, <2>1, <2>2
<1>4. CASE Crash
  BY <1>1, <1>4 DEF Crash, Approving
<1>5. CASE UNCHANGED vars \/ \E k \in Steps : ExecEnds(k) \/ SaveExit(k)
  BY <1>1, <1>5 DEF vars, ExecEnds, SaveExit
<1> QED BY <1>2, <1>3, <1>4, <1>5 DEF Next

(* Where nobody can call to any effect, no session moves.                   *)
LEMMA InertStep ==
  ASSUME NoneCalls, AutoApprove => Unasked, TypeOK, Inert, [Next]_vars
  PROVE  /\ Inert'
         /\ \A s \in Sessions : ~SessionStart(s) /\ ~SessionStep(s)
<1> USE ProcsFacts DEF Inert
<1>1. ASSUME NEW s \in Sessions PROVE ~SessionStart(s) /\ ~SessionStep(s)
  <2>1. ~SessionStart(s)
    BY DEF SessionStart, AnswerCheck, AbortRead, NoneCalls, Unasked
  <2>2. ~SessionStep(s)
    BY DEF SessionStep, WriteTask, WriteEnv, Sign, Reread, Grant, Refuse, AbortPending,
           AbortApproving, AbortRunning, AbortSend
  <2> QED BY <2>1, <2>2
<1>2. CASE Boot \/ WorkerStep
  BY <1>1, <1>2, WorkerOwn
<1>3. CASE Crash
  BY <1>1, <1>3 DEF Crash
<1>4. CASE UNCHANGED vars \/ \E k \in Steps : ExecEnds(k) \/ SaveExit(k)
  BY <1>1, <1>4 DEF vars, ExecEnds, SaveExit
<1> QED BY <1>1, <1>2, <1>3, <1>4 DEF Next

LEMMA AnswersStep == TypeOK /\ Answers /\ [Next]_vars => Answers'
  BY UnaskedStep, UnapprovedStep, InertStep DEF Answers

(* Whoever approves itself is asked nothing, and without an approval, or a  *)
(* call to any effect, no session gets anywhere.                            *)
THEOREM AnswersCorrect == Spec => []Answers
<1>1. Init => Answers
  <2> SUFFICES ASSUME Init PROVE Answers
    OBVIOUS
  <2>1. /\ task = NewTask /\ \A k \in Steps : steps[k] = NewStep /\ wSteps[k] = NewStep
        /\ \A p \in Procs : /\ mem[p].task = NewTask /\ mem[p].step = NewStep
                            /\ mem[p].ret = "off"
        /\ \A s \in Sessions : pc[s] = "idle"
    BY ProcsFacts DEF Init
  <2>2. Unasked
    BY <2>1 DEF Unasked, NewTask, NewStep
  <2>3. Unapproved /\ Inert
    BY <2>1, ProcsFacts DEF Unapproved, Inert, Approving, NewStep
  <2> QED BY <2>2, <2>3 DEF Answers
<1> QED BY <1>1, AnswersStep, TypeCorrect, PTL DEF Spec

(* Where nobody approves, a rejected task has run no gated step: no gated   *)
(* step is run at all.                                                      *)
THEOREM RejectCorrect ==
  ASSUME "approve" \notin Calls
  PROVE  Spec => []RejectedMeansNotRun
<1>1. TypeOK /\ Answers /\ ApprovedBeforeRun => RejectedMeansNotRun
  <2> SUFFICES ASSUME TypeOK, Answers, ApprovedBeforeRun, NEW k \in Steps, MustApproval(k)
               PROVE  launches[k] = 0
    BY DEF RejectedMeansNotRun
  <2>1. ~(launches[k] > 0)
    BY DEF Answers, NoneApproves, Unapproved, ApprovedBeforeRun
  <2>2. launches[k] \in 0..MaxLaunches
    BY DEF TypeOK
  <2> QED BY <2>1, <2>2 DEF MaxLaunches
<1> QED BY <1>1, TypeCorrect, AnswersCorrect, ApprovalCorrect, PTL

-----------------------------------------------------------------------------
(* Each command once.                                                       *)

Fresh == {"pending", "approving"}

(* What has been started is not called fresh: by the row, by the worker's   *)
(* copy of it, or by the part of the worker's list that lies ahead.  The    *)
(* row is marked before the call that starts the command.                   *)
Once ==
    /\ \A k \in Steps : launches[k] <= 1
    /\ \A k \in Steps : launches[k] > 0 => steps[k].status \notin Fresh
    /\ Where \in InStep /\ mem[Worker].step.status \in Fresh
         => launches[mem[Worker].k] = 0
    /\ Where = "call" =>
         /\ launches[mem[Worker].k] = 0 /\ mem[Worker].step.status \notin Fresh
         /\ steps[mem[Worker].k].status \notin Fresh
    /\ Where = "begin" => \A j \in Steps :
         j >= mem[Worker].k /\ wSteps[j].status \in Fresh => launches[j] = 0
    /\ Where \in InStep => \A j \in Steps :
         j > mem[Worker].k /\ wSteps[j].status \in Fresh => launches[j] = 0

(* A session leaves the worker alone, and where none approves it only       *)
(* rejects and aborts steps.                                                *)
LEMMA SessionOwn ==
  ASSUME TypeOK, Unapproved, NEW s \in Sessions, SessionStart(s) \/ SessionStep(s)
  PROVE  /\ mem'[Worker] = mem[Worker] /\ pc'[Worker] = pc[Worker]
         /\ UNCHANGED <<wSteps, launches>>
         /\ \A k \in Steps : \/ steps'[k].status = steps[k].status
                             \/ steps'[k].status \in {"rejected", "aborted"}
<1> USE ProcsFacts, LabelFacts, MemFacts DEF dbVars, workVars, histVars
<1>1. ASSUME NEW status \in {"rejected", "aborted"}, ChangeStep(s, status, TRUE, "over")
      PROVE  /\ mem'[Worker] = mem[Worker] /\ pc'[Worker] = pc[Worker]
             /\ \A k \in Steps : \/ steps'[k].status = steps[k].status
                                 \/ steps'[k].status \in {"rejected", "aborted"}
  <2>1. /\ status \in StepStatuses /\ TRUE \in BOOLEAN
        /\ "over" \in Labels \ {"task", "env"} /\ s \in Procs
    BY DEF StepStatuses
  <2>2. /\ \A k \in Steps : \/ steps'[k].status = steps[k].status
                            \/ k = mem[s].k /\ steps'[k].status = status
        /\ \A q \in Procs \ {s} : mem'[q] = mem[q] /\ pc'[q] = pc[q]
    BY <1>1, <2>1, ChangeStepEffect
  <2>3. mem'[Worker] = mem[Worker] /\ pc'[Worker] = pc[Worker]
    BY <2>2
  <2> QED BY <2>2, <2>3
<1>2. CASE SessionStart(s)
  BY <1>2 DEF SessionStart, AnswerCheck, AbortRead, TypeOK, Goto
<1>3. CASE WriteTask(s)
  <2>1. CASE ChangeTask(s, StepToTask(mem[s].step.status), mem[s].ret)
    BY <1>3, <2>1, ChangeTaskEffect DEF WriteTask
  <2>2. CASE Goto(s, mem[s].ret) /\ UNCHANGED <<task, mem>>
    BY <1>3, <2>2, GotoGoes DEF WriteTask
  <2> QED BY <1>3, <2>1, <2>2 DEF WriteTask
<1>4. CASE Refuse(s) \/ AbortApproving(s)
  BY <1>1, <1>4 DEF Refuse, AbortApproving
<1>5. CASE Reread(s)
  BY <1>5 DEF Reread, TypeOK, Goto
<1>6. CASE WriteEnv(s) \/ AbortPending(s) \/ AbortRunning(s) \/ AbortSend(s)
  BY <1>6, GotoGoes DEF WriteEnv, AbortPending, AbortRunning, AbortSend
<1>7. ~Sign(s) /\ ~Grant(s)
  BY DEF Sign, Grant, Unapproved, Approving
<1> QED BY <1>2, <1>3, <1>4, <1>5, <1>6, <1>7 DEF SessionStep

LEMMA OnceStep ==
  ASSUME ~RetryAble, NoneApproves, TypeOK, TypeOK', PipelineInv, Answers, Once, [Next]_vars
  PROVE  Once'
<1> USE ProcsFacts, LabelFacts, MemFacts DEF dbVars, runVars, workVars, histVars, bounds
<1> DEFINE k == mem[Worker].k
<1>0. /\ Unapproved /\ k \in Steps /\ Steps \subseteq Nat
      /\ \A j \in Steps : launches[j] \in Nat
      /\ \A j \in Steps : MustApproval(j) => launches[j] = 0
  <2>1. Unapproved
    BY DEF Answers
  <2>2. \A j \in Steps : launches[j] \in Nat
    BY DEF TypeOK, MaxLaunches
  <2>3. \A j \in Steps : launches[j] > 0 /\ MustApproval(j) => steps[j].approved
    BY DEF PipelineInv, ApprovedBeforeRun
  <2>4. \A j \in Steps : ~steps[j].approved
    BY <2>1 DEF Unapproved
  <2>5. \A j \in Steps : MustApproval(j) => launches[j] = 0
    BY <2>2, <2>3, <2>4
  <2> QED BY <2>1, <2>2, <2>5, StepsFacts
<1>1. /\ "call" \in InStep /\ InDrive \subseteq InStep /\ "begin" \notin InStep
      /\ InStep = {"gate", "poll", "drive", "call", "saveCid", "watch", "settle", "judge"}
  BY DEF InStep, InDrive
(* The worker is away from any step.                                        *)
<1>2. ASSUME UNCHANGED launches, Where' \notin InStep \cup {"begin"},
             \A j \in Steps : \/ steps'[j].status = steps[j].status
                              \/ steps'[j].status \notin Fresh
      PROVE  Once'
  <2>1. /\ \A j \in Steps : launches'[j] <= 1
        /\ \A j \in Steps : launches'[j] > 0 => steps'[j].status \notin Fresh
    BY <1>2 DEF Once
  <2> QED BY <1>1, <1>2, <2>1 DEF Once
(* The worker stays within its step and starts nothing.                     *)
<1>3. ASSUME UNCHANGED <<launches, wSteps>>, Where \in InStep, Where' \in InStep,
             mem'[Worker].k = k,
             \A j \in Steps : \/ steps'[j].status = steps[j].status
                              \/ steps'[j].status \notin Fresh
                              \/ j = k /\ launches[k] = 0,
             mem'[Worker].step.status \in Fresh => launches[k] = 0,
             Where' = "call" => /\ launches[k] = 0 /\ mem'[Worker].step.status \notin Fresh
                                /\ steps'[k].status \notin Fresh
      PROVE  Once'
  <2>1. /\ \A j \in Steps : launches'[j] <= 1
        /\ \A j \in Steps : launches'[j] > 0 => steps'[j].status \notin Fresh
    BY <1>0, <1>3 DEF Once
  <2>2. \A j \in Steps : j > k /\ wSteps[j].status \in Fresh => launches[j] = 0
    BY <1>3 DEF Once
  <2> HIDE DEF k
  <2> QED BY <1>1, <1>3, <2>1, <2>2 DEF Once
<1>4. ASSUME NEW status \in StepStatuses, NEW msg \in BOOLEAN, NEW ret \in InStep,
             ChangeStep(Worker, status, msg, ret), Where \in InStep,
             UNCHANGED <<launches, wSteps>>,
             status \in Fresh => launches[k] = 0,
             ret = "call" => launches[k] = 0 /\ status = "running"
                             /\ mem[Worker].step.status # "running"
      PROVE  Once'
  <2>1. ret \in Labels \ {"task", "env"}
    BY <1>1
  <2>2. /\ \A j \in Steps : \/ steps'[j].status = steps[j].status
                            \/ j = k /\ steps'[j].status = status
        /\ mem'[Worker].k = k /\ mem'[Worker].step.status = status /\ Where' = ret
    BY <1>4, <2>1, ChangeStepEffect
  <2>3. steps'[k].status = status \/ mem[Worker].step.status = status
    BY <1>4, <2>1, ChangeStepGoes
  <2>4. ret = "call" => steps'[k].status \notin Fresh /\ status \notin Fresh
    BY <1>4, <2>3 DEF Fresh
  <2>5. \A j \in Steps : \/ steps'[j].status = steps[j].status
                         \/ steps'[j].status \notin Fresh
                         \/ j = k /\ launches[k] = 0
    BY <1>4, <2>2
  <2> HIDE DEF k
  <2> QED BY <1>3, <1>4, <2>2, <2>4, <2>5
<1>5. ASSUME NEW label \in InStep \ {"call"}, Goto(Worker, label), Where \in InStep,
             UNCHANGED <<steps, mem, launches, wSteps>>
      PROVE  Once'
  <2>1. Where' = label
    BY <1>1, <1>5, GotoGoes DEF Where
  <2> HIDE DEF k
  <2> QED BY <1>3, <1>5, <2>1 DEF Once, k
<1>6. ASSUME NEW label \in Labels \ {"task", "env"}, label \notin InStep \cup {"begin"},
             Goto(Worker, label), UNCHANGED <<steps, launches>>
      PROVE  Once'
  <2>1. Where' = label
    BY <1>6, GotoGoes DEF Where
  <2> QED BY <1>2, <1>6, <2>1
<1>7. ASSUME NEW status, NEW ret \in {"load", "off"}, ChangeTask(Worker, status, ret),
             UNCHANGED <<steps, launches>>
      PROVE  Once'
  <2>1. Where' = ret
    BY <1>7, ChangeTaskEffect DEF Where
  <2> QED BY <1>1, <1>2, <1>7, <2>1
(* A start.                                                                 *)
<1>8. ASSUME Where = "call", Launch(k) \/ UNCHANGED launches, UNCHANGED wSteps,
             Where' \in InStep \ {"call"}, mem'[Worker].k = k,
             mem'[Worker].step.status \notin Fresh,
             \A j \in Steps : \/ steps'[j].status = steps[j].status
                              \/ steps'[j].status \notin Fresh
      PROVE  Once'
  <2>1. /\ launches[k] = 0 /\ steps[k].status \notin Fresh
        /\ \A j \in Steps : j > k /\ wSteps[j].status \in Fresh => launches[j] = 0
    BY <1>1, <1>8 DEF Once
  <2>2. \A j \in Steps : launches'[j] = launches[j] \/ (j = k /\ launches'[j] = 1)
    <3>1. CASE UNCHANGED launches
      BY <3>1
    <3>2. CASE Launch(k) /\ ~UNCHANGED launches
      <4>1. launches' = [launches EXCEPT ![k] = IF @ = MaxLaunches THEN @ ELSE @ + 1]
        BY <3>2 DEF Launch
      <4>2. launches[k] # MaxLaunches
        BY <2>1 DEF MaxLaunches
      <4> HIDE DEF k
      <4> QED BY <1>0, <2>1, <4>1, <4>2 DEF TypeOK
    <3> QED BY <1>8, <3>1, <3>2
  <2> HIDE DEF k
  <2>3. /\ \A j \in Steps : launches'[j] <= 1
        /\ \A j \in Steps : launches'[j] > 0 => steps'[j].status \notin Fresh
    BY <1>0, <1>8, <2>1, <2>2 DEF Once
  <2>4. \A j \in Steps : j > k /\ wSteps[j].status \in Fresh => launches'[j] = 0
    BY <1>0, <2>1, <2>2
  <2> QED BY <1>1, <1>8, <2>3, <2>4 DEF Once
<1>9. CASE Boot
  <2>1. CASE StartWorker
    BY <1>1, <1>6, <1>9, <2>1 DEF Boot, StartWorker
  <2>2. CASE UNCHANGED <<mem, pc>>
    BY <1>9, <2>2 DEF Boot, Once, Where
  <2> QED BY <1>9, <2>1, <2>2 DEF Boot
<1>10. CASE PickPending
  BY <1>1, <1>6, <1>10 DEF PickPending, StartWorker
<1>11. CASE Enter
  BY <1>1, <1>6, <1>7, <1>11 DEF Enter
<1>12. CASE StartFailed
  BY <1>7, <1>12 DEF StartFailed
<1>13. CASE LoadSteps
  <2>1. Where' = "begin" /\ wSteps' = steps /\ UNCHANGED <<steps, launches>>
    BY <1>13, GotoGoes DEF LoadSteps, Where
  <2>2. \A j \in Steps : steps[j].status \in Fresh => launches[j] = 0
    BY <1>0 DEF Once
  <2> QED BY <1>1, <2>1, <2>2 DEF Once
<1>14. CASE BeginStep
  <2> DEFINE new == [mem[Worker] EXCEPT !.task.currStep = k, !.step = wSteps[k]]
  <2>1. mem' = [mem EXCEPT ![Worker] = new] /\ UNCHANGED <<steps, wSteps, launches>>
    BY <1>14 DEF BeginStep
  <2>2. new.k = k /\ new.step = wSteps[k]
    BY DEF MemRow
  <2> HIDE DEF new
  <2>3. mem'[Worker].k = k /\ mem'[Worker].step = wSteps[k]
    BY <2>1, <2>2 DEF TypeOK
  <2>4. Where = "begin" /\ Where' = "gate"
    BY <1>14, GotoGoes DEF BeginStep, Where
  <2>5. \A j \in Steps : j >= k /\ wSteps[j].status \in Fresh => launches[j] = 0
    BY <2>4 DEF Once
  <2> HIDE DEF k
  <2>6. /\ wSteps[k].status \in Fresh => launches[k] = 0
        /\ \A j \in Steps : j > k /\ wSteps[j].status \in Fresh => launches[j] = 0
    BY <1>0, <2>5
  <2>7. /\ \A j \in Steps : launches[j] <= 1
        /\ \A j \in Steps : launches[j] > 0 => steps[j].status \notin Fresh
    BY DEF Once
  <2> QED BY <1>1, <2>1, <2>3, <2>4, <2>6, <2>7 DEF Once
<1>15. CASE Gate
  <2>1. Where = "gate"
    BY <1>15 DEF Gate, Where
  <2>2. CASE MustApproval(k) /\ ChangeStep(Worker, "approving", FALSE, "poll")
    BY <1>0, <1>1, <1>4, <1>15, <2>1, <2>2 DEF Gate
  <2>3. CASE Goto(Worker, "drive") /\ UNCHANGED <<steps, mem>>
    BY <1>1, <1>5, <1>15, <2>1, <2>3 DEF Gate
  <2> QED BY <1>15, <2>2, <2>3 DEF Gate
<1>16. CASE PollApproval
  <2>1. Where = "poll"
    BY <1>16 DEF PollApproval, Where
  <2>2. CASE Goto(Worker, "after") /\ UNCHANGED mem
    BY <1>1, <1>6, <1>16, <2>2 DEF PollApproval
  <2>3. CASE /\ mem' = [mem EXCEPT ![Worker].step = steps[k]]
             /\ Goto(Worker, "drive")
    <3>1. Where' = "drive"
      BY <2>3, GotoGoes DEF Where
    <3>2. mem'[Worker].k = k /\ mem'[Worker].step = steps[k]
      BY <2>3 DEF TypeOK, MemRow
    <3>3. steps[k].status \in Fresh => launches[k] = 0
      <4>1. \A j \in Steps : steps[j].status \in Fresh => launches[j] = 0
        BY <1>0 DEF Once
      <4> HIDE DEF k
      <4> QED BY <1>0, <4>1
    <3>4. UNCHANGED <<steps, launches, wSteps>>
      BY <1>16 DEF PollApproval
    <3> HIDE DEF k
    <3> QED BY <1>1, <1>3, <2>1, <3>1, <3>2, <3>3, <3>4
  <2> QED BY <1>16, <2>2, <2>3 DEF PollApproval
<1>17. CASE Drive
  <2>1. Where = "drive" /\ UNCHANGED <<launches, wSteps>>
    BY <1>17 DEF Drive, Where
  <2>2. CASE mem[Worker].step.status \in Fresh
    <3>1. ChangeStep(Worker, "running", FALSE, "call")
      BY <1>17, <2>2 DEF Drive, Fresh
    <3>2. launches[k] = 0
      BY <1>1, <2>1, <2>2 DEF Once
    <3>3. mem[Worker].step.status # "running"
      BY <2>2 DEF Fresh
    <3> QED BY <1>1, <1>4, <2>1, <3>1, <3>2, <3>3
  <2>3. CASE mem[Worker].step.status \notin Fresh
    <3>1. /\ Goto(Worker, "watch") \/ Goto(Worker, "judge")
          /\ UNCHANGED <<steps, mem>>
      BY <1>17, <2>3 DEF Drive, Fresh
    <3> QED BY <1>1, <1>5, <2>1, <3>1
  <2> QED BY <2>2, <2>3
<1>18. CASE CallRunner \/ CallFails
  <2>1. Where = "call" /\ UNCHANGED wSteps /\ (Launch(k) \/ UNCHANGED launches)
    BY <1>18 DEF CallRunner, CallFails, Where
  <2>2. CASE \E status \in {"aborted", "failed"} : ChangeStep(Worker, status, TRUE, "judge")
    <3>1. PICK status \in {"aborted", "failed"} : ChangeStep(Worker, status, TRUE, "judge")
      BY <2>2
    <3>2. /\ \A j \in Steps : steps'[j].status = steps[j].status \/ steps'[j].status = status
          /\ mem'[Worker].k = k /\ mem'[Worker].step.status = status /\ Where' = "judge"
      <4>1. status \in StepStatuses /\ "judge" \in Labels \ {"task", "env"}
        BY DEF StepStatuses
      <4> QED BY <3>1, <4>1, ChangeStepEffect, ZenonT(60)
    <3>3. status \notin Fresh
      BY DEF Fresh
    <3> QED BY <1>1, <1>8, <2>1, <3>2, <3>3
  <2>3. CASE /\ Goto(Worker, "drive") \/ Goto(Worker, "saveCid")
             /\ UNCHANGED <<steps, mem>>
    <3>1. Where' \in {"drive", "saveCid"}
      BY <2>3, GotoGoes DEF Where
    <3>2. mem[Worker].step.status \notin Fresh
      BY <2>1 DEF Once
    <3> QED BY <1>1, <1>8, <2>1, <2>3, <3>1, <3>2
  <2> QED BY <1>18, <2>2, <2>3 DEF CallRunner, CallFails
<1>19. CASE SaveContainer
  <2>1. Where = "saveCid"
    BY <1>19 DEF SaveContainer, Where
  <2> QED BY <1>1, <1>5, <1>19, <2>1 DEF SaveContainer
<1>20. CASE Watch \/ WatchFails
  <2>1. Where = "watch" /\ UNCHANGED <<launches, wSteps>>
    BY <1>20 DEF Watch, WatchFails, Where
  <2>2. PICK status \in StepStatuses \ Fresh, msg \in BOOLEAN, ret \in {"settle", "judge"} :
          ChangeStep(Worker, status, msg, ret)
    BY <1>20 DEF Watch, WatchFails, Fresh
  <2> QED BY <1>1, <1>4, <2>1, <2>2
<1>21. CASE Settle
  <2>1. Where = "settle"
    BY <1>21 DEF Settle, Where
  <2> QED BY <1>1, <1>5, <1>21, <2>1 DEF Settle
<1>22. CASE Judge
  <2>1. CASE k < Len(Flow) /\ mem' = [mem EXCEPT ![Worker].k = k + 1] /\ Goto(Worker, "begin")
    <3>1. Where = "judge" /\ Where' = "begin" /\ UNCHANGED <<steps, wSteps, launches>>
      BY <1>22, <2>1, GotoGoes DEF Judge, Where
    <3>2. mem'[Worker].k = k + 1
      BY <2>1 DEF TypeOK, MemRow
    <3>3. \A j \in Steps : j > k /\ wSteps[j].status \in Fresh => launches[j] = 0
      BY <1>1, <3>1 DEF Once
    <3> HIDE DEF k
    <3>4. \A j \in Steps : j >= k + 1 /\ wSteps[j].status \in Fresh => launches[j] = 0
      BY <1>0, <3>3
    <3>5. /\ \A j \in Steps : launches[j] <= 1
          /\ \A j \in Steps : launches[j] > 0 => steps[j].status \notin Fresh
      BY DEF Once
    <3> QED BY <1>1, <3>1, <3>2, <3>4, <3>5 DEF Once
  <2>2. CASE Goto(Worker, "after")
    BY <1>1, <1>6, <1>22, <2>2 DEF Judge
  <2> QED BY <1>22, <2>1, <2>2 DEF Judge
<1>23. CASE AfterSteps
  BY <1>1, <1>6, <1>23 DEF AfterSteps
<1>24. CASE LastStep
  <2>1. CASE Goto(Worker, "off")
    BY <1>1, <1>6, <1>24, <2>1 DEF LastStep
  <2>2. CASE /\ mem' = [mem EXCEPT ![Worker] =
                  [mem[Worker] EXCEPT !.step = steps[mem[Worker].task.currStep],
                                      !.k = mem[Worker].task.currStep, !.ret = "off"]]
             /\ Goto(Worker, "task")
    <3>1. mem'[Worker].ret = "off" /\ pc'[Worker] = "task"
      BY <2>2, GotoGoes, SMTT(30) DEF TypeOK, MemRow
    <3>2. Where' = "off"
      BY <3>1 DEF Where
    <3> QED BY <1>1, <1>2, <1>24, <3>2 DEF LastStep
  <2> QED BY <1>24, <2>1, <2>2 DEF LastStep
(* Whatever leaves the worker's place and copies alone.                     *)
<1>25. ASSUME Where' = Where, mem'[Worker].k = k, mem'[Worker].step = mem[Worker].step,
              UNCHANGED <<launches, wSteps>>,
              \A j \in Steps : \/ steps'[j].status = steps[j].status
                               \/ steps'[j].status \notin Fresh
       PROVE  Once'
  <2> HIDE DEF k
  <2> QED BY <1>0, <1>25 DEF Once, k
<1>26. CASE WriteTask(Worker)
  <2>1. CASE ChangeTask(Worker, StepToTask(mem[Worker].step.status), mem[Worker].ret)
    <3>1. Where' = Where
      BY <1>26, <2>1, ChangeTaskEffect DEF WriteTask, Where
    <3> QED BY <1>25, <1>26, <2>1, <3>1, ChangeTaskEffect DEF WriteTask
  <2>2. CASE Goto(Worker, mem[Worker].ret) /\ UNCHANGED <<task, mem>>
    <3>1. Where' = Where
      BY <1>26, <2>2 DEF WriteTask, Goto, Where, TypeOK
    <3> QED BY <1>25, <1>26, <2>2, <3>1 DEF WriteTask
  <2> QED BY <1>26, <2>1, <2>2 DEF WriteTask
<1>27. CASE WriteEnv(Worker)
  <2>1. Where' = Where
    BY <1>27 DEF WriteEnv, Goto, Where, TypeOK
  <2> QED BY <1>25, <1>27, <2>1 DEF WriteEnv
<1>28. ASSUME NEW s \in Sessions, SessionStart(s) \/ SessionStep(s) PROVE Once'
  <2>1. /\ mem'[Worker] = mem[Worker] /\ pc'[Worker] = pc[Worker]
        /\ UNCHANGED <<wSteps, launches>>
        /\ \A j \in Steps : \/ steps'[j].status = steps[j].status
                            \/ steps'[j].status \in {"rejected", "aborted"}
    BY <1>0, <1>28, SessionOwn
  <2>2. Where' = Where
    BY <2>1 DEF Where
  <2>3. \A j \in Steps : \/ steps'[j].status = steps[j].status
                         \/ steps'[j].status \notin Fresh
    BY <2>1 DEF Fresh
  <2> QED BY <1>25, <2>1, <2>2, <2>3
<1>29. CASE Crash
  <2>1. Where' = "off"
    BY <1>29 DEF Crash, Where
  <2> QED BY <1>1, <1>2, <1>29, <2>1 DEF Crash
<1>30. CASE UNCHANGED vars \/ \E j \in Steps : ExecEnds(j) \/ SaveExit(j)
  BY <1>25, <1>30 DEF vars, ExecEnds, SaveExit, Where
<1> QED BY <1>9, <1>10, <1>11, <1>12, <1>13, <1>14, <1>15, <1>16, <1>17, <1>18, <1>19, <1>20,
           <1>21, <1>22, <1>23, <1>24, <1>26, <1>27, <1>28, <1>29, <1>30
        DEF Next, WorkerStep

(* Where nothing is tried again and nobody approves, no crash, recovery,    *)
(* lost exchange, abort or rejection starts a command a second time.        *)
THEOREM LaunchCorrect ==
  ASSUME ~RetryAble, NoneApproves
  PROVE  Spec => []LaunchBound
<1>1. Init => Once
  <2> SUFFICES ASSUME Init PROVE Once
    OBVIOUS
  <2>1. Where = "off" /\ \A k \in Steps : launches[k] = 0
    BY ProcsFacts DEF Init, Where
  <2> QED BY <2>1 DEF Once, InStep, InDrive
<1>2. TypeOK /\ TypeOK' /\ PipelineInv /\ Answers /\ Once /\ [Next]_vars => Once'
  BY OnceStep
<1>3. Once => LaunchBound
  BY DEF Once, LaunchBound
<1> QED BY <1>1, <1>2, <1>3, TypeCorrect, PipelineCorrect, AnswersCorrect, PTL DEF Spec

-----------------------------------------------------------------------------
(* What has exited stays exited.                                            *)

(* The worker writes an exited status last of all: from then on it only     *)
(* reports it to the environment.                                           *)
Final ==
    /\ TaskExited(task.status) =>
         \/ pc[Worker] = "off"
         \/ /\ pc[Worker] = "env" /\ mem[Worker].ret = "off"
            /\ mem[Worker].task.status = task.status
    /\ pc[Worker] = "task" => \/ mem[Worker].ret = "off"
                              \/ ~StepExited(mem[Worker].step.status)
    /\ pc[Worker] \in WorkerLabels \cup {"task", "env"} /\ mem[Worker].ret \in WorkerLabels

LEMMA FinalStep ==
  ASSUME NoneCalls, TypeOK, TypeOK', Answers, Final, [Next]_vars
  PROVE  Final' /\ (TaskExited(task.status) => task'.status = task.status)
<1> USE ProcsFacts, LabelFacts, MemFacts DEF dbVars, runVars, workVars, histVars, bounds, WorkerLabels
<1> DEFINE Goal == Final' /\ (TaskExited(task.status) => task'.status = task.status)
<1>1. \A s \in Sessions : ~SessionStart(s) /\ ~SessionStep(s)
  BY InertStep DEF Answers
<1>2. pc[Worker] \notin {"off", "env"} => ~TaskExited(task.status)
  BY DEF Final
(* A step that only moves on.                                               *)
<1>3. ASSUME UNCHANGED task, pc'[Worker] \in WorkerLabels, mem'[Worker].ret \in WorkerLabels,
             pc[Worker] # "env", TaskExited(task.status) => pc'[Worker] = "off"
      PROVE  Goal
  BY <1>3 DEF Final
<1>4. ASSUME NEW label \in WorkerLabels, Goto(Worker, label), UNCHANGED task,
             mem'[Worker].ret = mem[Worker].ret, pc[Worker] \notin {"off", "env"}
      PROVE  Goal
  <2>1. pc'[Worker] = label
    BY <1>4, GotoGoes
  <2>2. mem[Worker].ret \in WorkerLabels
    BY DEF Final
  <2> QED BY <1>2, <1>3, <1>4, <2>1, <2>2
<1>5. ASSUME NEW status \in StepStatuses \ {"rejected"}, NEW msg \in BOOLEAN,
             NEW ret \in WorkerLabels, ChangeStep(Worker, status, msg, ret),
             UNCHANGED task, pc[Worker] \notin {"off", "env"}
      PROVE  Goal
  <2>1. /\ pc'[Worker] = ret \/ (pc'[Worker] = "task" /\ ~StepExited(status))
        /\ mem'[Worker].ret \in {mem[Worker].ret, ret}
    BY <1>5, ChangeStepGoes
  <2>2. mem'[Worker].step.status = status
    BY <1>5, ChangeStepEffect
  <2>3. ~TaskExited(task.status) /\ mem[Worker].ret \in WorkerLabels
    BY <1>2, <1>5 DEF Final
  <2> QED BY <1>5, <2>1, <2>2, <2>3 DEF Final
<1>6. ASSUME NEW status \in TaskStatuses, NEW ret \in WorkerLabels,
             ChangeTask(Worker, status, ret), TaskExited(status) => ret = "off",
             pc[Worker] \notin {"off", "env"}
      PROVE  Goal
  <2>1. task'.status = status /\ mem'[Worker].task.status = status
    BY <1>6, ChangeTaskSays
  <2>2. pc'[Worker] = "env" /\ mem'[Worker].ret = ret
    BY <1>6, ChangeTaskEffect
  <2> QED BY <1>2, <1>6, <2>1, <2>2 DEF Final
<1>7. CASE Boot \/ PickPending
  <2>1. ASSUME StartWorker, ~TaskExited(task.status), UNCHANGED task PROVE Goal
    <3>1. [mem[Worker] EXCEPT !.task = task].ret = mem[Worker].ret
      BY DEF MemRow
    <3>2. mem'[Worker].ret = mem[Worker].ret
      BY <2>1, <3>1 DEF StartWorker, TypeOK
    <3>3. pc'[Worker] = "enter"
      BY <2>1, GotoGoes DEF StartWorker
    <3> QED BY <2>1, <3>2, <3>3 DEF Final
  <2>2. CASE Boot /\ UNCHANGED <<mem, pc>>
    BY <2>2 DEF Boot, Final
  <2> QED BY <1>7, <2>1, <2>2 DEF Boot, PickPending, TaskRecoverable, TaskExited
<1>8. CASE Enter
  <2>1. "running" \in TaskStatuses /\ ~TaskExited("running")
    BY DEF TaskStatuses, TaskExited
  <2> QED BY <1>4, <1>6, <1>8, <2>1 DEF Enter
<1>9. CASE StartFailed
  <2>1. "failed" \in TaskStatuses
    BY DEF TaskStatuses
  <2> QED BY <1>6, <1>9, <2>1 DEF StartFailed
<1>10. CASE WriteTask(Worker)
  <2> DEFINE status == StepToTask(mem[Worker].step.status)
  <2>1. status \in TaskStatuses /\ mem[Worker].ret \in WorkerLabels
    BY StepToTaskType DEF Final
  <2>2. TaskExited(status) => mem[Worker].ret = "off"
    <3>1. CASE mem[Worker].ret = "off"
      BY <3>1
    <3>2. CASE ~StepExited(mem[Worker].step.status)
      <4>1. status \in {"running", "approving"}
        BY <3>2 DEF StepToTask, StepExited, StepStatuses
      <4> QED BY <4>1 DEF TaskExited
    <3> QED BY <1>10, <3>1, <3>2 DEF Final, WriteTask
  <2> HIDE DEF status
  <2>3. CASE ChangeTask(Worker, status, mem[Worker].ret)
    BY <1>6, <1>10, <2>1, <2>2, <2>3 DEF WriteTask
  <2>4. CASE Goto(Worker, mem[Worker].ret) /\ UNCHANGED <<task, mem>>
    BY <1>4, <1>10, <2>1, <2>4 DEF WriteTask
  <2> QED BY <1>10, <2>3, <2>4 DEF WriteTask, status
<1>11. CASE WriteEnv(Worker)
  <2>1. pc[Worker] = "env" /\ UNCHANGED <<task, mem>> /\ pc'[Worker] = mem[Worker].ret
    BY <1>11, GotoGoes DEF WriteEnv
  <2> QED BY <2>1 DEF Final
<1>12. CASE LoadSteps
  <2>1. mem'[Worker].ret = mem[Worker].ret
    BY <1>12 DEF LoadSteps, TypeOK, MemRow
  <2> QED BY <1>4, <1>12, <2>1 DEF LoadSteps
<1>13. CASE BeginStep
  <2> DEFINE new == [mem[Worker] EXCEPT !.task.currStep = mem[Worker].k,
                                        !.step = wSteps[mem[Worker].k]]
  <2>1. new.ret = mem[Worker].ret
    BY DEF MemRow
  <2>2. mem' = [mem EXCEPT ![Worker] = new] /\ task' = [task EXCEPT !.currStep = mem[Worker].k]
    BY <1>13 DEF BeginStep
  <2> HIDE DEF new
  <2>3. mem'[Worker].ret = mem[Worker].ret /\ task'.status = task.status
    BY <2>1, <2>2 DEF TypeOK, TaskRow
  <2>4. pc[Worker] = "begin" /\ pc'[Worker] = "gate"
    BY <1>13, GotoGoes DEF BeginStep
  <2> QED BY <1>2, <2>3, <2>4 DEF Final
<1>14. CASE Gate \/ Drive \/ Watch \/ WatchFails \/ Settle
  BY <1>4, <1>5, <1>14 DEF Gate, Drive, Watch, WatchFails, Settle
<1>15. CASE PollApproval
  <2>1. mem'[Worker].ret = mem[Worker].ret
    BY <1>15 DEF PollApproval, TypeOK, MemRow
  <2> QED BY <1>4, <1>15, <2>1 DEF PollApproval
<1>16. CASE CallRunner
  BY <1>4, <1>5, <1>16 DEF CallRunner
<1>17. CASE CallFails
  <2>1. CASE ~RetryAble /\ ChangeStep(Worker, "failed", TRUE, "judge")
    BY <1>5, <1>17, <2>1 DEF CallFails
  <2>2. CASE Goto(Worker, "drive") /\ UNCHANGED <<steps, mem>>
    BY <1>4, <1>17, <2>2 DEF CallFails
  <2>3. CASE /\ mem' = [mem EXCEPT ![Worker] =
                  [mem[Worker] EXCEPT !.step = Mark(mem[Worker].step, "pending", TRUE),
                                      !.ret = "drive"]]
             /\ Goto(Worker, "task")
    <3> DEFINE new == [mem[Worker] EXCEPT !.step = Mark(mem[Worker].step, "pending", TRUE),
                                          !.ret = "drive"]
    <3>1. new.ret = "drive" /\ new.step = Mark(mem[Worker].step, "pending", TRUE)
      BY DEF MemRow
    <3>2. new.step.status = "pending"
      <4>1. Mark(mem[Worker].step, "pending", TRUE).status = "pending"
        BY MarkType, ZenonT(60)
      <4> HIDE DEF new
      <4> QED BY <3>1, <4>1
    <3> HIDE DEF new
    <3>3. mem'[Worker].ret = "drive" /\ mem'[Worker].step.status = "pending"
      BY <2>3, <3>1, <3>2 DEF TypeOK, new
    <3>4. pc'[Worker] = "task" /\ pc[Worker] = "call" /\ UNCHANGED task
      BY <1>17, <2>3, GotoGoes DEF CallFails
    <3> QED BY <1>2, <3>3, <3>4 DEF Final, StepExited
  <2> QED BY <1>17, <2>1, <2>2, <2>3 DEF CallFails
<1>18. CASE SaveContainer
  <2>1. task'.status = task.status /\ UNCHANGED mem
    BY <1>18 DEF SaveContainer, TypeOK, TaskRow
  <2>2. pc[Worker] = "saveCid" /\ pc'[Worker] = "drive"
    BY <1>18, GotoGoes DEF SaveContainer
  <2> QED BY <1>2, <2>1, <2>2 DEF Final
<1>19. CASE Judge
  <2>1. mem'[Worker].ret = mem[Worker].ret
    BY <1>19 DEF Judge, TypeOK, MemRow
  <2> QED BY <1>4, <1>19, <2>1 DEF Judge
<1>20. CASE AfterSteps
  <2>1. mem'[Worker].ret = mem[Worker].ret
    <3>1. [mem[Worker] EXCEPT !.task = task].ret = mem[Worker].ret
      BY DEF MemRow
    <3> QED BY <1>20, <3>1 DEF AfterSteps, TypeOK
  <2> QED BY <1>4, <1>20, <2>1 DEF AfterSteps
<1>21. CASE LastStep
  <2>1. CASE Goto(Worker, "off") /\ UNCHANGED mem
    BY <1>4, <1>21, <2>1 DEF LastStep
  <2>2. CASE /\ mem' = [mem EXCEPT ![Worker] =
                  [mem[Worker] EXCEPT !.step = steps[mem[Worker].task.currStep],
                                      !.k = mem[Worker].task.currStep, !.ret = "off"]]
             /\ Goto(Worker, "task")
    <3>1. mem'[Worker].ret = "off" /\ pc'[Worker] = "task"
      BY <2>2, GotoGoes, SMTT(30) DEF TypeOK, MemRow
    <3>2. pc[Worker] = "last" /\ UNCHANGED task
      BY <1>21 DEF LastStep
    <3> QED BY <1>2, <3>1, <3>2 DEF Final
  <2> QED BY <1>21, <2>1, <2>2 DEF LastStep
<1>22. CASE Crash
  BY <1>22 DEF Crash, Final
<1>23. CASE UNCHANGED vars \/ \E j \in Steps : ExecEnds(j) \/ SaveExit(j)
  BY <1>23 DEF vars, ExecEnds, SaveExit, Final
<1> QED BY <1>1, <1>7, <1>8, <1>9, <1>10, <1>11, <1>12, <1>13, <1>14, <1>15, <1>16, <1>17,
           <1>18, <1>19, <1>20, <1>21, <1>22, <1>23 DEF Next, WorkerStep

LEMMA FinalInit == Init => Final
<1> SUFFICES ASSUME Init PROVE Final
  OBVIOUS
<1>1. task.status = "pending" /\ pc[Worker] = "off" /\ mem[Worker].ret = "off"
  BY ProcsFacts DEF Init, NewTask
<1> QED BY <1>1 DEF Final, TaskExited, WorkerLabels

(* Where no call comes in between, what the worker holds and what it has    *)
(* written agree: the invariant behind the next theorem.                    *)
THEOREM FinalAlways ==
  ASSUME NoneCalls
  PROVE  Spec => []Final
BY FinalInit, FinalStep, TypeCorrect, AnswersCorrect, PTL DEF Spec

(* While nobody calls, or the only calls are answers to a task that asks    *)
(* nothing, a task that has exited keeps its status, through every crash    *)
(* and recovery.                                                            *)
THEOREM FinalCorrect ==
  ASSUME NoneCalls
  PROVE  Spec => ExitedIsFinal
<1>1. TypeOK /\ TypeOK' /\ Answers /\ Final /\ [Next]_vars
        => [TaskExited(task.status) => task'.status = task.status]_vars
  BY FinalStep
<1> QED BY <1>1, FinalAlways, TypeCorrect, AnswersCorrect, PTL DEF Spec, ExitedIsFinal
-----------------------------------------------------------------------------
(* The environment follows.                                                 *)

(* The status of the task is written on the way to the environment.         *)
LEMMA StatusWritten ==
  ASSUME NoneCalls, TypeOK, Answers, [Next]_vars, task'.status # task.status
  PROVE  pc'[Worker] = "env"
<1> USE ProcsFacts, LabelFacts, MemFacts DEF dbVars, runVars, workVars, histVars, bounds
<1>1. \A s \in Sessions : ~SessionStart(s) /\ ~SessionStep(s)
  BY InertStep DEF Answers
<1>2. ASSUME NEW status, NEW ret \in Labels, ChangeTask(Worker, status, ret)
      PROVE  pc'[Worker] = "env"
  BY <1>2, ChangeTaskEffect
<1>3. ~BeginStep /\ ~SaveContainer
  BY DEF BeginStep, SaveContainer, TypeOK, TaskRow
<1>4. ~Boot /\ ~PickPending /\ ~LoadSteps /\ ~Gate /\ ~PollApproval /\ ~Drive
  BY DEF Boot, PickPending, LoadSteps, Gate, PollApproval, Drive
<1>5. ~CallRunner /\ ~CallFails /\ ~Watch /\ ~WatchFails /\ ~Settle /\ ~Judge
  BY DEF CallRunner, CallFails, Watch, WatchFails, Settle, Judge
<1>6. ~AfterSteps /\ ~LastStep /\ ~WriteEnv(Worker) /\ ~Crash /\ ~UNCHANGED vars
  BY DEF AfterSteps, LastStep, WriteEnv, Crash, vars
<1>7. \A k \in Steps : ~ExecEnds(k) /\ ~SaveExit(k)
  BY DEF ExecEnds, SaveExit
<1>8. CASE Enter \/ StartFailed \/ WriteTask(Worker)
  BY <1>2, <1>8 DEF Enter, StartFailed, WriteTask
<1> QED BY <1>1, <1>3, <1>4, <1>5, <1>6, <1>7, <1>8 DEF Next, WorkerStep

(* Only the worker writes the environment.                                  *)
LEMMA EnvWritten ==
  ASSUME NoneCalls, TypeOK, Answers, [Next]_vars, ~WriteEnv(Worker)
  PROVE  UNCHANGED env
<1> USE DEF dbVars
<1>1. \A s \in Sessions : ~SessionStart(s) /\ ~SessionStep(s)
  BY InertStep DEF Answers
<1>2. Boot \/ PickPending \/ Enter \/ LoadSteps \/ StartFailed \/ BeginStep => UNCHANGED env
  BY DEF Boot, PickPending, Enter, LoadSteps, StartFailed, BeginStep
<1>3. Gate \/ PollApproval \/ Drive \/ CallRunner \/ SaveContainer \/ CallFails => UNCHANGED env
  BY DEF Gate, PollApproval, Drive, CallRunner, SaveContainer, CallFails
<1>4. Watch \/ WatchFails \/ Settle \/ Judge \/ AfterSteps \/ LastStep => UNCHANGED env
  BY DEF Watch, WatchFails, Settle, Judge, AfterSteps, LastStep
<1>5. Crash \/ WriteTask(Worker) \/ UNCHANGED vars => UNCHANGED env
  BY DEF Crash, WriteTask, vars
<1>6. (\E k \in Steps : ExecEnds(k) \/ SaveExit(k)) => UNCHANGED env
  BY DEF ExecEnds, SaveExit
<1> QED BY <1>1, <1>2, <1>3, <1>4, <1>5, <1>6 DEF Next, WorkerStep

(* Only a crash is counted as one.                                          *)
LEMMA CrashesKept ==
  ASSUME [Next]_vars, ~Crash
  PROVE  UNCHANGED crashes
<1> USE DEF bounds, Fault
<1>1. ASSUME NEW p \in Procs, WriteTask(p) \/ WriteEnv(p) PROVE UNCHANGED crashes
  BY <1>1 DEF WriteTask, WriteEnv
<1>2. ASSUME NEW s \in Sessions, SessionStart(s) \/ SessionStep(s) PROVE UNCHANGED crashes
  <2>1. s \in Procs
    BY DEF Procs
  <2> QED BY <1>1, <1>2, <2>1
          DEF SessionStart, SessionStep, AnswerCheck, AbortRead, Sign, Reread, Grant, Refuse,
              AbortPending, AbortApproving, AbortRunning, AbortSend
<1>3. Boot \/ PickPending \/ Enter \/ LoadSteps \/ StartFailed \/ BeginStep => UNCHANGED crashes
  BY DEF Boot, PickPending, Enter, LoadSteps, StartFailed, BeginStep
<1>4. Gate \/ PollApproval \/ Drive \/ CallRunner \/ SaveContainer \/ CallFails
        => UNCHANGED crashes
  BY DEF Gate, PollApproval, Drive, CallRunner, SaveContainer, CallFails
<1>5. Watch \/ WatchFails \/ Settle \/ Judge \/ AfterSteps \/ LastStep => UNCHANGED crashes
  BY DEF Watch, WatchFails, Settle, Judge, AfterSteps, LastStep
<1>6. UNCHANGED vars \/ (\E k \in Steps : ExecEnds(k) \/ SaveExit(k)) => UNCHANGED crashes
  BY DEF ExecEnds, SaveExit, vars
<1> QED BY ProcsFacts, <1>1, <1>2, <1>3, <1>4, <1>5, <1>6 DEF Next, WorkerStep

(* The worker leaves its place for good through the environment.            *)
Reported ==
    crashes = 0 /\ pc[Worker] = "off" /\ TaskExited(task.status) /\ IsEffectTask(TaskType)
      => ~env.deploying /\ env.taskStatus = ""

LEMMA ReportedStep ==
  ASSUME NoneCalls, TypeOK, TypeOK', Answers, Final, Reported, [Next]_vars
  PROVE  Reported'
<1> SUFFICES ASSUME crashes' = 0, pc'[Worker] = "off", TaskExited(task'.status),
                    IsEffectTask(TaskType)
             PROVE  ~env'.deploying /\ env'.taskStatus = ""
  BY DEF Reported
<1>1. task'.status = task.status
  BY StatusWritten
<1>2. pc[Worker] \in {"off", "env"}
  BY <1>1 DEF Final
<1>3. CASE WriteEnv(Worker)
  <2>1. pc[Worker] = "env"
    BY <1>3 DEF WriteEnv
  <2>2. mem[Worker].task.status = task.status
    BY <1>1, <2>1 DEF Final
  <2>3. TaskStarted(mem[Worker].task.status) /\ TaskExited(mem[Worker].task.status)
    BY <1>1, <2>2 DEF TaskStarted, TaskExited
  <2> DEFINE touched == \E k \in Steps : /\ Flow[k] \in {"apply", "destroy"}
                                         /\ StepStarted(steps[k].status)
  <2>4. env' = EnvAfter(env, TaskType, mem[Worker].task.status, touched)
    BY <1>3 DEF WriteEnv
  <2> HIDE DEF touched
  <2> QED BY <2>3, <2>4 DEF EnvAfter
<1>4. CASE ~WriteEnv(Worker)
  <2>1. UNCHANGED env
    BY <1>4, EnvWritten
  <2>2. ~Crash
    BY DEF Crash, TypeOK
  <2>3. crashes = 0
    <3>1. UNCHANGED crashes
      BY <2>2, CrashesKept
    <3> QED BY <3>1
  <2>4. pc[Worker] # "env"
    <3> SUFFICES ASSUME pc[Worker] = "env" PROVE FALSE
      OBVIOUS
    <3>1. ~WorkerStep
      BY <1>4 DEF WorkerStep, WriteTask, PickPending, Enter, LoadSteps, StartFailed,
            BeginStep, Gate, PollApproval, Drive, CallRunner, SaveContainer, CallFails,
            Watch, WatchFails, Settle, Judge, AfterSteps, LastStep
    <3>2. ~Boot
      BY ProcsFacts, LabelFacts, GotoGoes DEF Boot, StartWorker
    <3>3. \A s \in Sessions : ~SessionStart(s) /\ ~SessionStep(s)
      BY InertStep DEF Answers
    <3> QED BY <2>2, <3>1, <3>2, <3>3 DEF Next, vars, ExecEnds, SaveExit
  <2> QED BY <1>1, <1>2, <2>1, <2>3, <2>4 DEF Reported
<1> QED BY <1>3, <1>4

LEMMA ReportedAlways ==
  ASSUME NoneCalls
  PROVE  Spec => []Reported
<1>1. Init => Reported
  <2> SUFFICES ASSUME Init PROVE Reported
    OBVIOUS
  <2>1. task.status = "pending"
    BY DEF Init, NewTask
  <2> QED BY <2>1 DEF Reported, TaskExited
<1> QED BY <1>1, ReportedStep, TypeCorrect, AnswersCorrect, FinalAlways, PTL DEF Spec

(* While no portal dies, the environment of a task nobody answers agrees    *)
(* with it once all is at rest, whatever exchanges with the runner fail.    *)
THEOREM EnvCorrect == Spec => []EnvFollowsTask
<1>1. CASE NoneCalls
  <2>1. Final /\ Reported => EnvFollowsTask
    BY ProcsFacts DEF Final, Reported, EnvFollowsTask, AtRest, WorkerLabels
  <2> QED BY <1>1, <2>1, FinalAlways, ReportedAlways, PTL
<1>2. CASE ~NoneCalls
  <2>1. EnvFollowsTask
    BY <1>2 DEF EnvFollowsTask, NoneCalls
  <2> QED BY <2>1, PTL
<1> QED BY <1>1, <1>2
-----------------------------------------------------------------------------
(* No command is left running.                                              *)

(* What the worker knows of where it is.                                    *)
Placed ==
    /\ ~control
    /\ reqCid => task.cid
    /\ mem[Worker].task.cid => task.cid
    /\ Where \in InStep => task.currStep = mem[Worker].k
    /\ Where = "call" => /\ steps[mem[Worker].k].status = "running"
                         /\ mem[Worker].step.status = "running"

LEMMA PlacedStep ==
  ASSUME NoneCalls, TypeOK, TypeOK', Answers, Placed, [Next]_vars
  PROVE  Placed'
<1> USE ProcsFacts, LabelFacts, MemFacts DEF dbVars, runVars, workVars, histVars, bounds
<1> DEFINE k == mem[Worker].k
<1>1. \A s \in Sessions : ~SessionStart(s) /\ ~SessionStep(s)
  BY InertStep DEF Answers
<1>2. InStep = {"gate", "poll", "drive", "call", "saveCid", "watch", "settle", "judge"}
  BY DEF InStep, InDrive
<1>3. control \in BOOLEAN /\ task.cid \in BOOLEAN /\ reqCid \in BOOLEAN
  BY DEF TypeOK, TaskRow
(* The worker away from any step.                                           *)
<1>4. ASSUME UNCHANGED <<control, reqCid>>, task.cid => task'.cid,
             mem'[Worker].task.cid => mem[Worker].task.cid \/ task'.cid,
             Where' \notin InStep
      PROVE  Placed'
  BY <1>2, <1>4 DEF Placed
(* The worker within its step.                                              *)
<1>5. ASSUME UNCHANGED <<control, reqCid>>, task.cid => task'.cid,
             task'.currStep = task.currStep,
             mem'[Worker].task.cid => mem[Worker].task.cid, mem'[Worker].k = k,
             Where' # "call", Where \in InStep
      PROVE  Placed'
  <2> HIDE DEF k
  <2> QED BY <1>5 DEF Placed, k
<1>6. ASSUME NEW status \in StepStatuses, NEW msg \in BOOLEAN,
             NEW ret \in InStep, ChangeStep(Worker, status, msg, ret),
             Where \in InStep, UNCHANGED <<control, reqCid, task>>,
             ret = "call" => status = "running" /\ mem[Worker].step.status # "running"
      PROVE  Placed'
  <2>1. ret \in Labels \ {"task", "env"}
    BY <1>2
  <2>2. /\ mem'[Worker].k = k /\ mem'[Worker].task = mem[Worker].task
        /\ mem'[Worker].step.status = status /\ Where' = ret
    BY <1>6, <2>1, ChangeStepEffect
  <2>3. steps'[k].status = status \/ mem[Worker].step.status = status
    BY <1>6, <2>1, ChangeStepGoes
  <2> HIDE DEF k
  <2>4. task.currStep = k
    BY <1>6 DEF Placed, k
  <2>5. Where' = "call" => steps'[k].status = "running" /\ mem'[Worker].step.status = "running"
    BY <1>6, <2>2, <2>3
  <2> QED BY <1>6, <2>2, <2>4, <2>5 DEF Placed
<1>7. ASSUME NEW label \in Labels \ {"task", "env", "call"}, Goto(Worker, label),
             UNCHANGED <<control, reqCid>>, task.cid => task'.cid,
             task'.currStep = task.currStep, mem'[Worker].task.cid => mem[Worker].task.cid,
             mem'[Worker].k = k, label \in InStep => Where \in InStep
      PROVE  Placed'
  <2>1. Where' = label
    BY <1>7, GotoGoes DEF Where
  <2> QED BY <1>4, <1>5, <1>7, <2>1
<1>8. CASE Boot \/ PickPending
  <2>1. ASSUME StartWorker, UNCHANGED <<control, reqCid, task>> PROVE Placed'
    <3>1. [mem[Worker] EXCEPT !.task = task].task = task
      BY DEF MemRow
    <3>2. mem'[Worker].task = task
      BY <2>1, <3>1 DEF StartWorker, TypeOK
    <3>3. Where' = "enter"
      BY <2>1, GotoGoes DEF StartWorker, Where
    <3> QED BY <1>2, <1>4, <2>1, <3>2, <3>3
  <2>2. CASE Boot /\ UNCHANGED <<mem, pc>>
    BY <2>2 DEF Boot, Placed, Where
  <2> QED BY <1>8, <2>1, <2>2 DEF Boot, PickPending
<1>9. ASSUME NEW status, NEW ret \in {"load", "off"}, ChangeTask(Worker, status, ret),
             UNCHANGED <<control, reqCid>>
      PROVE  Placed'
  <2>1. task'.cid = task.cid /\ mem'[Worker].task.cid = mem[Worker].task.cid
    BY <1>9, ChangeTaskSays
  <2>2. Where' = ret
    BY <1>9, ChangeTaskEffect DEF Where
  <2> QED BY <1>2, <1>4, <1>9, <2>1, <2>2
<1>10. CASE Enter \/ StartFailed
  BY <1>2, <1>7, <1>9, <1>10 DEF Enter, StartFailed
<1>11. CASE LoadSteps
  <2>1. mem'[Worker].task = mem[Worker].task /\ UNCHANGED <<control, reqCid, task>>
    BY <1>11 DEF LoadSteps, TypeOK, MemRow
  <2>2. Where' = "begin"
    BY <1>11, GotoGoes DEF LoadSteps, Where
  <2> QED BY <1>2, <1>4, <2>1, <2>2
<1>12. CASE BeginStep
  <2> DEFINE new == [mem[Worker] EXCEPT !.task.currStep = k, !.step = wSteps[k]]
  <2>1. /\ mem' = [mem EXCEPT ![Worker] = new] /\ task' = [task EXCEPT !.currStep = k]
        /\ reqCid' = task.cid /\ UNCHANGED control
    BY <1>12 DEF BeginStep
  <2>2. new.k = k /\ new.task.cid = mem[Worker].task.cid
    BY DEF MemRow, TaskRow
  <2> HIDE DEF new
  <2>3. mem'[Worker].k = k /\ mem'[Worker].task.cid = mem[Worker].task.cid
    BY <2>1, <2>2 DEF TypeOK
  <2>4. task'.currStep = k /\ task'.cid = task.cid
    BY <2>1 DEF TypeOK, TaskRow
  <2>5. Where' = "gate"
    BY <1>12, GotoGoes DEF BeginStep, Where
  <2> HIDE DEF k
  <2> QED BY <2>1, <2>3, <2>4, <2>5 DEF Placed
<1>13. CASE Gate
  <2>1. Where = "gate" /\ UNCHANGED <<control, reqCid, task>>
    BY <1>13 DEF Gate, Where
  <2> QED BY <1>2, <1>6, <1>7, <1>13, <2>1 DEF Gate
<1>14. CASE PollApproval
  <2>1. Where = "poll" /\ UNCHANGED <<control, reqCid, task>>
    BY <1>14 DEF PollApproval, Where
  <2>2. mem'[Worker].k = k /\ mem'[Worker].task = mem[Worker].task
    BY <1>14 DEF PollApproval, TypeOK, MemRow
  <2> QED BY <1>2, <1>7, <1>14, <2>1, <2>2 DEF PollApproval
<1>15. CASE Drive
  <2>1. Where = "drive" /\ UNCHANGED <<control, reqCid, task>>
    BY <1>15 DEF Drive, Where
  <2> QED BY <1>2, <1>6, <1>7, <1>15, <2>1 DEF Drive
<1>16. CASE CallRunner
  <2>1. Where = "call" /\ UNCHANGED <<control, reqCid, task>>
    BY <1>16 DEF CallRunner, Where
  <2> QED BY <1>2, <1>6, <1>7, <1>16, <2>1 DEF CallRunner
<1>17. CASE CallFails
  <2>1. Where = "call" /\ UNCHANGED <<control, reqCid, task>>
    BY <1>17 DEF CallFails, Where
  <2>2. CASE ChangeStep(Worker, "failed", TRUE, "judge")
    BY <1>2, <1>6, <2>1, <2>2
  <2>3. CASE Goto(Worker, "drive") /\ UNCHANGED <<steps, mem>>
    BY <1>2, <1>7, <2>1, <2>3
  <2>4. CASE /\ mem' = [mem EXCEPT ![Worker] =
                  [mem[Worker] EXCEPT !.step = Mark(mem[Worker].step, "pending", TRUE),
                                      !.ret = "drive"]]
             /\ Goto(Worker, "task")
    <3>1. /\ mem'[Worker].k = k /\ mem'[Worker].task = mem[Worker].task
          /\ mem'[Worker].ret = "drive"
      BY <2>4 DEF TypeOK, MemRow
    <3>2. Where' = "drive"
      BY <2>4, <3>1, GotoGoes DEF Where
    <3> QED BY <1>2, <1>5, <2>1, <3>1, <3>2
  <2> QED BY <1>17, <2>2, <2>3, <2>4 DEF CallFails
<1>18. CASE SaveContainer
  <2>1. task'.cid /\ task'.currStep = task.currStep
    BY <1>18 DEF SaveContainer, TypeOK, TaskRow
  <2>2. Where = "saveCid"
    BY <1>18 DEF SaveContainer, Where
  <2> QED BY <1>2, <1>7, <1>18, <2>1, <2>2 DEF SaveContainer
<1>19. CASE Watch \/ WatchFails
  <2>1. Where = "watch" /\ UNCHANGED <<control, reqCid, task>>
    BY <1>19 DEF Watch, WatchFails, Where
  <2>2. PICK status \in StepStatuses, msg \in BOOLEAN, ret \in {"settle", "judge"} :
          ChangeStep(Worker, status, msg, ret)
    BY <1>19 DEF Watch, WatchFails
  <2> QED BY <1>2, <1>6, <2>1, <2>2
<1>20. CASE Settle
  <2>1. Where = "settle" /\ UNCHANGED <<control, reqCid, task>>
    BY <1>20 DEF Settle, Where
  <2> QED BY <1>2, <1>6, <1>7, <1>20, <2>1 DEF Settle
<1>21. CASE Judge
  <2>1. mem'[Worker].task = mem[Worker].task /\ UNCHANGED <<control, reqCid, task>>
    BY <1>21 DEF Judge, TypeOK, MemRow
  <2>2. Where' \in {"begin", "after"}
    BY <1>21, GotoGoes DEF Judge, Where
  <2> QED BY <1>2, <1>4, <2>1, <2>2
<1>22. CASE AfterSteps
  <2>1. mem'[Worker].task = task
    <3>1. [mem[Worker] EXCEPT !.task = task].task = task
      BY DEF MemRow
    <3> QED BY <1>22, <3>1 DEF AfterSteps, TypeOK
  <2>2. Where' = "last" /\ UNCHANGED <<control, reqCid, task>>
    BY <1>22, GotoGoes DEF AfterSteps, Where
  <2> QED BY <1>2, <1>4, <2>1, <2>2
<1>23. CASE LastStep
  <2>1. UNCHANGED <<control, reqCid, task>>
    BY <1>23 DEF LastStep
  <2>2. CASE Goto(Worker, "off") /\ UNCHANGED mem
    BY <1>2, <1>7, <2>1, <2>2
  <2>3. CASE /\ mem' = [mem EXCEPT ![Worker] =
                  [mem[Worker] EXCEPT !.step = steps[mem[Worker].task.currStep],
                                      !.k = mem[Worker].task.currStep, !.ret = "off"]]
             /\ Goto(Worker, "task")
    <3>1. mem'[Worker].ret = "off" /\ mem'[Worker].task = mem[Worker].task
      BY <2>3 DEF TypeOK, MemRow
    <3>2. Where' = "off"
      BY <2>3, <3>1, GotoGoes DEF Where
    <3> QED BY <1>2, <1>4, <2>1, <3>1, <3>2
  <2> QED BY <1>23, <2>2, <2>3 DEF LastStep
(* Whatever leaves the worker's place and copies alone.                     *)
<1>24. ASSUME Where' = Where, mem'[Worker].k = k, mem'[Worker].step = mem[Worker].step,
              mem'[Worker].task.cid = mem[Worker].task.cid,
              task'.cid = task.cid, task'.currStep = task.currStep,
              UNCHANGED <<control, reqCid, steps>>
       PROVE  Placed'
  BY <1>24 DEF Placed
<1>25. CASE WriteTask(Worker)
  <2>1. CASE ChangeTask(Worker, StepToTask(mem[Worker].step.status), mem[Worker].ret)
    <3>1. Where' = Where
      BY <1>25, <2>1, ChangeTaskEffect DEF WriteTask, Where
    <3>2. task'.cid = task.cid /\ mem'[Worker].task.cid = mem[Worker].task.cid
      BY <2>1, ChangeTaskSays
    <3>3. /\ task'.currStep = task.currStep /\ mem'[Worker].k = k
          /\ mem'[Worker].step = mem[Worker].step
      BY <2>1, ChangeTaskEffect
    <3> QED BY <1>24, <1>25, <3>1, <3>2, <3>3 DEF WriteTask
  <2>2. CASE Goto(Worker, mem[Worker].ret) /\ UNCHANGED <<task, mem>>
    <3>1. Where' = Where
      BY <1>25, <2>2 DEF WriteTask, Goto, Where, TypeOK
    <3> QED BY <1>24, <1>25, <2>2, <3>1 DEF WriteTask
  <2> QED BY <1>25, <2>1, <2>2 DEF WriteTask
<1>26. CASE WriteEnv(Worker)
  <2>1. Where' = Where
    BY <1>26 DEF WriteEnv, Goto, Where, TypeOK
  <2> QED BY <1>24, <1>26, <2>1 DEF WriteEnv
<1>27. CASE Crash
  <2>1. Where' = "off"
    BY <1>27 DEF Crash, Where
  <2> QED BY <1>2, <1>4, <1>27, <2>1 DEF Crash
<1>28. CASE UNCHANGED vars \/ \E j \in Steps : ExecEnds(j) \/ SaveExit(j)
  BY <1>24, <1>28 DEF vars, ExecEnds, SaveExit, Where
<1> QED BY <1>1, <1>8, <1>10, <1>11, <1>12, <1>13, <1>14, <1>15, <1>16, <1>17, <1>18, <1>19,
           <1>20, <1>21, <1>22, <1>23, <1>25, <1>26, <1>27, <1>28 DEF Next, WorkerStep

(* A failed exchange is counted once and for all.                           *)
LEMMA FaultsKept ==
  ASSUME TypeOK, [Next]_vars, faults' = 0,
         \A s \in Sessions : ~SessionStart(s) /\ ~SessionStep(s)
  PROVE  faults = 0 /\ ~Fault
<1> USE DEF bounds
<1>1. faults \in Nat
  BY TaskRunAssumption DEF TypeOK
<1>2. ~Fault
  BY <1>1 DEF Fault
<1>3. Boot \/ PickPending \/ Enter \/ LoadSteps \/ BeginStep => UNCHANGED faults
  BY DEF Boot, PickPending, Enter, LoadSteps, BeginStep
<1>4. Gate \/ PollApproval \/ Drive \/ CallRunner \/ SaveContainer => UNCHANGED faults
  BY DEF Gate, PollApproval, Drive, CallRunner, SaveContainer
<1>5. Watch \/ Settle \/ Judge \/ AfterSteps \/ LastStep => UNCHANGED faults
  BY <1>2 DEF Watch, Settle, Judge, AfterSteps, LastStep
<1>6. ~StartFailed /\ ~CallFails /\ ~WatchFails
  BY <1>2 DEF StartFailed, CallFails, WatchFails
<1>7. WriteTask(Worker) \/ WriteEnv(Worker) \/ Crash \/ UNCHANGED vars => UNCHANGED faults
  BY DEF WriteTask, WriteEnv, Crash, vars
<1>8. (\E k \in Steps : ExecEnds(k) \/ SaveExit(k)) => UNCHANGED faults
  BY DEF ExecEnds, SaveExit
<1> QED BY <1>2, <1>3, <1>4, <1>5, <1>6, <1>7, <1>8 DEF Next, WorkerStep

(* The worker is about to leave the task, or has left it.                   *)
Ending == \/ Where = "last" \/ (Where = "off" /\ pc[Worker] # "off")
          \/ TaskExited(task.status)

(* A command whose container is not recorded is that of the step the rows   *)
(* and the worker's copies call running, so that the worker, and after a    *)
(* crash the next one, comes back to it.                                    *)
Traced(j) ==
    /\ task.currStep = j /\ steps[j].status = "running" /\ info[j] = "none"
    /\ Where \in {"enter", "load"} => mem[Worker].task.currStep = j
    /\ Where = "begin" => mem[Worker].k = j /\ wSteps[j].status = "running"
    /\ Where \notin {"poll", "call", "settle", "judge", "after", "last"}
    /\ Where \in InStep => mem[Worker].k = j /\ mem[Worker].step.status = "running"

Kept == faults = 0 =>
    /\ Ending => \A j \in Steps : exec[j] # "running"
    /\ \A j \in Steps : exec[j] = "running" /\ ~task.cid => Traced(j)

LEMMA KeptStep ==
  ASSUME NoneCalls, TypeOK, TypeOK', PipelineInv, Answers, Final, Placed, Kept, [Next]_vars
  PROVE  Kept'
<1> USE ProcsFacts, LabelFacts, MemFacts DEF dbVars, runVars, workVars, histVars, bounds
<1> DEFINE k == mem[Worker].k
<1> SUFFICES ASSUME faults' = 0
             PROVE  /\ Ending' => \A j \in Steps : exec'[j] # "running"
                    /\ \A j \in Steps : exec'[j] = "running" /\ ~task'.cid => Traced(j)'
  BY DEF Kept
<1> DEFINE Goal == /\ Ending' => \A j \in Steps : exec'[j] # "running"
                   /\ \A j \in Steps : exec'[j] = "running" /\ ~task'.cid => Traced(j)'
<1>1. \A s \in Sessions : ~SessionStart(s) /\ ~SessionStep(s)
  BY InertStep DEF Answers
<1>2. faults = 0 /\ ~Fault
  BY <1>1, FaultsKept
<1>3. /\ Ending => \A j \in Steps : exec[j] # "running"
      /\ \A j \in Steps : exec[j] = "running" /\ ~task.cid => Traced(j)
  BY <1>2 DEF Kept
<1>4. InStep = {"gate", "poll", "drive", "call", "saveCid", "watch", "settle", "judge"}
  BY DEF InStep, InDrive
<1>5. pc[Worker] \notin {"off", "env"} => ~TaskExited(task.status)
  BY DEF Final
(* Nothing runs.                                                            *)
<1>6. ASSUME \A j \in Steps : exec'[j] # "running" PROVE Goal
  BY <1>6
(* The worker moves on with what it follows.                                *)
<1>7. ASSUME NEW label \in Labels \ {"off", "last"}, Where' = label,
             ~TaskExited(task'.status), task'.cid = task.cid,
             \A j \in Steps : exec'[j] = "running" => exec[j] = "running",
             \A j \in Steps : exec[j] = "running" /\ Traced(j) => Traced(j)'
      PROVE  Goal
  BY <1>3, <1>7 DEF Ending
(* The worker moves on with nothing to follow.                              *)
<1>8. ASSUME NEW label \in Labels \ {"off", "last"}, Where' = label,
             ~TaskExited(task'.status), task'.cid = task.cid, UNCHANGED exec,
             Where \in {"poll", "call", "settle", "judge"}
      PROVE  Goal
  BY <1>7, <1>8 DEF Traced
<1>9. CASE Boot \/ PickPending
  <2>1. ASSUME StartWorker, ~TaskExited(task.status), UNCHANGED <<task, steps, exec, info>>
        PROVE  Goal
    <3>1. [mem[Worker] EXCEPT !.task = task].task = task
      BY DEF MemRow
    <3>2. mem'[Worker].task = task
      BY <2>1, <3>1 DEF StartWorker, TypeOK
    <3>3. Where' = "enter"
      BY <2>1, GotoGoes DEF StartWorker, Where
    <3>4. \A j \in Steps : Traced(j) => Traced(j)'
      BY <1>4, <2>1, <3>2, <3>3 DEF Traced
    <3> QED BY <1>7, <2>1, <3>3, <3>4
  <2>2. CASE Boot /\ UNCHANGED <<mem, pc>>
    BY <1>3, <2>2 DEF Boot, Ending, Traced, Where
  <2> QED BY <1>9, <2>1, <2>2 DEF Boot, PickPending, TaskRecoverable, TaskExited
<1>10. CASE Enter
  <2>1. Where = "enter" /\ UNCHANGED <<steps, exec, info>>
    BY <1>10 DEF Enter, Where
  <2>2. CASE Goto(Worker, "load") /\ UNCHANGED <<task, mem>>
    <3>1. Where' = "load"
      BY <2>2, GotoGoes DEF Where
    <3>2. \A j \in Steps : Traced(j) => Traced(j)'
      BY <1>4, <2>1, <2>2, <3>1 DEF Traced
    <3>3. ~TaskExited(task.status)
      BY <1>5, <1>10 DEF Enter
    <3> QED BY <1>7, <2>1, <2>2, <3>1, <3>2, <3>3
  <2>3. CASE ChangeTask(Worker, "running", "load")
    <3>1. task'.cid = task.cid /\ task'.status = "running"
      BY <2>3, ChangeTaskSays
    <3>2. /\ Where' = "load" /\ task'.currStep = task.currStep
          /\ mem'[Worker].task.currStep = mem[Worker].task.currStep
      BY <2>3, ChangeTaskEffect DEF Where
    <3>3. \A j \in Steps : Traced(j) => Traced(j)'
      BY <1>4, <2>1, <3>2 DEF Traced
    <3> QED BY <1>7, <2>1, <3>1, <3>2, <3>3 DEF TaskExited
  <2> QED BY <1>10, <2>2, <2>3 DEF Enter
<1>11. CASE LoadSteps
  <2>1. /\ Where = "load" /\ UNCHANGED <<task, steps, exec, info>> /\ wSteps' = steps
        /\ ~TaskExited(task.status)
    BY <1>5, <1>11 DEF LoadSteps, Where
  <2>2. mem'[Worker].k = mem[Worker].task.currStep
    BY <1>11 DEF LoadSteps, TypeOK, MemRow
  <2>3. Where' = "begin"
    BY <1>11, GotoGoes DEF LoadSteps, Where
  <2>4. \A j \in Steps : Traced(j) => Traced(j)'
    BY <1>4, <2>1, <2>2, <2>3 DEF Traced
  <2> QED BY <1>7, <2>1, <2>3, <2>4
<1>12. CASE BeginStep
  <2> DEFINE new == [mem[Worker] EXCEPT !.task.currStep = k, !.step = wSteps[k]]
  <2>1. /\ mem' = [mem EXCEPT ![Worker] = new] /\ task' = [task EXCEPT !.currStep = k]
        /\ UNCHANGED <<steps, exec, info, wSteps>> /\ Where = "begin"
    BY <1>12 DEF BeginStep, Where
  <2>2. new.k = k /\ new.step = wSteps[k]
    BY DEF MemRow
  <2> HIDE DEF new
  <2>3. mem'[Worker].k = k /\ mem'[Worker].step = wSteps[k]
    BY <2>1, <2>2 DEF TypeOK
  <2>4. task'.currStep = k /\ task'.cid = task.cid /\ task'.status = task.status
    BY <2>1 DEF TypeOK, TaskRow
  <2>5. Where' = "gate" /\ ~TaskExited(task.status)
    BY <1>5, <1>12, GotoGoes DEF BeginStep, Where
  <2>6. \A j \in Steps : Traced(j) => Traced(j)'
    <3> SUFFICES ASSUME NEW j \in Steps, Traced(j) PROVE Traced(j)'
      OBVIOUS
    <3>1. k = j /\ wSteps[j].status = "running" /\ steps[j].status = "running" /\ info[j] = "none"
      BY <2>1 DEF Traced
    <3> HIDE DEF k
    <3> QED BY <1>4, <2>1, <2>3, <2>4, <2>5, <3>1 DEF Traced
  <2> QED BY <1>7, <2>1, <2>4, <2>5, <2>6
(* The worker stays within its step, whose copy says the same.              *)
<1>13. ASSUME NEW label \in {"drive", "watch"}, Goto(Worker, label),
              Where \in InStep, ~TaskExited(task.status),
              UNCHANGED <<task, steps, mem, exec, info, wSteps>>
       PROVE  Goal
  <2>1. Where' = label
    BY <1>13, GotoGoes DEF Where
  <2>2. \A j \in Steps : Traced(j) => Traced(j)'
    BY <1>4, <1>13, <2>1 DEF Traced
  <2> QED BY <1>7, <1>13, <2>1, <2>2
(* The worker's copy says that nothing runs.                                *)
<1>14. ASSUME NEW label \in Labels \ {"off", "last"}, Where' = label,
              ~TaskExited(task.status), UNCHANGED <<task, exec>>,
              \A j \in Steps : exec[j] = "running" => ~Traced(j)
       PROVE  Goal
  BY <1>7, <1>14
<1>15. CASE Gate
  <2>1. /\ Where = "gate" /\ UNCHANGED <<task, exec, info, wSteps>>
        /\ ~TaskExited(task.status)
    BY <1>5, <1>15 DEF Gate, Where
  <2>2. CASE Goto(Worker, "drive") /\ UNCHANGED <<steps, mem>>
    BY <1>4, <1>13, <2>1, <2>2
  <2>3. CASE MustApproval(k) /\ ChangeStep(Worker, "approving", FALSE, "poll")
    <3>1. Where' = "poll"
      BY <2>3, ChangeStepEffect
    <3>2. ASSUME NEW j \in Steps, exec[j] = "running" PROVE ~Traced(j)
      <4>1. launches[j] > 0
        BY <3>2 DEF PipelineInv, StartedIsCounted
      <4>2. ~MustApproval(j)
        BY <4>1 DEF PipelineInv, ApprovedBeforeRun, Answers, NoneApproves, NoneCalls, Unapproved
      <4> QED BY <1>4, <2>1, <2>3, <4>2 DEF Traced
    <3> QED BY <1>14, <2>1, <3>1, <3>2
  <2> QED BY <1>15, <2>2, <2>3 DEF Gate
<1>16. CASE PollApproval
  <2>1. /\ Where = "poll" /\ UNCHANGED <<task, exec>>
        /\ ~TaskExited(task.status)
    BY <1>5, <1>16 DEF PollApproval, Where
  <2>2. Where' \in {"after", "drive"}
    BY <1>16, GotoGoes DEF PollApproval, Where
  <2> QED BY <1>8, <2>1, <2>2
<1>17. CASE Drive
  <2>1. /\ Where = "drive" /\ UNCHANGED <<task, exec, info, wSteps>>
        /\ ~TaskExited(task.status)
    BY <1>5, <1>17 DEF Drive, Where
  <2>2. CASE mem[Worker].step.status = "running"
    BY <1>4, <1>13, <1>17, <2>1, <2>2 DEF Drive
  <2>3. CASE mem[Worker].step.status # "running"
    <3>1. \A j \in Steps : ~Traced(j)
      BY <1>4, <2>1, <2>3 DEF Traced
    <3>2. Where' \in {"call", "judge"}
      <4>1. CASE ChangeStep(Worker, "running", FALSE, "call")
        BY <4>1, ChangeStepEffect
      <4>2. CASE Goto(Worker, "judge")
        BY <4>2, GotoGoes DEF Where
      <4> QED BY <1>17, <2>3, <4>1, <4>2 DEF Drive
    <3> QED BY <1>14, <2>1, <3>1, <3>2
  <2> QED BY <2>2, <2>3
<1>18. CASE CallRunner
  <2>1. /\ Where = "call" /\ UNCHANGED <<task, wSteps>> /\ ~TaskExited(task.status) /\ ~control
    BY <1>5, <1>18 DEF CallRunner, Where, Placed
  <2>2. CASE ~CanStart
    <3>1. Where' = "judge"
      BY <1>18, <2>2, ChangeStepEffect DEF CallRunner
    <3> QED BY <1>8, <1>18, <2>1, <2>2, <3>1 DEF CallRunner
  <2>3. CASE CanStart
    <3>1. /\ exec' = [exec EXCEPT ![k] = "running"]
          /\ info' = IF reqCid THEN info ELSE [info EXCEPT ![k] = "none"]
          /\ UNCHANGED <<steps, mem>>
          /\ Goto(Worker, IF mem[Worker].task.cid THEN "drive" ELSE "saveCid")
      BY <1>18, <2>1, <2>3 DEF CallRunner, Launch
    <3>2. Where' \in {"drive", "saveCid"}
      BY <3>1, GotoGoes DEF Where
    <3>3. /\ task.currStep = k /\ steps[k].status = "running"
          /\ mem[Worker].step.status = "running" /\ (reqCid => task.cid)
      BY <1>4, <2>1 DEF Placed
    <3>4. ASSUME NEW j \in Steps, exec'[j] = "running", ~task'.cid PROVE Traced(j)'
      <4>1. j = k
        <5>1. j # k => exec[j] = "running"
          BY <3>1, <3>4 DEF TypeOK
        <5>2. ~(exec[j] = "running")
          BY <1>3, <2>1, <3>4 DEF Traced
        <5> QED BY <5>1, <5>2
      <4>2. info'[k] = "none"
        BY <2>1, <3>1, <3>3, <3>4 DEF TypeOK
      <4> QED BY <1>4, <2>1, <3>1, <3>2, <3>3, <4>1, <4>2 DEF Traced
    <3> QED BY <2>1, <3>2, <3>4 DEF Ending
  <2> QED BY <2>2, <2>3
<1>19. ~CallFails /\ ~WatchFails /\ ~StartFailed
  BY <1>2 DEF CallFails, WatchFails, StartFailed
<1>20. CASE SaveContainer
  <2>1. task'.cid /\ task'.status = task.status
    BY <1>20 DEF SaveContainer, TypeOK, TaskRow
  <2>2. Where' = "drive" /\ ~TaskExited(task.status)
    BY <1>5, <1>20, GotoGoes DEF SaveContainer, Where
  <2> QED BY <2>1, <2>2 DEF Ending
<1>21. CASE Watch
  <2>1. /\ Where = "watch" /\ UNCHANGED <<task, exec>> /\ ~TaskExited(task.status) /\ ~control
    BY <1>5, <1>21 DEF Watch, Where, Placed
  <2>2. PICK status \in StepStatuses, msg \in BOOLEAN, ret \in {"settle", "judge"} :
          ChangeStep(Worker, status, msg, ret)
    BY <1>21 DEF Watch
  <2>3. Where' \in {"settle", "judge"}
    BY <2>2, ChangeStepEffect
  <2>4. ASSUME NEW j \in Steps, exec[j] = "running", Traced(j) PROVE FALSE
    <3>1. k = j /\ info[j] = "none"
      BY <1>4, <2>1, <2>4 DEF Traced
    <3>2. ExitState(k) = "running"
      BY <2>4, <3>1 DEF ExitState
    <3> HIDE DEF k
    <3>3. ExitState(mem[Worker].k) = "running"
      BY <3>2 DEF k
    <3> QED BY <1>21, <2>1, <3>3 DEF Watch
  <2> QED BY <1>14, <2>1, <2>3, <2>4
<1>22. CASE Settle
  <2>1. Where = "settle" /\ UNCHANGED <<task, exec>> /\ ~TaskExited(task.status)
    BY <1>5, <1>22 DEF Settle, Where
  <2>2. CASE ChangeStep(Worker, "pending", TRUE, "drive")
    <3>1. Where' = "drive"
      BY <2>2, ChangeStepEffect
    <3> QED BY <1>8, <2>1, <3>1
  <2>3. CASE Goto(Worker, "judge")
    BY <1>8, <2>1, <2>3, GotoGoes DEF Where
  <2> QED BY <1>22, <2>2, <2>3 DEF Settle
<1>23. CASE Judge
  <2>1. Where = "judge" /\ UNCHANGED <<task, exec>> /\ ~TaskExited(task.status)
    BY <1>5, <1>23 DEF Judge, Where
  <2>2. Where' \in {"begin", "after"}
    BY <1>23, GotoGoes DEF Judge, Where
  <2> QED BY <1>8, <2>1, <2>2
<1>24. CASE AfterSteps
  <2>1. Where = "after"
    BY <1>24 DEF AfterSteps, Where
  <2>2. CASE task.cid /\ exec' = [j \in Steps |-> IF exec[j] = "running" THEN "killed" ELSE exec[j]]
    BY <1>6, <2>2
  <2>3. CASE ~task.cid /\ UNCHANGED exec
    <3>1. \A j \in Steps : exec[j] # "running"
      BY <1>3, <2>1, <2>3 DEF Traced
    <3> QED BY <1>6, <2>3, <3>1
  <2> QED BY <1>2, <1>24, <2>2, <2>3 DEF AfterSteps
<1>25. CASE LastStep
  <2>1. Where = "last" /\ UNCHANGED exec
    BY <1>25 DEF LastStep, Where
  <2> QED BY <1>3, <1>6, <2>1 DEF Ending
<1>26. CASE WriteTask(Worker) /\ mem[Worker].ret # "off"
  <2>1. /\ pc[Worker] = "task" /\ Where = mem[Worker].ret /\ ~TaskExited(task.status)
        /\ UNCHANGED <<steps, exec, info, wSteps>>
    BY <1>5, <1>26 DEF WriteTask, Where
  <2>2. Where # "last" \/ \A j \in Steps : exec[j] # "running"
    BY <1>3 DEF Ending
  <2>3. CASE ChangeTask(Worker, StepToTask(mem[Worker].step.status), mem[Worker].ret)
    <3>1. /\ task'.cid = task.cid
          /\ task'.status = StepToTask(mem[Worker].step.status)
      BY <2>3, ChangeTaskSays
    <3>2. /\ Where' = Where /\ task'.currStep = task.currStep
          /\ mem'[Worker].k = k /\ mem'[Worker].step = mem[Worker].step
          /\ mem'[Worker].task.currStep = mem[Worker].task.currStep
      BY <2>1, <2>3, ChangeTaskEffect DEF Where
    <3>3. task'.status \in {"running", "approving"}
      <4>1. ~StepExited(mem[Worker].step.status)
        BY <1>26, <2>1 DEF Final
      <4> QED BY <3>1, <4>1 DEF StepToTask, StepExited, StepStatuses
    <3>4. ~TaskExited(task'.status)
      BY <3>3 DEF TaskExited
    <3>5. \A j \in Steps : Traced(j) => Traced(j)'
      BY <2>1, <3>2 DEF Traced
    <3>6. Where' \in Labels \ {"off"}
      BY <1>26, <2>1, <3>2
    <3> QED BY <1>6, <1>7, <2>1, <2>2, <3>1, <3>2, <3>4, <3>5, <3>6
  <2>4. CASE Goto(Worker, mem[Worker].ret) /\ UNCHANGED <<task, mem>>
    <3>1. Where' = Where /\ Where \in Labels \ {"off"}
      BY <1>26, <2>1, <2>4 DEF Goto, Where, TypeOK
    <3>2. \A j \in Steps : Traced(j) => Traced(j)'
      BY <2>1, <2>4, <3>1 DEF Traced
    <3> QED BY <1>6, <1>7, <2>1, <2>2, <2>4, <3>1, <3>2
  <2> QED BY <1>26, <2>3, <2>4 DEF WriteTask
<1>27. CASE WriteEnv(Worker) /\ mem[Worker].ret # "off"
  <2>1. /\ pc[Worker] = "env" /\ Where = mem[Worker].ret /\ ~TaskExited(task.status)
        /\ UNCHANGED <<task, mem, steps, exec, info, wSteps>>
    BY <1>27 DEF WriteEnv, Where, Final
  <2>2. Where # "last" \/ \A j \in Steps : exec[j] # "running"
    BY <1>3 DEF Ending
  <2>3. Where' = Where /\ Where \in Labels \ {"off"}
    BY <1>27, <2>1 DEF WriteEnv, Goto, Where, TypeOK
  <2>4. \A j \in Steps : Traced(j) => Traced(j)'
    BY <2>1, <2>3 DEF Traced
  <2> QED BY <1>6, <1>7, <2>1, <2>2, <2>3, <2>4
<1>28. CASE (WriteTask(Worker) \/ WriteEnv(Worker)) /\ mem[Worker].ret = "off"
  <2>1. Ending /\ UNCHANGED exec
    BY <1>28 DEF WriteTask, WriteEnv, Ending, Where
  <2> QED BY <1>3, <1>6, <2>1
<1>29. CASE Crash
  <2>1. /\ pc'[Worker] = "off" /\ Where' = "off"
        /\ UNCHANGED <<task, steps, exec, info>>
    BY <1>29 DEF Crash, Where
  <2>2. \A j \in Steps : Traced(j) => Traced(j)'
    BY <1>4, <2>1 DEF Traced
  <2> QED BY <1>3, <2>1, <2>2 DEF Ending
<1>30. CASE UNCHANGED vars \/ \E i \in Steps : ExecEnds(i) \/ SaveExit(i)
  <2>1. /\ UNCHANGED <<task, steps, mem, pc, wSteps>> /\ Where' = Where
        /\ Ending' <=> Ending
    BY <1>30 DEF vars, ExecEnds, SaveExit, Where, Ending
  <2>2. \A j \in Steps : exec'[j] = "running" => exec[j] = "running" /\ info'[j] = info[j]
    BY <1>30 DEF vars, ExecEnds, SaveExit, TypeOK
  <2>3. \A j \in Steps : exec'[j] = "running" /\ Traced(j) => Traced(j)'
    BY <2>1, <2>2 DEF Traced
  <2> QED BY <1>3, <2>1, <2>2, <2>3
<1> QED BY <1>1, <1>9, <1>10, <1>11, <1>12, <1>15, <1>16, <1>17, <1>18, <1>19, <1>20,
           <1>21, <1>22, <1>23, <1>24, <1>25, <1>26, <1>27, <1>28, <1>29, <1>30
        DEF Next, WorkerStep

(* While every exchange with the runner succeeds and nobody calls, no       *)
(* command outlives its task, through every crash and recovery.             *)
THEOREM OrphanCorrect ==
  ASSUME NoneCalls
  PROVE  Spec => []NoOrphan
<1>1. Init => Placed /\ Kept
  <2> SUFFICES ASSUME Init PROVE Placed /\ Kept
    OBVIOUS
  <2>1. /\ pc[Worker] = "off" /\ ~control /\ ~reqCid /\ ~mem[Worker].task.cid
        /\ \A j \in Steps : exec[j] = "none"
    BY ProcsFacts DEF Init, NewTask
  <2> QED BY <2>1 DEF Placed, Kept, Where, InStep, InDrive
<1>2. Kept => NoOrphan
  BY DEF Kept, NoOrphan, Ending
<1> QED BY <1>1, <1>2, PlacedStep, KeptStep, TypeCorrect, PipelineCorrect, AnswersCorrect,
           FinalAlways, PTL DEF Spec
=============================================================================
