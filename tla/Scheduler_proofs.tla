-------------------------- MODULE Scheduler_proofs --------------------------
(***************************************************************************)
(* Theorems of Scheduler: its types, and that as long as no lock is lost   *)
(* to a holder that lives, no environment has two commands at once, its    *)
(* tasks run in order, each at most once, and fail for a cause only, for   *)
(* any number of managers, tasks, environments and deaths.                 *)
(***************************************************************************)
EXTENDS Scheduler, TLAPS

USE SchedulerAssumption

WorkLabels == {"none", "enter", "load", "fresh", "started", "call", "watch",
               "after", "last"}

(* A step status maps to a task status.                                     *)
LEMMA StepToTaskType == \A s \in StepStatuses : StepToTask(s) \in TaskStatuses
  BY DEF StepStatuses, TaskStatuses, StepToTask

(* The ended statuses of a step are those of its task.                      *)
LEMMA StepToTaskEnded ==
  ASSUME NEW s \in {"complete", "failed"}
  PROVE  StepToTask(s) \in {"complete", "failed"}
  BY DEF StepToTask

(* What has been created is a task.                                         *)
LEMMA CreatedTasks == TypeOK => 1..created \subseteq Tasks
  BY DEF TypeOK, Tasks

(* A goroutine moves to another label.                                      *)
LEMMA GotoType ==
  ASSUME TypeOK, NEW m \in Managers, NEW t \in Tasks, NEW label \in WorkLabels,
         Goto(m, t, label)
  PROVE  work' \in [Managers -> [Tasks -> WorkLabels]]
  BY DEF TypeOK, Goto, WorkLabels

LEMMA SpawnType ==
  ASSUME TypeOK, NEW m \in Managers, NEW t \in Tasks, NEW label \in WorkLabels,
         Spawn(m, t, label)
  PROVE  work' \in [Managers -> [Tasks -> WorkLabels]]
<1>1. CASE EnvBusy(m, t)
  BY <1>1 DEF TypeOK, Spawn, WorkLabels
<1>2. CASE ~EnvBusy(m, t)
  BY <1>2, GotoType DEF Spawn, Goto
<1> QED BY <1>1, <1>2

(* The steps of a manager's main loop keep the types.                       *)
LEMMA ManagerType ==
  ASSUME TypeOK, NEW m \in Managers, ManagerStep(m) \/ Crash(m)
  PROVE  TypeOK'
<1> USE DEF rowVars, runVars, procVars, bounds
<1>1. CASE Acquire(m)
  BY <1>1 DEF Acquire, TypeOK
<1>2. CASE NoticeLoss(m)
  BY <1>2 DEF NoticeLoss, TypeOK
<1>3. CASE Unlock(m)
  BY <1>3 DEF Unlock, TypeOK
<1>4. CASE FindRunning(m)
  BY <1>4, CreatedTasks DEF FindRunning, TypeOK
<1>5. CASE Recover(m)
  <2>1. PICK t \in list[m] :
          /\ list' = [list EXCEPT ![m] = @ \ {t}]
          /\ \/ ctxDone[m] /\ UNCHANGED <<at, ctxDone, work>>
             \/ /\ ~ctxDone[m] /\ ~EnvBusy(m, t)
                /\ Spawn(m, t, "load") /\ UNCHANGED <<at, ctxDone>>
             \/ /\ ~ctxDone[m] /\ EnvBusy(m, t)
                /\ at' = [at EXCEPT ![m] = "stop"]
                /\ ctxDone' = [ctxDone EXCEPT ![m] = TRUE]
                /\ UNCHANGED work
    BY <1>5 DEF Recover
  <2>2. t \in Tasks
    BY DEF TypeOK
  <2>3. work' \in [Managers -> [Tasks -> WorkLabels]]
    BY <2>1, <2>2, SpawnType DEF TypeOK, WorkLabels
  <2> QED BY <1>5, <2>1, <2>3 DEF Recover, TypeOK, WorkLabels
<1>6. CASE ListPending(m)
  BY <1>6, CreatedTasks DEF ListPending, TypeOK
<1>7. CASE Dispatch(m)
  <2>1. PICK t \in list[m] :
          list' = [list EXCEPT ![m] = @ \ {t}] /\ Spawn(m, t, "enter")
    BY <1>7 DEF Dispatch
  <2>2. work' \in [Managers -> [Tasks -> WorkLabels]]
    BY <2>1, SpawnType DEF TypeOK, WorkLabels
  <2> QED BY <1>7, <2>1, <2>2 DEF Dispatch, TypeOK, WorkLabels
<1>8. CASE NextRound(m)
  BY <1>8 DEF NextRound, TypeOK
<1>9. CASE LeaveLoop(m)
  BY <1>9 DEF LeaveLoop, TypeOK
<1>10. CASE Stopped(m)
  BY <1>10 DEF Stopped, TypeOK
<1>11. CASE Crash(m)
  <2>1. work' \in [Managers -> [Tasks -> WorkLabels]]
    BY <1>11 DEF Crash, TypeOK, Idle, WorkLabels
  <2> QED BY <1>11, <2>1 DEF Crash, TypeOK, WorkLabels
<1> QED BY <1>1, <1>2, <1>3, <1>4, <1>5, <1>6, <1>7, <1>8, <1>9, <1>10, <1>11
        DEF ManagerStep

(* The steps of a goroutine keep the types.                                 *)
LEMMA TaskType ==
  ASSUME TypeOK, NEW m \in Managers, NEW t \in Tasks, TaskStep(m, t)
  PROVE  TypeOK'
<1> USE DEF rowVars, runVars, procVars, bounds, SetStep
<1>1. work' \in [Managers -> [Tasks -> WorkLabels]]
  <2>1. PICK label \in WorkLabels : Goto(m, t, label)
    BY DEF TaskStep, Enter, Load, Loop, Call, Watch, After, Last, WorkLabels
  <2> QED BY <2>1, GotoType
<1>2. CASE Enter(m, t)
  BY <1>1, <1>2 DEF Enter, TypeOK, WorkLabels, TaskStatuses
<1>3. CASE Load(m, t)
  BY <1>1, <1>3 DEF Load, TypeOK, WorkLabels
<1>4. CASE Loop(m, t)
  BY <1>1, <1>4 DEF Loop, TypeOK, WorkLabels, StepStatuses
<1>5. CASE Call(m, t)
  <2>1. CASE t \in box
    BY <1>1, <1>5, <2>1 DEF Call, TypeOK, WorkLabels, StepStatuses
  <2>2. CASE t \notin box
    BY <1>1, <1>5, <2>2 DEF Call, TypeOK, WorkLabels
  <2> QED BY <2>1, <2>2
<1>6. CASE Watch(m, t)
  <2>1. step' \in [Tasks -> StepStatuses]
    BY <1>6 DEF Watch, TypeOK, StepStatuses
  <2> QED BY <1>1, <1>6, <2>1 DEF Watch, TypeOK, WorkLabels
<1>7. CASE After(m, t)
  BY <1>1, <1>7 DEF After, TypeOK, WorkLabels
<1>8. CASE Last(m, t)
  BY <1>1, <1>8, StepToTaskType DEF Last, TypeOK, WorkLabels
<1> QED BY <1>2, <1>3, <1>4, <1>5, <1>6, <1>7, <1>8 DEF TaskStep

LEMMA TypeInit == Init => TypeOK
  BY DEF Init, TypeOK, Idle, Tasks, TaskStatuses, StepStatuses

LEMMA TypeNext == TypeOK /\ [Next]_vars => TypeOK'
<1> SUFFICES ASSUME TypeOK, [Next]_vars PROVE TypeOK'
  OBVIOUS
<1> USE DEF rowVars, runVars, procVars, bounds
<1>1. CASE Create
  BY <1>1 DEF Create, TypeOK
<1>2. CASE LoseLock
  BY <1>2 DEF LoseLock, TypeOK
<1>3. CASE \E m \in Managers : ManagerStep(m) \/ Crash(m)
  BY <1>3, ManagerType
<1>4. CASE \E m \in Managers, t \in Tasks : TaskStep(m, t)
  BY <1>4, TaskType
<1>5. CASE \E t \in Tasks : CommandEnds(t)
  BY <1>5 DEF CommandEnds, TypeOK
<1>6. CASE UNCHANGED vars
  BY <1>6 DEF vars, TypeOK
<1> QED BY <1>1, <1>2, <1>3, <1>4, <1>5, <1>6 DEF Next

(* Rows, lock, lists and goroutines keep their types in every behaviour,    *)
(* with any number of managers and tasks and through lost locks and deaths. *)
THEOREM TypeCorrect == Spec => []TypeOK
  BY TypeInit, TypeNext, PTL DEF Spec

-----------------------------------------------------------------------------
(* Exclusion and order.                                                     *)

(* SchedulerInv without its guard: the proofs below assume it and show that *)
(* each action but the loss of a lock keeps it.                             *)
Calm ==
    /\ HolderAlone /\ NoneForgotten /\ ListIsFresh
    /\ WorkMatchesRows /\ RowsMatchCommands /\ OlderHaveEnded

Ended == {"complete", "failed"}

(* Where one manager is at work the others wait for the lock.               *)
LEMMA Alone ==
  ASSUME TypeOK, HolderAlone, NEW m \in Managers, at[m] # "acquire"
  PROVE  \A n \in Managers : n # m => at[n] = "acquire" /\ work[n] = Idle
  BY DEF TypeOK, HolderAlone

(* A manager with a goroutine has recovered, or is about to.                *)
LEMMA AtWork ==
  ASSUME TypeOK, HolderAlone, NEW m \in Managers, NEW t \in Tasks,
         work[m][t] # "none"
  PROVE  at[m] \in {"recovering", "list", "dispatch"}
  BY DEF TypeOK, HolderAlone, Idle

(* What is not worked on again does not begin, and what has ended stays so: *)
(* then the order of the tasks is kept.                                     *)
LEMMA OrderKept ==
  ASSUME OlderHaveEnded,
         \A t \in Tasks : status[t] \in Ended => status'[t] \in Ended,
         \A u \in Tasks : Begun(u)' => Begun(u)
  PROVE  OlderHaveEnded'
  BY DEF OlderHaveEnded, Ended

LEMMA CalmInit == Init => Calm
  BY DEF Init, Calm, HolderAlone, NoneForgotten, ListIsFresh, WorkMatchesRows,
         RowsMatchCommands, OlderHaveEnded, Begun, Idle

LEMMA CalmCreate ==
  ASSUME TypeOK, Calm, Create
  PROVE  Calm'
<1> USE DEF rowVars, runVars, procVars, bounds, Create, Calm, TypeOK
<1>1. HolderAlone' /\ NoneForgotten'
  BY DEF HolderAlone, NoneForgotten
<1>2. ListIsFresh'
  BY DEF ListIsFresh, Tasks
<1>3. WorkMatchesRows' /\ RowsMatchCommands'
  BY DEF WorkMatchesRows, RowsMatchCommands, Tasks
<1>4. OlderHaveEnded'
  BY OrderKept DEF Begun
<1> QED BY <1>1, <1>2, <1>3, <1>4

LEMMA CalmAcquire ==
  ASSUME TypeOK, Calm, NEW m \in Managers, Acquire(m)
  PROVE  Calm'
<1> USE DEF rowVars, runVars, procVars, bounds, Acquire, Calm, TypeOK
<1>1. HolderAlone'
  BY DEF HolderAlone
<1>2. NoneForgotten' /\ ListIsFresh'
  BY DEF NoneForgotten, ListIsFresh
<1>3. WorkMatchesRows' /\ RowsMatchCommands'
  BY AtWork DEF WorkMatchesRows, RowsMatchCommands
<1>4. OlderHaveEnded'
  BY OrderKept DEF Begun
<1> QED BY <1>1, <1>2, <1>3, <1>4

LEMMA CalmUnlock ==
  ASSUME TypeOK, Calm, NEW m \in Managers, Unlock(m)
  PROVE  Calm'
<1> USE DEF rowVars, runVars, procVars, bounds, Unlock, Calm, TypeOK
<1>1. HolderAlone'
  BY DEF HolderAlone
<1>2. NoneForgotten' /\ ListIsFresh' /\ WorkMatchesRows' /\ RowsMatchCommands'
  BY DEF NoneForgotten, ListIsFresh, WorkMatchesRows, RowsMatchCommands
<1>3. OlderHaveEnded'
  BY OrderKept DEF Begun
<1> QED BY <1>1, <1>2, <1>3

(* A holder that keeps its lock is not told otherwise and does not stop.    *)
LEMMA CalmNoStop ==
  ASSUME TypeOK, Calm, NEW m \in Managers
  PROVE  ~NoticeLoss(m) /\ ~LeaveLoop(m) /\ ~Stopped(m)
  BY DEF TypeOK, Calm, HolderAlone, NoticeLoss, LeaveLoop, Stopped

LEMMA CalmFindRunning ==
  ASSUME TypeOK, Calm, NEW m \in Managers, FindRunning(m)
  PROVE  Calm'
<1> USE DEF rowVars, runVars, procVars, bounds, FindRunning, Calm, TypeOK
<1>0. \A n \in Managers : n # m => at[n] = "acquire" /\ work[n] = Idle
  BY Alone
<1>1. HolderAlone'
  BY DEF HolderAlone
<1>2. NoneForgotten'
  BY <1>0, CreatedTasks DEF NoneForgotten, RowsMatchCommands, TaskRecoverable, Tasks
<1>3. ListIsFresh'
  <2>1. list'[m] = {t \in 1..created : TaskRecoverable(status[t])}
    BY CreatedTasks
  <2>2. \A t \in list'[m] : status[t] = "running"
    BY <2>1, CreatedTasks DEF RowsMatchCommands, TaskRecoverable
  <2>3. \A t \in list'[m] : work[m][t] = "none"
    BY <2>1, CreatedTasks DEF HolderAlone, Idle
  <2> QED BY <1>0, <2>2, <2>3 DEF ListIsFresh
<1>4. WorkMatchesRows' /\ RowsMatchCommands'
  BY AtWork DEF WorkMatchesRows, RowsMatchCommands
<1>5. OlderHaveEnded'
  BY OrderKept DEF Begun
<1> QED BY <1>1, <1>2, <1>3, <1>4, <1>5

LEMMA CalmNextRound ==
  ASSUME TypeOK, Calm, NEW m \in Managers, NextRound(m)
  PROVE  Calm'
<1> USE DEF rowVars, runVars, procVars, bounds, NextRound, Calm, TypeOK
<1>1. HolderAlone'
  BY DEF HolderAlone
<1>2. NoneForgotten' /\ ListIsFresh'
  BY DEF NoneForgotten, ListIsFresh
<1>3. WorkMatchesRows' /\ RowsMatchCommands'
  BY DEF WorkMatchesRows, RowsMatchCommands
<1>4. OlderHaveEnded'
  BY OrderKept DEF Begun
<1> QED BY <1>1, <1>2, <1>3, <1>4

(* The oldest pending task is listed only when no older one runs.           *)
LEMMA CalmListPending ==
  ASSUME TypeOK, Calm, NEW m \in Managers, ListPending(m)
  PROVE  Calm'
<1> USE DEF rowVars, runVars, procVars, bounds, ListPending, Calm, TypeOK
<1>0. \A n \in Managers : n # m => at[n] = "acquire" /\ work[n] = Idle
  BY Alone
<1>1. HolderAlone'
  BY DEF HolderAlone
<1>2. NoneForgotten'
  BY DEF NoneForgotten
<1>3. \A t \in list'[m] :
        /\ t \in Tasks /\ t \in 1..created /\ status[t] = "pending" /\ ~EnvBusy(m, t)
        /\ \A u \in 1..created :
             status[u] = "pending" /\ EnvOf[u] = EnvOf[t] => t <= u
  BY CreatedTasks
<1>4. ListIsFresh'
  BY <1>0, <1>3 DEF ListIsFresh, EnvBusy, Running
<1>5. WorkMatchesRows' /\ RowsMatchCommands'
  BY DEF WorkMatchesRows, RowsMatchCommands
<1>6. OlderHaveEnded'
  <2> SUFFICES ASSUME NEW t \in Tasks, NEW u \in Tasks, t < u, EnvOf[t] = EnvOf[u],
                      Begun(u)'
               PROVE  status[t] \in {"complete", "failed"}
    BY DEF OlderHaveEnded
  <2>1. CASE Begun(u)
    BY <2>1 DEF OlderHaveEnded
  <2>2. CASE ~Begun(u)
    <3>1. u \in list'[m]
      BY <2>2, <1>0 DEF Begun
    <3>2. t \in 1..created
      BY <3>1, <1>3 DEF Tasks
    <3>3. status[t] # "pending"
      BY <3>1, <3>2, <1>3 DEF Tasks
    <3>4. status[t] # "running"
      BY <3>1, <1>3 DEF NoneForgotten, EnvBusy, Running
    <3> QED BY <3>3, <3>4 DEF RowsMatchCommands
  <2> QED BY <2>1, <2>2
<1> QED BY <1>1, <1>2, <1>4, <1>5, <1>6

(* No two tasks of an environment are found running: recovery succeeds.     *)
LEMMA RecoverSucceeds ==
  ASSUME TypeOK, Calm, NEW m \in Managers, at[m] = "recovering", NEW t \in list[m]
  PROVE  ~EnvBusy(m, t)
<1> USE DEF TypeOK, Calm
<1> SUFFICES ASSUME EnvBusy(m, t) PROVE FALSE
  OBVIOUS
<1>1. t \in Tasks /\ status[t] = "running" /\ work[m][t] = "none"
  BY DEF ListIsFresh
<1>2. PICK u \in Tasks : work[m][u] # "none" /\ EnvOf[u] = EnvOf[t]
  BY DEF EnvBusy, Running
<1>3. status[u] \in {"pending", "running"}
  BY <1>2 DEF WorkMatchesRows
<1>4. Begun(t) /\ Begun(u)
  BY <1>1, <1>2 DEF Begun
<1>5. t < u \/ u < t
  BY <1>1, <1>2 DEF Tasks
<1> QED BY <1>1, <1>2, <1>3, <1>4, <1>5 DEF OlderHaveEnded

LEMMA CalmRecover ==
  ASSUME TypeOK, Calm, NEW m \in Managers, Recover(m)
  PROVE  Calm'
<1> USE DEF rowVars, runVars, procVars, bounds, Calm, TypeOK
<1>0. \A n \in Managers : n # m => at[n] = "acquire" /\ work[n] = Idle
  BY Alone DEF Recover
<1>1. PICK t \in list[m] :
        /\ at[m] = "recovering"
        /\ list' = [list EXCEPT ![m] = @ \ {t}]
        /\ work' = [work EXCEPT ![m][t] = "load"]
        /\ UNCHANGED <<rowVars, runVars, lock, at, ctxDone, bounds>>
  BY RecoverSucceeds DEF Recover, Spawn, HolderAlone
<1>2. t \in Tasks /\ status[t] = "running" /\ work[m][t] = "none"
  BY <1>1 DEF ListIsFresh
<1>3. HolderAlone'
  BY <1>1, <1>2 DEF HolderAlone
<1>4. NoneForgotten'
  BY <1>1, <1>2 DEF NoneForgotten
<1>5. ListIsFresh'
  BY <1>0, <1>1, <1>2 DEF ListIsFresh
<1>6. WorkMatchesRows' /\ RowsMatchCommands'
  BY <1>1, <1>2 DEF WorkMatchesRows, RowsMatchCommands
<1>7. OlderHaveEnded'
  BY <1>1, <1>2, OrderKept DEF Begun
<1> QED BY <1>3, <1>4, <1>5, <1>6, <1>7

LEMMA CalmDispatch ==
  ASSUME TypeOK, Calm, NEW m \in Managers, Dispatch(m)
  PROVE  Calm'
<1> USE DEF rowVars, runVars, procVars, bounds, Calm, TypeOK
<1>0. \A n \in Managers : n # m => at[n] = "acquire" /\ work[n] = Idle
  BY Alone DEF Dispatch
<1>1. PICK t \in list[m] :
        /\ at[m] = "dispatch"
        /\ list' = [list EXCEPT ![m] = @ \ {t}]
        /\ work' = work \/ work' = [work EXCEPT ![m][t] = "enter"]
        /\ UNCHANGED <<rowVars, runVars, lock, at, ctxDone, bounds>>
  BY DEF Dispatch, Spawn
<1>2. t \in Tasks /\ status[t] = "pending" /\ work[m][t] = "none" /\ t <= created
  BY <1>1 DEF ListIsFresh
<1>3. HolderAlone'
  BY <1>1, <1>2 DEF HolderAlone
<1>4. NoneForgotten'
  BY <1>1, <1>2 DEF NoneForgotten
<1>5. ListIsFresh'
  BY <1>0, <1>1, <1>2 DEF ListIsFresh
<1>6. WorkMatchesRows' /\ RowsMatchCommands'
  <2>1. CASE work' = work
    BY <1>1, <2>1 DEF WorkMatchesRows, RowsMatchCommands
  <2>2. CASE work' = [work EXCEPT ![m][t] = "enter"]
    BY <1>1, <1>2, <2>2 DEF WorkMatchesRows, RowsMatchCommands
  <2> QED BY <1>1, <2>1, <2>2
<1>7. OlderHaveEnded'
  BY <1>1, <1>2, OrderKept DEF Begun
<1> QED BY <1>3, <1>4, <1>5, <1>6, <1>7

(* A death leaves rows and commands as they are: the next holder finds them.*)
LEMMA CalmCrash ==
  ASSUME TypeOK, Calm, NEW m \in Managers, Crash(m)
  PROVE  Calm'
<1> USE DEF rowVars, runVars, procVars, bounds, Crash, Calm, TypeOK
<1>1. HolderAlone'
  BY DEF HolderAlone
<1>2. NoneForgotten' /\ ListIsFresh'
  BY DEF NoneForgotten, ListIsFresh
<1>3. WorkMatchesRows' /\ RowsMatchCommands'
  BY DEF WorkMatchesRows, RowsMatchCommands, Idle
<1>4. OlderHaveEnded'
  BY OrderKept DEF Begun, Idle
<1> QED BY <1>1, <1>2, <1>3, <1>4

(* A goroutine changes the rows and the command of its own task only, which *)
(* is not listed, and of which nobody else knows.                           *)
LEMMA CalmTask ==
  ASSUME TypeOK, Calm, NEW m \in Managers, NEW t \in Tasks, TaskStep(m, t)
  PROVE  Calm'
<1> USE DEF rowVars, runVars, procVars, bounds, Calm, TypeOK, SetStep, Goto
<1>0. work[m][t] # "none"
  BY DEF TaskStep, Enter, Load, Loop, Call, Watch, After, Last
<1>1. at[m] \in {"recovering", "list", "dispatch"} /\ ~ctxDone[m]
  BY <1>0, AtWork DEF HolderAlone
<1>2. \A n \in Managers : n # m => at[n] = "acquire" /\ work[n] = Idle
  BY <1>1, Alone
<1>3. /\ UNCHANGED <<created, lock, at, ctxDone, list>>
      /\ \E label \in WorkLabels : work' = [work EXCEPT ![m][t] = label]
  BY DEF TaskStep, Enter, Load, Loop, Call, Watch, After, Last, WorkLabels
<1>4. /\ t \in list[m] => at[m] = "list"
      /\ t <= created
  BY <1>0, <1>1 DEF ListIsFresh, WorkMatchesRows, RowsMatchCommands
<1>5. Begun(t)
  BY <1>0 DEF Begun
<1>6. HolderAlone'
  BY <1>1, <1>3 DEF HolderAlone
<1>7. CASE Enter(m, t)
  <2> USE <1>7 DEF Enter
  <2>1. NoneForgotten' /\ ListIsFresh'
    BY <1>2, <1>3, <1>4 DEF NoneForgotten, ListIsFresh
  <2>2. WorkMatchesRows' /\ RowsMatchCommands'
    BY <1>2, <1>4 DEF WorkMatchesRows, RowsMatchCommands, Idle
  <2>3. OlderHaveEnded'
    BY <1>5, OrderKept DEF Begun, Ended, WorkMatchesRows
  <2> QED BY <1>6, <2>1, <2>2, <2>3
<1>8. ASSUME UNCHANGED <<status>>, work'[m][t] # "none",
             WorkMatchesRows', RowsMatchCommands'
      PROVE  Calm'
  <2>1. NoneForgotten' /\ ListIsFresh'
    BY <1>2, <1>3, <1>4, <1>8 DEF NoneForgotten, ListIsFresh
  <2>2. OlderHaveEnded'
    BY <1>3, <1>5, <1>8, OrderKept DEF Begun
  <2> QED BY <1>6, <1>8, <2>1, <2>2
<1>9. CASE Load(m, t)
  <2> USE <1>9 DEF Load
  <2>1. WorkMatchesRows' /\ RowsMatchCommands'
    BY DEF WorkMatchesRows, RowsMatchCommands
  <2> QED BY <1>8, <2>1
<1>10. CASE Loop(m, t)
  <2> USE <1>1, <1>10 DEF Loop
  <2>1. WorkMatchesRows' /\ RowsMatchCommands'
    <3>1. status[t] = "running"
      BY DEF WorkMatchesRows
    <3>2. CASE work[m][t] = "fresh"
      <4>1. /\ step' = [step EXCEPT ![t] = "running"] /\ cmd' = cmd /\ status' = status
            /\ work' = [work EXCEPT ![m][t] = "call"] /\ UNCHANGED <<created, at>>
        BY <3>2
      <4> QED BY <1>2, <3>1, <3>2, <4>1 DEF WorkMatchesRows, RowsMatchCommands, Idle
    <3>3. CASE work[m][t] = "started"
      BY <3>3 DEF WorkMatchesRows, RowsMatchCommands
    <3> QED BY <3>2, <3>3
  <2> QED BY <1>8, <2>1
<1>11. CASE Call(m, t)
  <2> USE <1>11 DEF Call
  <2>1. WorkMatchesRows' /\ RowsMatchCommands'
    <3>1. status[t] = "running" /\ cmd[t] = "none"
      BY DEF WorkMatchesRows
    <3>2. CASE t \notin box
      <4>1. /\ cmd' = [cmd EXCEPT ![t] = "running"] /\ step' = step
            /\ work' = [work EXCEPT ![m][t] = "started"]
        BY <3>2
      <4>2. step[t] # "pending"
        BY DEF WorkMatchesRows
      <4> QED BY <1>2, <3>1, <4>1, <4>2 DEF WorkMatchesRows, RowsMatchCommands, Idle
    <3>3. CASE t \in box
      <4>1. /\ step' = [step EXCEPT ![t] = "failed"] /\ cmd' = cmd
            /\ work' = [work EXCEPT ![m][t] = "after"]
        BY <3>3
      <4> QED BY <1>2, <3>1, <4>1 DEF WorkMatchesRows, RowsMatchCommands, Idle
    <3> QED BY <3>2, <3>3
  <2> QED BY <1>8, <2>1
<1>12. CASE Watch(m, t)
  <2> USE <1>1, <1>12 DEF Watch
  <2>1. WorkMatchesRows' /\ RowsMatchCommands'
    <3>1. PICK s \in Ended : step' = [step EXCEPT ![t] = s]
      BY DEF Ended
    <3> QED BY <1>2, <3>1 DEF WorkMatchesRows, RowsMatchCommands, Idle, Ended
  <2> QED BY <1>8, <2>1
<1>13. CASE After(m, t)
  <2> USE <1>13 DEF After
  <2>1. WorkMatchesRows' /\ RowsMatchCommands'
    BY <1>2 DEF WorkMatchesRows, RowsMatchCommands, Idle
  <2> QED BY <1>8, <2>1
<1>14. CASE Last(m, t)
  <2> USE <1>14 DEF Last
  <2>0. status'[t] \in Ended
    <3>1. step[t] \in {"complete", "failed"}
      BY DEF WorkMatchesRows
    <3> QED BY <3>1, StepToTaskEnded DEF Ended
  <2>1. NoneForgotten' /\ ListIsFresh'
    BY <1>2, <1>3, <1>4, <2>0 DEF NoneForgotten, ListIsFresh, Ended
  <2>2. WorkMatchesRows' /\ RowsMatchCommands'
    BY <1>2, <1>4, <2>0 DEF WorkMatchesRows, RowsMatchCommands, Idle, Ended
  <2>3. OlderHaveEnded'
    BY <1>5, <2>0, OrderKept DEF Begun
  <2> QED BY <1>6, <2>1, <2>2, <2>3
<1> QED BY <1>7, <1>9, <1>10, <1>11, <1>12, <1>13, <1>14 DEF TaskStep

LEMMA CalmCommandEnds ==
  ASSUME TypeOK, Calm, NEW t \in Tasks, CommandEnds(t)
  PROVE  Calm'
<1> USE DEF rowVars, runVars, procVars, bounds, CommandEnds, Calm, TypeOK
<1>1. HolderAlone' /\ NoneForgotten' /\ ListIsFresh'
  BY DEF HolderAlone, NoneForgotten, ListIsFresh
<1>2. WorkMatchesRows' /\ RowsMatchCommands'
  BY DEF WorkMatchesRows, RowsMatchCommands
<1>3. OlderHaveEnded'
  BY OrderKept DEF Begun
<1> QED BY <1>1, <1>2, <1>3

LEMMA CalmStutter == Calm /\ UNCHANGED vars => Calm'
  BY DEF vars, rowVars, runVars, procVars, bounds, Calm, HolderAlone, NoneForgotten,
         ListIsFresh, WorkMatchesRows, RowsMatchCommands, OlderHaveEnded, Begun

(* While the count of lost locks is zero it was zero before.                *)
LEMMA LossesGrow ==
  ASSUME TypeOK, [Next]_vars, losses' = 0
  PROVE  losses = 0 /\ ~LoseLock
  BY DEF Next, vars, rowVars, runVars, procVars, bounds, ManagerStep, TaskStep, TypeOK,
         Create, LoseLock, Acquire, NoticeLoss, Unlock, FindRunning, Recover,
         ListPending, Dispatch, NextRound, LeaveLoop, Stopped, Crash, Enter, Load,
         Loop, Call, Watch, After, Last, CommandEnds

LEMMA CalmNext == TypeOK /\ SchedulerInv /\ [Next]_vars => SchedulerInv'
<1> SUFFICES ASSUME TypeOK, SchedulerInv, [Next]_vars, losses' = 0 PROVE Calm'
  BY DEF SchedulerInv, Calm
<1>1. losses = 0 /\ ~LoseLock
  BY LossesGrow
<1>2. Calm
  BY <1>1 DEF SchedulerInv, Calm
<1>3. CASE Create
  BY <1>2, <1>3, CalmCreate
<1>4. ASSUME NEW m \in Managers, ManagerStep(m) \/ Crash(m)
      PROVE  Calm'
  BY <1>2, <1>4, CalmAcquire, CalmUnlock, CalmNoStop, CalmFindRunning, CalmRecover,
     CalmListPending, CalmDispatch, CalmNextRound, CalmCrash DEF ManagerStep
<1>5. ASSUME NEW m \in Managers, NEW t \in Tasks, TaskStep(m, t)
      PROVE  Calm'
  BY <1>2, <1>5, CalmTask
<1>6. ASSUME NEW t \in Tasks, CommandEnds(t)
      PROVE  Calm'
  BY <1>2, <1>6, CalmCommandEnds
<1>7. CASE UNCHANGED vars
  BY <1>2, <1>7, CalmStutter
<1> QED BY <1>1, <1>3, <1>4, <1>5, <1>6, <1>7 DEF Next

(* While no lock is lost, lock, memory and rows agree.                      *)
THEOREM SchedulerCorrect == Spec => []SchedulerInv
<1>1. Init => SchedulerInv
  BY CalmInit DEF SchedulerInv, Calm
<1> QED BY <1>1, CalmNext, TypeCorrect, PTL DEF Spec

(* Two commands of one environment never run at once: of two tasks that     *)
(* have begun, the older has ended, and an ended task has no command.       *)
THEOREM ExclusionCorrect == Spec => []EnvExclusive
<1>1. TypeOK /\ SchedulerInv => EnvExclusive
  <2> SUFFICES ASSUME TypeOK, SchedulerInv, losses = 0, NEW t \in Tasks, NEW u \in Tasks,
                      t < u, EnvOf[t] = EnvOf[u], cmd[t] = "running", cmd[u] = "running"
               PROVE  FALSE
    BY DEF EnvExclusive, Tasks
  <2>1. status[t] = "running" /\ status[u] = "running"
    BY DEF SchedulerInv, RowsMatchCommands
  <2> QED BY <2>1 DEF SchedulerInv, OlderHaveEnded, Begun
<1> QED BY <1>1, TypeCorrect, SchedulerCorrect, PTL

(* The command of a task starts after all older tasks of its environment.   *)
THEOREM QueueCorrect == Spec => []InOrder
<1>1. TypeOK /\ SchedulerInv => InOrder
  <2> SUFFICES ASSUME TypeOK, SchedulerInv, losses = 0, NEW u \in Tasks,
                      cmd[u] # "none", NEW t \in 1..(u - 1), EnvOf[t] = EnvOf[u]
               PROVE  TaskExited(status[t])
    BY DEF InOrder
  <2>1. t \in Tasks /\ t < u
    BY DEF Tasks
  <2>2. Begun(u)
    BY DEF SchedulerInv, RowsMatchCommands, Begun
  <2> QED BY <2>1, <2>2 DEF SchedulerInv, OlderHaveEnded, TaskExited
<1> QED BY <1>1, TypeCorrect, SchedulerCorrect, PTL

(* What has ended or was killed is not started again: a command is called   *)
(* from a goroutine alone, and only while the task has none.                *)
THEOREM OnceCorrect == Spec => RunsOnce
<1>1. TypeOK /\ SchedulerInv /\ [Next]_vars =>
        [losses = 0 =>
          \A t \in Tasks : cmd[t] \in {"ok", "fail", "killed"}
            => cmd'[t] = cmd[t]]_vars
  <2> SUFFICES ASSUME TypeOK, SchedulerInv, [Next]_vars, losses = 0, NEW t \in Tasks,
                      cmd[t] \in {"ok", "fail", "killed"}
               PROVE  cmd'[t] = cmd[t]
    OBVIOUS
  <2> USE DEF rowVars, runVars, procVars, bounds, TypeOK
  <2>1. CASE Create \/ LoseLock \/ UNCHANGED vars
    BY <2>1 DEF Create, LoseLock, vars
  <2>2. CASE \E m \in Managers : ManagerStep(m) \/ Crash(m)
    BY <2>2 DEF ManagerStep, Acquire, NoticeLoss, Unlock, FindRunning, Recover,
                ListPending, Dispatch, NextRound, LeaveLoop, Stopped, Crash
  <2>3. CASE \E m \in Managers, u \in Tasks : TaskStep(m, u)
    <3>1. PICK m \in Managers, u \in Tasks : TaskStep(m, u)
      BY <2>3
    <3>2. CASE Call(m, u)
      BY <3>2 DEF Call, SchedulerInv, WorkMatchesRows
    <3>3. CASE After(m, u)
      BY <3>3 DEF After
    <3> QED BY <3>1, <3>2, <3>3 DEF TaskStep, Enter, Load, Loop, Watch, Last
  <2>4. CASE \E u \in Tasks : CommandEnds(u)
    BY <2>4 DEF CommandEnds
  <2> QED BY <2>1, <2>2, <2>3, <2>4 DEF Next
<1> QED BY <1>1, TypeCorrect, SchedulerCorrect, PTL DEF Spec, RunsOnce

-----------------------------------------------------------------------------
(* Failures.                                                                *)

Cause(t) == cmd[t] = "fail" \/ (cmd[t] = "none" /\ crashes > 0)

(* What a step says of its command: a failed one has a cause, a complete    *)
(* one succeeded; one that runs without a command is about to get it, or a  *)
(* death came between; nothing is killed, and no container is in the way of *)
(* a command not yet started.                                               *)
Caused ==
    \A t \in Tasks :
        /\ cmd[t] # "killed"
        /\ t \in box => cmd[t] # "none"
        /\ status[t] = "pending" => step[t] = "pending"
        /\ status[t] = "failed" \/ step[t] = "failed" => Cause(t)
        /\ step[t] = "complete" => cmd[t] = "ok"
        /\ step[t] = "running" /\ cmd[t] = "none"
             => crashes > 0 \/ \E m \in Managers : work[m][t] = "call"
        /\ \A m \in Managers : work[m][t] \in {"started", "watch"} => step[t] = "running"

(* Only a goroutine, a death or the end of a command touches what Caused    *)
(* speaks of, but for a goroutine that begins.                              *)
LEMMA CausedManager ==
  ASSUME TypeOK, Calm, Caused, NEW m \in Managers, ManagerStep(m)
  PROVE  Caused'
<1> USE DEF rowVars, runVars, procVars, bounds, TypeOK, Cause
<1>1. UNCHANGED <<created, status, step, cmd, box, crashes>>
  BY DEF ManagerStep, Acquire, NoticeLoss, Unlock, FindRunning, Recover, ListPending,
         Dispatch, NextRound, LeaveLoop, Stopped
<1>2. CASE UNCHANGED work
  BY <1>1, <1>2 DEF Caused
<1>3. CASE \E t \in Tasks, label \in {"load", "enter"} :
             work[m][t] = "none" /\ work' = [work EXCEPT ![m][t] = label]
  BY <1>1, <1>3 DEF Caused
<1>4. UNCHANGED work \/ \E t \in Tasks, label \in {"load", "enter"} :
             work[m][t] = "none" /\ work' = [work EXCEPT ![m][t] = label]
  <2>1. CASE Recover(m)
    BY <2>1 DEF Recover, Spawn, EnvBusy, Running
  <2>2. CASE Dispatch(m)
    BY <2>2 DEF Dispatch, Spawn, EnvBusy, Running
  <2> QED BY <2>1, <2>2 DEF ManagerStep, Acquire, NoticeLoss, Unlock, FindRunning,
                            ListPending, NextRound, LeaveLoop, Stopped
<1> QED BY <1>2, <1>3, <1>4

(* A death is itself the cause of what it leaves unstarted.                 *)
LEMMA CausedCrash ==
  ASSUME TypeOK, Calm, Caused, NEW m \in Managers, Crash(m)
  PROVE  Caused'
<1>1. crashes' > 0
  BY DEF Crash, TypeOK
<1> QED BY <1>1 DEF rowVars, runVars, TypeOK, Caused, Cause, Crash, Idle

LEMMA CausedCommandEnds ==
  ASSUME TypeOK, Calm, Caused, NEW t \in Tasks, CommandEnds(t)
  PROVE  Caused'
<1>1. step[t] \notin {"complete", "failed"} /\ status[t] # "failed"
  BY DEF CommandEnds, Caused, Cause
<1> QED BY <1>1 DEF rowVars, bounds, TypeOK, Caused, Cause, CommandEnds

(* A goroutine finds no container of its task before it starts the command, *)
(* and no running command once the step has ended.                          *)
LEMMA CausedTask ==
  ASSUME TypeOK, Calm, Caused, NEW m \in Managers, NEW t \in Tasks, TaskStep(m, t)
  PROVE  Caused'
<1> USE DEF rowVars, runVars, procVars, bounds, TypeOK, SetStep, Goto, Cause
<1>0. work[m][t] # "none" /\ crashes' = crashes
  BY DEF TaskStep, Enter, Load, Loop, Call, Watch, After, Last
<1>1. \A n \in Managers : n # m => work[n][t] = "none"
  BY <1>0, AtWork, Alone DEF Calm, Idle
<1>2. /\ ~ctxDone[m]
      /\ work[m][t] \in {"fresh", "call"} => cmd[t] = "none"
      /\ work[m][t] = "call" => step[t] = "running"
      /\ work[m][t] \in {"after", "last"} => step[t] \in {"complete", "failed"}
      /\ work[m][t] \notin {"none", "enter"} => status[t] = "running"
  BY DEF Calm, HolderAlone, WorkMatchesRows
<1>3. CASE Enter(m, t)
  BY <1>0, <1>1, <1>3 DEF Enter, Caused
<1>4. CASE Load(m, t)
  BY <1>0, <1>1, <1>4 DEF Load, Caused
<1>5. CASE Loop(m, t)
  <2>1. CASE work[m][t] = "fresh"
    <3>1. /\ step' = [step EXCEPT ![t] = "running"]
          /\ work' = [work EXCEPT ![m][t] = "call"]
          /\ UNCHANGED <<created, status, cmd, box, crashes>>
      BY <1>2, <1>5, <2>1 DEF Loop
    <3> QED BY <1>1, <1>2, <2>1, <3>1 DEF Caused
  <2>2. CASE work[m][t] = "started"
    <3>1. /\ work' = [work EXCEPT ![m][t] = "watch"]
          /\ UNCHANGED <<created, status, step, cmd, box, crashes>>
      BY <1>2, <1>5, <2>2 DEF Loop
    <3> QED BY <1>1, <2>2, <3>1 DEF Caused
  <2> QED BY <1>2, <1>5, <2>1, <2>2 DEF Loop
<1>6. CASE Call(m, t)
  <2>1. /\ cmd' = [cmd EXCEPT ![t] = "running"] /\ box' = box \cup {t}
        /\ work' = [work EXCEPT ![m][t] = "started"]
        /\ UNCHANGED <<created, status, step, crashes>>
    BY <1>2, <1>6 DEF Call, Caused
  <2> QED BY <1>1, <1>2, <1>6, <2>1 DEF Call, Caused
<1>7. CASE Watch(m, t)
  <2>1. PICK s \in Ended : /\ step' = [step EXCEPT ![t] = s]
                           /\ s = "complete" => cmd[t] = "ok"
                           /\ s = "failed" => cmd[t] \in {"none", "fail", "killed"}
    BY <1>2, <1>7 DEF Watch, Ended
  <2>2. /\ work' = [work EXCEPT ![m][t] = "after"] /\ work[m][t] = "watch"
        /\ UNCHANGED <<created, status, cmd, box, crashes>>
    BY <1>7 DEF Watch
  <2>3. s = "failed" => Cause(t)
    BY <1>1, <2>1, <2>2 DEF Caused
  <2> QED BY <1>1, <1>2, <2>1, <2>2, <2>3 DEF Caused, Ended
<1>8. CASE After(m, t)
  <2>1. cmd[t] # "running"
    BY <1>2, <1>8 DEF After, Caused
  <2>2. cmd' = cmd
    BY <1>8, <2>1 DEF After
  <2> QED BY <1>1, <1>8, <2>2 DEF After, Caused
<1>9. CASE Last(m, t)
  <2>1. /\ work' = [work EXCEPT ![m][t] = "none"] /\ work[m][t] = "last"
        /\ status' = [status EXCEPT ![t] = StepToTask(step[t])]
        /\ UNCHANGED <<created, step, cmd, box, crashes>>
    BY <1>9 DEF Last
  <2>2. /\ StepToTask(step[t]) = step[t]
    BY <1>2, <2>1 DEF StepToTask
  <2> QED BY <1>1, <1>2, <2>1, <2>2 DEF Caused
<1> QED BY <1>3, <1>4, <1>5, <1>6, <1>7, <1>8, <1>9 DEF TaskStep

(* A task fails for a cause: its step never fails because of a container    *)
(* that is in the way, nor because a successor watches it.                  *)
THEOREM FailureCorrect == Spec => []FailsForCause
<1> DEFINE Inv == losses = 0 => Caused
<1>1. Init => Inv
  BY DEF Init, Caused, Cause, Idle
<1>2. TypeOK /\ SchedulerInv /\ Inv /\ [Next]_vars => Inv'
  <2> SUFFICES ASSUME TypeOK, SchedulerInv, Inv, [Next]_vars, losses' = 0 PROVE Caused'
    OBVIOUS
  <2>1. losses = 0 /\ ~LoseLock
    BY LossesGrow
  <2>2. Calm /\ Caused
    BY <2>1 DEF SchedulerInv, Calm
  <2>3. CASE Create \/ UNCHANGED vars
    BY <2>2, <2>3 DEF Create, vars, rowVars, runVars, procVars, bounds, Caused, Cause
  <2>4. ASSUME NEW m \in Managers, ManagerStep(m) \/ Crash(m)
        PROVE  Caused'
    BY <2>2, <2>4, CausedManager, CausedCrash
  <2>5. ASSUME NEW m \in Managers, NEW t \in Tasks, TaskStep(m, t)
        PROVE  Caused'
    BY <2>2, <2>5, CausedTask
  <2>6. ASSUME NEW t \in Tasks, CommandEnds(t)
        PROVE  Caused'
    BY <2>2, <2>6, CausedCommandEnds
  <2> QED BY <2>1, <2>3, <2>4, <2>5, <2>6 DEF Next
<1>3. Inv => FailsForCause
  BY DEF Caused, Cause, FailsForCause
<1> QED BY <1>1, <1>2, <1>3, TypeCorrect, SchedulerCorrect, PTL DEF Spec

=============================================================================
