------------------------------ MODULE Scheduler ------------------------------
(***************************************************************************)
(* The task managers of several portal processes, the consul lock that     *)
(* lets one of them work, and the goroutines each has started: recovery,   *)
(* the list of pending tasks, one task at a time per environment, and what *)
(* is left running when the lock is lost or a process dies.                *)
(*                                                                         *)
(* A task is reduced to one step that needs no approval; TaskRun has the   *)
(* whole flow of one task.                                                 *)
(***************************************************************************)
EXTENDS DeployStatus, Naturals

CONSTANTS
    Managers,    \* portal processes
    NoManager,   \* the lock is free
    NTasks,      \* tasks are numbered in the order of their creation
    Envs,
    EnvOf,       \* the environment of each task
    MaxLosses,   \* bound: sessions consul gives up while the holder lives
    MaxCrashes   \* bound: deaths of a portal process

Tasks == 1..NTasks

ASSUME SchedulerAssumption ==
    /\ NTasks \in Nat /\ EnvOf \in [Tasks -> Envs]
    /\ NoManager \notin Managers
    /\ MaxLosses \in Nat /\ MaxCrashes \in Nat

VARIABLES
    created,    \* tasks created so far
    status,     \* database: status of each task
    step,       \* database: status of its step
    cmd,        \* runner: the latest command of the step
    box,        \* runner: the tasks that have a container
    lock,       \* consul: who holds the lock
    at,         \* where each manager is
    ctxDone,    \* the context of each manager is cancelled
    list,       \* the tasks it has read and not yet dispatched
    work,       \* where each of its goroutines is, by task
    losses, crashes

rowVars  == <<created, status, step>>
procVars == <<at, ctxDone, list>>
bounds   == <<losses, crashes>>
runVars  == <<cmd, box>>
vars == <<rowVars, runVars, lock, procVars, work, bounds>>

(* A task without goroutine is "none"; envRunningTask holds the others'     *)
(* environments.                                                            *)
Idle == [t \in Tasks |-> "none"]
Running(m) == {t \in Tasks : work[m][t] # "none"}
EnvBusy(m, t) == \E u \in Running(m) : EnvOf[u] = EnvOf[t]

Init ==
    /\ created = 0
    /\ status = [t \in Tasks |-> "pending"]
    /\ step = [t \in Tasks |-> "pending"]
    /\ cmd = Idle /\ box = {}
    /\ lock = NoManager
    /\ at = [m \in Managers |-> "acquire"]
    /\ ctxDone = [m \in Managers |-> FALSE]
    /\ list = [m \in Managers |-> {}]
    /\ work = [m \in Managers |-> Idle]
    /\ losses = 0 /\ crashes = 0

-----------------------------------------------------------------------------
(* Users and the lock.                                                      *)

(* doCreateTask: a row in status pending.                                   *)
Create ==
    /\ created < NTasks
    /\ created' = created + 1
    /\ UNCHANGED <<status, step, runVars, lock, procVars, work, bounds>>

(* acquireLock blocks until consul grants the lock.                         *)
Acquire(m) ==
    /\ at[m] = "acquire" /\ lock = NoManager
    /\ lock' = m
    /\ at' = [at EXCEPT ![m] = "recover"]
    /\ UNCHANGED <<rowVars, runVars, ctxDone, list, work, bounds>>

(* The session expires at consul while its holder is alive.                 *)
LoseLock ==
    /\ losses < MaxLosses /\ lock # NoManager /\ at[lock] # "acquire"
    /\ losses' = losses + 1
    /\ lock' = NoManager
    /\ UNCHANGED <<rowVars, runVars, procVars, work, crashes>>

(* lockLostCh: the holder hears of it some time later.                      *)
NoticeLoss(m) ==
    /\ at[m] # "acquire" /\ lock # m /\ ~ctxDone[m]
    /\ ctxDone' = [ctxDone EXCEPT ![m] = TRUE]
    /\ UNCHANGED <<rowVars, runVars, lock, at, list, work, bounds>>

(* The lock is released once the context is cancelled, while goroutines may *)
(* still run; that of a process that died, once its session expires.        *)
Unlock(m) ==
    /\ lock = m /\ (ctxDone[m] \/ at[m] = "acquire")
    /\ lock' = NoManager
    /\ UNCHANGED <<rowVars, runVars, procVars, work, bounds>>

-----------------------------------------------------------------------------
(* The main loop of a manager.                                              *)

Spawn(m, t, label) ==
    IF EnvBusy(m, t) THEN UNCHANGED work
    ELSE work' = [work EXCEPT ![m][t] = label]

(* Variant: the tasks of an earlier manager are not looked for.             *)
FindNone(m) ==
    /\ at[m] = "recover"
    /\ at' = [at EXCEPT ![m] = "recovering"]
    /\ UNCHANGED <<rowVars, runVars, lock, ctxDone, list, work, bounds>>

(* recoverTask: find the tasks that run.                                    *)
FindRunning(m) ==
    /\ at[m] = "recover"
    /\ list' = [list EXCEPT ![m] = {t \in 1..created : TaskRecoverable(status[t])}]
    /\ at' = [at EXCEPT ![m] = "recovering"]
    /\ UNCHANGED <<rowVars, runVars, lock, ctxDone, work, bounds>>

(* ... and start a goroutine for each, until the context is cancelled.  Two *)
(* of the same environment are an error that ends the manager's round.      *)
Recover(m) ==
    /\ at[m] = "recovering"
    /\ \E t \in list[m] :
         /\ list' = [list EXCEPT ![m] = @ \ {t}]
         /\ \/ ctxDone[m] /\ UNCHANGED <<at, ctxDone, work>>
            \/ /\ ~ctxDone[m] /\ ~EnvBusy(m, t)
               /\ Spawn(m, t, "load") /\ UNCHANGED <<at, ctxDone>>
            \/ /\ ~ctxDone[m] /\ EnvBusy(m, t)
               /\ at' = [at EXCEPT ![m] = "stop"]
               /\ ctxDone' = [ctxDone EXCEPT ![m] = TRUE]
               /\ UNCHANGED work
    /\ UNCHANGED <<rowVars, runVars, lock, bounds>>

(* Variant: the newest pending task of each environment.                    *)
ListNewest(m) ==
    /\ at[m] = "list"
    /\ LET pending == {t \in 1..created : status[t] = "pending"}
       IN  list' = [list EXCEPT ![m] =
             {t \in pending : /\ ~EnvBusy(m, t)
                              /\ \A u \in pending : EnvOf[u] = EnvOf[t] => u <= t}]
    /\ at' = [at EXCEPT ![m] = "dispatch"]
    /\ UNCHANGED <<rowVars, runVars, lock, ctxDone, work, bounds>>

(* getPendingDeployTasks: the oldest pending task of each environment in    *)
(* which this manager runs nothing.                                         *)
ListPending(m) ==
    /\ at[m] = "list"
    /\ LET pending == {t \in 1..created : status[t] = "pending"}
       IN  list' = [list EXCEPT ![m] =
             {t \in pending : /\ ~EnvBusy(m, t)
                              /\ \A u \in pending : EnvOf[u] = EnvOf[t] => t <= u}]
    /\ at' = [at EXCEPT ![m] = "dispatch"]
    /\ UNCHANGED <<rowVars, runVars, lock, ctxDone, work, bounds>>

(* processPendingTask: the break on a cancelled context leaves only the     *)
(* select, so the listed tasks are dispatched all the same.                 *)
Dispatch(m) ==
    /\ at[m] = "dispatch"
    /\ \E t \in list[m] :
         /\ list' = [list EXCEPT ![m] = @ \ {t}]
         /\ Spawn(m, t, "enter")
    /\ UNCHANGED <<rowVars, runVars, lock, at, ctxDone, bounds>>

(* The end of recovery or of a round: a tick starts the next round, also    *)
(* when the context is cancelled too and the select picks the tick.         *)
NextRound(m) ==
    /\ at[m] \in {"recovering", "dispatch"} /\ list[m] = {}
    /\ at' = [at EXCEPT ![m] = "list"]
    /\ UNCHANGED <<rowVars, runVars, lock, ctxDone, list, work, bounds>>

LeaveLoop(m) ==
    /\ at[m] = "dispatch" /\ list[m] = {} /\ ctxDone[m]
    /\ at' = [at EXCEPT ![m] = "stop"]
    /\ UNCHANGED <<rowVars, runVars, lock, ctxDone, list, work, bounds>>

(* stop waits for every goroutine; then Start begins again.                 *)
Stopped(m) ==
    /\ at[m] = "stop" /\ Running(m) = {}
    /\ at' = [at EXCEPT ![m] = "acquire"]
    /\ ctxDone' = [ctxDone EXCEPT ![m] = FALSE]
    /\ list' = [list EXCEPT ![m] = {}]
    /\ UNCHANGED <<rowVars, runVars, lock, work, bounds>>

(* A portal process dies and is started again; consul still has its lock.   *)
Crash(m) ==
    /\ crashes < MaxCrashes /\ at[m] # "acquire"
    /\ crashes' = crashes + 1
    /\ at' = [at EXCEPT ![m] = "acquire"]
    /\ ctxDone' = [ctxDone EXCEPT ![m] = FALSE]
    /\ list' = [list EXCEPT ![m] = {}]
    /\ work' = [work EXCEPT ![m] = Idle]
    /\ UNCHANGED <<rowVars, runVars, lock, losses>>

-----------------------------------------------------------------------------
(* The goroutine of a task.                                                 *)

Goto(m, t, label) == work' = [work EXCEPT ![m][t] = label]

SetStep(t, new) == step' = [step EXCEPT ![t] = new]

(* doRunTask marks a task that its copy calls pending as running.           *)
Enter(m, t) ==
    /\ work[m][t] = "enter"
    /\ status' = [status EXCEPT ![t] = "running"]
    /\ Goto(m, t, "load")
    /\ UNCHANGED <<created, step, runVars, lock, procVars, bounds>>

(* Variant: recovery begins the step anew, whatever its saved status.       *)
LoadAnew(m, t) ==
    /\ work[m][t] = "load"
    /\ Goto(m, t, "fresh")
    /\ UNCHANGED <<rowVars, runVars, lock, procVars, bounds>>

(* The step is read once: it is fresh, started before, or has ended.        *)
Load(m, t) ==
    /\ work[m][t] = "load"
    /\ Goto(m, t, CASE step[t] = "pending" -> "fresh"
                    [] step[t] = "running" -> "started"
                    [] OTHER               -> "after")
    /\ UNCHANGED <<rowVars, runVars, lock, procVars, bounds>>

(* The loop of waitTaskStepDone: left when the context is cancelled.        *)
Loop(m, t) ==
    /\ \/ /\ ctxDone[m] /\ work[m][t] \in {"fresh", "started"}
          /\ Goto(m, t, "after") /\ UNCHANGED step
       \/ /\ ~ctxDone[m] /\ work[m][t] = "fresh"
          /\ SetStep(t, "running") /\ Goto(m, t, "call")
       \/ /\ ~ctxDone[m] /\ work[m][t] = "started"
          /\ Goto(m, t, "watch") /\ UNCHANGED step
    /\ UNCHANGED <<created, status, runVars, lock, procVars, bounds>>

(* StartTaskStep: the container has the task's id as its name, so a second  *)
(* start is refused while it exists, and the step fails.                    *)
Call(m, t) ==
    /\ work[m][t] = "call"
    /\ IF t \notin box
       THEN /\ cmd' = [cmd EXCEPT ![t] = "running"] /\ box' = box \cup {t}
            /\ Goto(m, t, "started") /\ UNCHANGED step
       ELSE SetStep(t, "failed") /\ Goto(m, t, "after") /\ UNCHANGED runVars
    /\ UNCHANGED <<created, status, lock, procVars, bounds>>

(* WaitTaskStep: the result of the command.  With the context cancelled the *)
(* reads return no status, ten times over, and the step is marked failed.   *)
Watch(m, t) ==
    /\ work[m][t] = "watch"
    /\ \/ cmd[t] = "ok" /\ SetStep(t, "complete")
       \/ cmd[t] \in {"none", "fail", "killed"} /\ SetStep(t, "failed")
       \/ ctxDone[m] /\ SetStep(t, "failed")
    /\ Goto(m, t, "after")
    /\ UNCHANGED <<created, status, runVars, lock, procVars, bounds>>

(* processTaskDone: the container is killed, with what still runs in it,    *)
(* also when the goroutine only leaves because the context is cancelled.    *)
(* Docker removes it then (AutoRemove), and its name is free again.         *)
After(m, t) ==
    /\ work[m][t] = "after"
    /\ cmd' = [cmd EXCEPT ![t] = IF @ = "running" THEN "killed" ELSE @]
    /\ box' = box \ {t}
    /\ Goto(m, t, "last")
    /\ UNCHANGED <<rowVars, lock, procVars, bounds>>

(* ... and the task takes the status of its step; the goroutine ends.       *)
Last(m, t) ==
    /\ work[m][t] = "last"
    /\ status' = [status EXCEPT ![t] = StepToTask(step[t])]
    /\ Goto(m, t, "none")
    /\ UNCHANGED <<created, step, runVars, lock, procVars, bounds>>

CommandEnds(t) ==
    /\ cmd[t] = "running"
    /\ \E end \in {"ok", "fail"} : cmd' = [cmd EXCEPT ![t] = end]
    /\ UNCHANGED <<rowVars, box, lock, procVars, work, bounds>>

-----------------------------------------------------------------------------
ManagerStep(m) ==
    \/ Acquire(m) \/ NoticeLoss(m) \/ Unlock(m)
    \/ FindRunning(m) \/ Recover(m) \/ ListPending(m) \/ Dispatch(m)
    \/ NextRound(m) \/ LeaveLoop(m) \/ Stopped(m)

TaskStep(m, t) ==
    \/ Enter(m, t) \/ Load(m, t) \/ Loop(m, t) \/ Call(m, t) \/ Watch(m, t)
    \/ After(m, t) \/ Last(m, t)

Next ==
    \/ Create \/ LoseLock
    \/ \E m \in Managers : ManagerStep(m) \/ Crash(m)
    \/ \E m \in Managers, t \in Tasks : TaskStep(m, t)
    \/ \E t \in Tasks : CommandEnds(t)

Spec == Init /\ [][Next]_vars

(* Every goroutine runs on; commands end (the runner enforces a timeout);   *)
(* consul reports a lost lock and gives a free one to somebody who waits.   *)
(* A select with two ready cases does not always pick the same one.  Users  *)
(* need not create anything.                                                *)
Fairness ==
    /\ \A m \in Managers :
         /\ WF_vars(NoticeLoss(m)) /\ WF_vars(Unlock(m))
         /\ WF_vars(FindRunning(m)) /\ WF_vars(Recover(m))
         /\ WF_vars(ListPending(m)) /\ WF_vars(Dispatch(m))
         /\ WF_vars(NextRound(m)) /\ SF_vars(LeaveLoop(m)) /\ WF_vars(Stopped(m))
    /\ WF_vars(\E m \in Managers : Acquire(m))
    /\ \A m \in Managers, t \in Tasks : WF_vars(TaskStep(m, t))
    /\ \A t \in Tasks : WF_vars(CommandEnds(t))

FairSpec == Spec /\ Fairness

-----------------------------------------------------------------------------
(* Properties.                                                              *)

TypeOK ==
    /\ created \in 0..NTasks
    /\ status \in [Tasks -> TaskStatuses] /\ step \in [Tasks -> StepStatuses]
    /\ cmd \in [Tasks -> {"none", "running", "ok", "fail", "killed"}]
    /\ box \subseteq Tasks
    /\ lock \in Managers \cup {NoManager}
    /\ at \in [Managers -> {"acquire", "recover", "recovering", "list",
                            "dispatch", "stop"}]
    /\ ctxDone \in [Managers -> BOOLEAN]
    /\ list \in [Managers -> SUBSET Tasks]
    /\ work \in [Managers -> [Tasks -> {"none", "enter", "load", "fresh", "started",
                                        "call", "watch", "after", "last"}]]
    /\ losses \in 0..MaxLosses /\ crashes \in 0..MaxCrashes

(* While no lock is lost to a holder that lives, no environment has the     *)
(* commands of two of its tasks running at once (two terraform processes on *)
(* one state), whatever crashes and recoveries come between.                *)
EnvExclusive ==
    losses = 0 =>
        \A t, u \in Tasks : t # u /\ EnvOf[t] = EnvOf[u]
            => ~(cmd[t] = "running" /\ cmd[u] = "running")

(* While no lock is lost, the tasks of an environment run in the order of   *)
(* their creation: the command of a task starts after every older task of   *)
(* its environment has ended for good.                                      *)
InOrder ==
    losses = 0 =>
        \A u \in Tasks : cmd[u] # "none" =>
            \A t \in 1..(u - 1) : EnvOf[t] = EnvOf[u] => TaskExited(status[t])

(* No command is left behind, even when a lost lock puts two managers on    *)
(* the same task: nothing runs for a task that has ended and that nobody    *)
(* works on (a crash may leave one once two managers are at work).          *)
NoOrphan ==
    crashes = 0 \/ losses = 0 =>
        \A t \in Tasks :
            TaskExited(status[t]) /\ (\A m \in Managers : work[m][t] = "none")
                => cmd[t] # "running"

(* While no lock is lost, a task that fails has a command that failed, or   *)
(* one that a crash kept from being started: handing the tasks from one     *)
(* manager to another fails none.                                           *)
FailsForCause ==
    losses = 0 =>
        \A t \in Tasks : status[t] = "failed" =>
            cmd[t] = "fail" \/ (cmd[t] = "none" /\ crashes > 0)

(* While no lock is lost, the command of a task runs once: what has ended   *)
(* or was killed is not started again, by whichever manager (an apply that  *)
(* runs twice changes real resources twice).                                *)
RunsOnce ==
    [][losses = 0 =>
        \A t \in Tasks : cmd[t] \in {"ok", "fail", "killed"}
            => cmd'[t] = cmd[t]]_vars

(* While no lock is lost, every task that is created ends and stays so,     *)
(* through crashes.  (A manager that lost its lock may mark a task running  *)
(* after its successor has looked for such tasks, and then nobody does.)    *)
EveryTaskEnds ==
    \A t \in Tasks : created >= t ~> (losses > 0 \/ []TaskExited(status[t]))

-----------------------------------------------------------------------------
(* Why the first two and RunsOnce hold: an inductive invariant, for as long *)
(* as no lock is lost to a holder that lives.                               *)

(* Only the holder of the lock is at work, and nothing cancels its context. *)
HolderAlone ==
    \A m \in Managers :
        /\ ~ctxDone[m] /\ at[m] # "stop"
        /\ at[m] # "acquire" => lock = m
        /\ at[m] \in {"acquire", "recover"} => work[m] = Idle

(* It has a goroutine for, or is about to recover, every task that runs.    *)
NoneForgotten ==
    \A m \in Managers, t \in Tasks :
        at[m] \in {"recovering", "list", "dispatch"} /\ status[t] = "running"
            => work[m][t] # "none" \/ (at[m] = "recovering" /\ t \in list[m])

(* What it has read is still true when it acts on it.                       *)
ListIsFresh ==
    \A m \in Managers : \A t \in list[m] :
        /\ at[m] = "recovering" => status[t] = "running" /\ work[m][t] = "none"
        /\ at[m] = "dispatch" =>
             status[t] = "pending" /\ work[m][t] = "none" /\ t <= created

(* A goroutine works on a task that runs, and knows what its step was.      *)
WorkMatchesRows ==
    \A m \in Managers, t \in Tasks :
        /\ work[m][t] = "enter" =>
             status[t] = "pending" /\ t <= created /\ at[m] \in {"list", "dispatch"}
        /\ work[m][t] \notin {"none", "enter"} => status[t] = "running"
        /\ work[m][t] \in {"fresh", "call"} => cmd[t] = "none"
        /\ work[m][t] = "call" => step[t] = "running"
        /\ work[m][t] \in {"after", "last"} => step[t] \in {"complete", "failed"}
        /\ work[m][t] = "last" => cmd[t] # "running"

RowsMatchCommands ==
    \A t \in Tasks :
        /\ status[t] \in {"pending", "running", "complete", "failed"}
        /\ step[t] \in {"pending", "running", "complete", "failed"}
        /\ status[t] # "pending" => t <= created
        /\ step[t] = "pending" => cmd[t] = "none"
        /\ cmd[t] # "none" => status[t] # "pending"
        /\ cmd[t] = "running" => status[t] = "running"

(* Whatever has begun, or is listed to begin, has no older task before it.  *)
Begun(t) ==
    \/ status[t] # "pending"
    \/ \E m \in Managers :
         work[m][t] # "none" \/ (at[m] = "dispatch" /\ t \in list[m])

OlderHaveEnded ==
    \A t, u \in Tasks :
        t < u /\ EnvOf[t] = EnvOf[u] /\ Begun(u) => status[t] \in {"complete", "failed"}

(* The strengthening from which exclusion and order follow: it relates the  *)
(* lock, what the holder has in memory and the rows every portal shares.    *)
SchedulerInv ==
    losses = 0 =>
        /\ HolderAlone /\ NoneForgotten /\ ListIsFresh
        /\ WorkMatchesRows /\ RowsMatchCommands /\ OlderHaveEnded
=============================================================================
