---------------------------- MODULE EnvLifecycle ----------------------------
(***************************************************************************)
(* The life of one environment: what users ask of it (deploy, edit, lock,  *)
(* archive, repair), what the portal does by the clock (auto destroy, auto *)
(* deploy, drift detection), and the tasks that come of both.              *)
(*                                                                         *)
(* A task is reduced to its row: TaskRun has its steps, Scheduler the      *)
(* choice among environments.  Every call that reads the row of the        *)
(* environment and writes it later is two actions.                         *)
(***************************************************************************)
EXTENDS DeployStatus, Naturals, Sequences, FiniteSets

CONSTANTS
    Sessions,    \* users, each making one call
    Calls,       \* the calls they may make
    Creations,   \* the forms the environment may be created with
    Forms,       \* the forms of later calls
    MaxTicks,    \* bound: times that fall due
    MaxFailures  \* bound: deaths of the portal, tasks not created or not started

Times == {"none", "later", "due"}
Sources == {"user", "autoDestroy", "autoDeploy", "drift"}
Form == [type : TaskTypes,
         destroy : {"keep", "at", "ttl", "off", "cron"},
         deploy : {"keep", "at", "cron"},
         drift : {"keep", "off", "plan", "apply"},
         archive : BOOLEAN]

ASSUME EnvLifecycleAssumption ==
    /\ Calls \subseteq {"deploy", "update", "lock", "unlock", "drift", "abort"}
    /\ Creations \subseteq Form /\ Forms \subseteq Form
    /\ MaxTicks \in Nat /\ MaxFailures \in Nat

VARIABLES
    env,       \* database: the row of the environment
    tasks,     \* database: the tasks of the environment, oldest first
    loop,      \* where the main loop of the task manager is
    seen,      \* the drift setting the main loop has read
    worker,    \* the goroutine that runs a task of this environment
    at,        \* where the call of each session is
    mem,       \* what it has read, and the row it means to write
    stale,     \* history: a deployment has written back a row that had changed
    skipped,   \* history: an automatic task ended without processTaskDone
    sinceLock, \* history: tasks the portal created by itself since the lock
    ticks, failures

rowVars  == <<env, tasks>>
loopVars == <<loop, seen>>
callVars == <<at, mem>>
history  == <<stale, skipped, sinceLock>>
bounds   == <<ticks, failures>>
vars == <<rowVars, loopVars, worker, callVars, history, bounds>>

EnvRow == [status : EnvStatuses, taskStatus : {"", "running", "approving"},
           deploying : BOOLEAN, locked : BOOLEAN, archived : BOOLEAN,
           ttl : BOOLEAN, destroyCron : BOOLEAN, deployCron : BOOLEAN,
           destroyAt : Times, deployAt : Times, driftAt : Times,
           destroyTask : Nat, deployTask : Nat,
           drift : {"off", "plan", "apply"}]

Pending == {t \in DOMAIN tasks : tasks[t].status = "pending"}
Active  == {t \in DOMAIN tasks : tasks[t].status \in {"pending", "running"}}
From(source) == {t \in Active : tasks[t].source = source}

NewTask(type, source) == [type |-> type, source |-> source, status |-> "pending"]

-----------------------------------------------------------------------------
(* Forms: the settings a form leaves in a row whose environment has the     *)
(* given status when the form is checked.                                   *)

SetDestroy(row, f, status) ==
    CASE f = "keep" -> row
      [] f = "at"   -> [row EXCEPT !.destroyAt = "later", !.ttl = FALSE, !.destroyCron = FALSE]
      [] f = "off"  -> [row EXCEPT !.destroyAt = "none", !.ttl = FALSE, !.destroyCron = FALSE]
      [] f = "cron" -> [row EXCEPT !.destroyAt = "later", !.ttl = FALSE, !.destroyCron = TRUE]
      [] f = "ttl"  -> [row EXCEPT !.ttl = TRUE, !.destroyCron = FALSE,
                            !.destroyAt = IF status \in {"destroyed", "inactive"} THEN @ ELSE "later"]

SetDeploy(row, f) ==
    CASE f = "keep" -> row
      [] f = "at"   -> [row EXCEPT !.deployAt = "later", !.deployCron = FALSE]
      [] f = "cron" -> [row EXCEPT !.deployAt = "later", !.deployCron = TRUE]

SetDrift(row, f) ==
    CASE f = "keep" -> row
      [] f = "off"  -> [row EXCEPT !.drift = "off"]
      [] OTHER      -> [row EXCEPT !.drift = f, !.driftAt = "later"]

(* An edit that sets a time to live also drops the automatic deployment,    *)
(* and one that does not mention drift detection turns it off.              *)
Edited(row, f, status) ==
    LET cut == IF f.destroy \in {"at", "ttl", "off"}
               THEN [row EXCEPT !.deployAt = "none", !.deployCron = FALSE] ELSE row
        off == IF f.drift \in {"keep", "off"}
               THEN [cut EXCEPT !.drift = "off", !.driftAt = "none"] ELSE SetDrift(cut, f.drift)
        set == SetDeploy(SetDestroy(off, f.destroy, status), f.deploy)
    IN  [set EXCEPT !.archived = @ \/ f.archive]

(* A time computed from a cron expression at creation is lost: it goes into *)
(* a pointer of setDefaultValueFromTpl, not into the row.                   *)
Created(f) ==
    [status |-> "inactive", taskStatus |-> "", deploying |-> FALSE,
     locked |-> FALSE, archived |-> FALSE,
     ttl |-> f.destroy = "ttl", destroyCron |-> f.destroy = "cron",
     deployCron |-> f.deploy = "cron",
     destroyAt |-> IF f.destroy = "at" THEN "later" ELSE "none",
     deployAt |-> IF f.deploy = "at" THEN "later" ELSE "none",
     driftAt |-> IF f.drift \in {"plan", "apply"} THEN "later" ELSE "none",
     destroyTask |-> 0, deployTask |-> 0,
     drift |-> IF f.drift = "keep" THEN "off" ELSE f.drift]

NoWork == [task |-> 0, phase |-> "idle", clear |-> FALSE, arm |-> FALSE]

(* What a session holds outside a call.                                     *)
NoForm == [type |-> "plan", destroy |-> "keep", deploy |-> "keep", drift |-> "keep",
           archive |-> FALSE]
Nothing == [read |-> Created(NoForm), row |-> Created(NoForm), form |-> NoForm]

(* CreateEnv: the row and its first task in one transaction.                *)
Init ==
    \E f \in Creations :
        /\ env = Created(f)
        /\ tasks = <<NewTask(f.type, "user")>>
        /\ loop = "destroy" /\ seen = "off"
        /\ worker = NoWork
        /\ at = [s \in Sessions |-> "idle"]
        /\ mem = [s \in Sessions |-> Nothing]
        /\ stale = FALSE /\ skipped = FALSE /\ sinceLock = 0
        /\ ticks = 0 /\ failures = 0

-----------------------------------------------------------------------------
(* The clock: a time in the row comes, in whoever's copy of it as well.     *)

Passed(row, column) == IF row[column] = "later" THEN [row EXCEPT ![column] = "due"] ELSE row

Tick(column) ==
    /\ ticks < MaxTicks /\ env[column] = "later"
    /\ ticks' = ticks + 1
    /\ env' = Passed(env, column)
    /\ mem' = [s \in Sessions |-> [mem[s] EXCEPT !.read = Passed(@, column),
                                                !.row = Passed(@, column)]]
    /\ UNCHANGED <<tasks, loopVars, worker, at, history, failures>>

-----------------------------------------------------------------------------
(* The main loop of the task manager.                                       *)

(* A task the portal creates by itself.                                     *)
AutoCreate(type, source) ==
    /\ tasks' = Append(tasks, NewTask(type, source))
    /\ sinceLock' = IF env.locked THEN sinceLock + 1 ELSE 0
    /\ UNCHANGED <<stale, skipped>>

(* Variant: a locked environment is listed.                                 *)
ListDestroyLocked ==
    /\ loop = "destroy"
    /\ loop' = IF /\ env.status \in {"active", "failed"}
                 /\ env.destroyTask = 0 /\ env.taskStatus = ""
                 /\ env.destroyAt = "due"
              THEN "createDestroy" ELSE "deploy"
    /\ UNCHANGED <<rowVars, seen, worker, callVars, history, bounds>>

(* Variant: the mark of a task already created is not looked at.            *)
ListDestroyAgain ==
    /\ loop = "destroy"
    /\ loop' = IF /\ env.status \in {"active", "failed"} /\ ~env.locked
                 /\ env.taskStatus = "" /\ env.destroyAt = "due"
              THEN "createDestroy" ELSE "deploy"
    /\ UNCHANGED <<rowVars, seen, worker, callVars, history, bounds>>

(* processAutoDestroy: list the environments that are due ...               *)
ListDestroy ==
    /\ loop = "destroy"
    /\ loop' = IF /\ env.status \in {"active", "failed"} /\ ~env.locked
                 /\ env.destroyTask = 0 /\ env.taskStatus = ""
                 /\ env.destroyAt = "due"
              THEN "createDestroy" ELSE "deploy"
    /\ UNCHANGED <<rowVars, seen, worker, callVars, history, bounds>>

(* ... and create a task for each, with the mark that it exists.            *)
CreateDestroy ==
    /\ loop = "createDestroy"
    /\ AutoCreate("destroy", "autoDestroy")
    /\ env' = [env EXCEPT !.destroyTask = Len(tasks) + 1]
    /\ loop' = "deploy"
    /\ UNCHANGED <<seen, worker, callVars, bounds>>

ListDeploy ==
    /\ loop = "deploy"
    /\ loop' = IF /\ env.status \in {"inactive", "failed", "destroyed"} /\ ~env.locked
                 /\ env.deployTask = 0 /\ env.taskStatus = ""
                 /\ env.deployAt = "due"
              THEN "createDeploy" ELSE "pending"
    /\ UNCHANGED <<rowVars, seen, worker, callVars, history, bounds>>

CreateDeploy ==
    /\ loop = "createDeploy"
    /\ AutoCreate("apply", "autoDeploy")
    /\ env' = [env EXCEPT !.deployTask = Len(tasks) + 1]
    /\ loop' = "pending"
    /\ UNCHANGED <<seen, worker, callVars, bounds>>

(* A task that cannot be created is rolled back and tried in a later round. *)
CreateFails ==
    /\ failures < MaxFailures
    /\ \/ loop = "createDestroy" /\ loop' = "deploy"
       \/ loop = "createDeploy" /\ loop' = "pending"
       \/ loop = "createDrift" /\ loop' = "destroy"
    /\ failures' = failures + 1
    /\ UNCHANGED <<rowVars, seen, worker, callVars, history, ticks>>

(* processPendingTask: the oldest pending task, unless one is running.      *)
Dispatch ==
    /\ loop = "pending"
    /\ loop' = "drift"
    /\ IF Pending = {} \/ worker.phase # "idle" THEN UNCHANGED worker
       ELSE \E t \in Pending :
              /\ \A u \in Pending : t <= u
              /\ worker' = [NoWork EXCEPT !.task = t, !.phase = "enter"]
    /\ UNCHANGED <<rowVars, seen, callVars, history, bounds>>

(* beginCronDriftTask: list, look for a drift task that is not over, create *)
(* one, and compute the next time.                                          *)
ListDrift ==
    /\ loop = "drift"
    /\ IF env.status = "active" /\ env.drift # "off" /\ env.driftAt = "due" /\ ~env.locked
       THEN loop' = "findDrift" /\ seen' = env.drift
       ELSE loop' = "destroy" /\ UNCHANGED seen
    /\ UNCHANGED <<rowVars, worker, callVars, history, bounds>>

FindDrift ==
    /\ loop = "findDrift"
    /\ loop' = IF From("drift") = {} THEN "createDrift" ELSE "destroy"
    /\ UNCHANGED <<rowVars, seen, worker, callVars, history, bounds>>

CreateDrift ==
    /\ loop = "createDrift"
    /\ AutoCreate(seen, "drift")
    /\ loop' = "nextDrift"
    /\ UNCHANGED <<env, seen, worker, callVars, bounds>>

NextDrift ==
    /\ loop = "nextDrift"
    /\ env' = [env EXCEPT !.driftAt = "later"]
    /\ loop' = "destroy" /\ seen' = "off"
    /\ UNCHANGED <<tasks, worker, callVars, history, bounds>>

Round == \/ ListDestroy \/ CreateDestroy \/ ListDeploy \/ CreateDeploy
         \/ Dispatch \/ ListDrift \/ FindDrift \/ CreateDrift \/ NextDrift

-----------------------------------------------------------------------------
(* The goroutine of a task.                                                 *)

(* The status of a task that is over moves the environment, and nothing     *)
(* reads it again.                                                          *)
OverTask(t) == [tasks EXCEPT ![t].status = "over"]

(* The columns of the environment that follow the status of its task.       *)
Follow(row, type, status, touched) ==
    LET after == EnvAfter([status |-> row.status, taskStatus |-> row.taskStatus,
                           deploying |-> row.deploying], type, status, touched)
    IN  [row EXCEPT !.status = after.status, !.taskStatus = after.taskStatus,
                    !.deploying = after.deploying]

(* The copy the manager read says pending: the row is not read again.       *)
Enter ==
    /\ worker.phase = "enter"
    /\ tasks' = [tasks EXCEPT ![worker.task].status = "running"]
    /\ env' = Follow(env, tasks[worker.task].type, "running", FALSE)
    /\ worker' = [worker EXCEPT !.phase = "run"]
    /\ UNCHANGED <<loopVars, callVars, history, bounds>>

(* A task that fails before its first step ends without processTaskDone.    *)
StartFails ==
    /\ worker.phase \in {"enter", "run"} /\ failures < MaxFailures
    /\ failures' = failures + 1
    /\ tasks' = OverTask(worker.task)
    /\ env' = Follow(env, tasks[worker.task].type, "failed", FALSE)
    /\ worker' = NoWork
    /\ skipped' = (skipped \/ tasks[worker.task].source # "user")
    /\ UNCHANGED <<loopVars, callVars, stale, sinceLock, ticks>>

(* The tasks of a due time approve themselves; any other that changes the   *)
(* environment may wait for someone to approve or reject it.                *)
NeedsApproval(t) == t.source \in {"user", "drift"} /\ IsEffectTask(t.type)

(* The worker may be waiting for an answer, for which there is no timeout.  *)
Asking == worker.phase = "run" /\ NeedsApproval(tasks[worker.task])

(* The task ends; what follows is for tasks that change the environment.    *)
End ==
    /\ worker.phase = "run"
    /\ \E status \in {"complete", "failed", "aborted", "rejected"}, touched \in BOOLEAN :
         LET t == tasks[worker.task] IN
         /\ status = "rejected" => NeedsApproval(t)
         /\ tasks' = OverTask(worker.task)
         /\ env' = Follow(env, t.type, status, touched)
         /\ worker' = IF IsEffectTask(t.type) /\ status # "rejected"
                      THEN [worker EXCEPT !.phase = "destroy"] ELSE NoWork
    /\ UNCHANGED <<loopVars, callVars, history, bounds>>

(* Variant: the mark is not cleared with the time.                          *)
ReadDestroyUncleared ==
    /\ worker.phase = "destroy"
    /\ LET t == tasks[worker.task] IN
       worker' = [worker EXCEPT !.phase = "saveDestroy", !.clear = FALSE,
                    !.arm = /\ t.type = "apply" /\ env.status = "active"
                            /\ env.destroyAt = "none" /\ (env.ttl \/ env.destroyCron)]
    /\ UNCHANGED <<rowVars, loopVars, callVars, history, bounds>>

(* taskDoneProcessAutoDestroy: what to write is decided from a copy.        *)
ReadDestroy ==
    /\ worker.phase = "destroy"
    /\ LET t == tasks[worker.task] IN
       worker' = [worker EXCEPT !.phase = "saveDestroy",
                    !.clear = t.source = "autoDestroy",
                    !.arm = /\ t.type = "apply" /\ env.status = "active"
                            /\ env.destroyAt = "none" /\ (env.ttl \/ env.destroyCron)]
    /\ UNCHANGED <<rowVars, loopVars, callVars, history, bounds>>

SaveDestroy ==
    /\ worker.phase = "saveDestroy"
    /\ env' = [env EXCEPT
                 !.destroyAt = IF worker.arm THEN "later" ELSE IF worker.clear THEN "none" ELSE @,
                 !.destroyTask = IF worker.clear THEN 0 ELSE @]
    /\ worker' = [NoWork EXCEPT !.task = worker.task, !.phase = "deploy"]
    /\ UNCHANGED <<tasks, loopVars, callVars, history, bounds>>

(* taskDoneProcessAutoDeploy.                                               *)
ReadDeploy ==
    /\ worker.phase = "deploy"
    /\ LET t == tasks[worker.task] IN
       worker' = [worker EXCEPT !.phase = "saveDeploy",
                    !.clear = t.source = "autoDeploy",
                    !.arm = /\ t.type = "destroy" /\ env.status # "active"
                            /\ env.deployAt = "none" /\ env.deployCron]
    /\ UNCHANGED <<rowVars, loopVars, callVars, history, bounds>>

SaveDeploy ==
    /\ worker.phase = "saveDeploy"
    /\ env' = [env EXCEPT
                 !.deployAt = IF worker.arm THEN "later" ELSE IF worker.clear THEN "none" ELSE @,
                 !.deployTask = IF worker.clear THEN 0 ELSE @]
    /\ worker' = NoWork
    /\ UNCHANGED <<tasks, loopVars, callVars, history, bounds>>

Work == Enter \/ End \/ ReadDestroy \/ SaveDestroy \/ ReadDeploy \/ SaveDeploy

-----------------------------------------------------------------------------
(* The calls of users.                                                      *)

Goto(s, label) == at' = [at EXCEPT ![s] = label]
Return(s) == Goto(s, "done") /\ mem' = [mem EXCEPT ![s] = Nothing]
Hold(s, read, row, form) ==
    mem' = [mem EXCEPT ![s] = [read |-> read, row |-> row, form |-> form]]

(* envDeploy reads the row, checks it, and sets the columns of the form ... *)
DeployRead(s) ==
    /\ at[s] = "idle" /\ "deploy" \in Calls
    /\ ~env.archived /\ ~env.deploying
    /\ \E f \in Forms :
         /\ f.type # "plan" => ~env.locked
         /\ Hold(s, env, SetDrift(SetDeploy(SetDestroy(env, f.destroy, env.status), f.deploy),
                                  f.drift), f)
    /\ Goto(s, "deploy")
    /\ UNCHANGED <<rowVars, loopVars, worker, history, bounds>>

(* ... asks the repository, and writes back every column with the new task. *)
DeployWrite(s) ==
    /\ at[s] = "deploy"
    /\ tasks' = Append(tasks, NewTask(mem[s].form.type, "user"))
    /\ env' = mem[s].row
    /\ stale' = (stale \/ mem[s].read # env)
    /\ sinceLock' = IF env.locked /\ mem[s].row.locked THEN sinceLock ELSE 0
    /\ Return(s)
    /\ UNCHANGED <<loopVars, worker, skipped, bounds>>

(* UpdateEnv reads and checks; whether a failed environment has resources   *)
(* left is not in the model ...                                             *)
UpdateRead(s) ==
    /\ at[s] = "idle" /\ "update" \in Calls
    /\ ~env.locked
    /\ \E f \in Forms :
         /\ env.archived => f.archive
         /\ f.archive => env.status # "active"
         /\ Hold(s, env, env, f)
    /\ Goto(s, "update")
    /\ UNCHANGED <<rowVars, loopVars, worker, history, bounds>>

(* ... and writes the columns of the form only.                             *)
UpdateWrite(s) ==
    /\ at[s] = "update"
    /\ env' = Edited(env, mem[s].form, mem[s].read.status)
    /\ Return(s)
    /\ UNCHANGED <<tasks, loopVars, worker, history, bounds>>

LockRead(s) ==
    /\ at[s] = "idle" /\ "lock" \in Calls
    /\ Active = {}
    /\ Goto(s, "lock")
    /\ UNCHANGED <<rowVars, loopVars, worker, mem, history, bounds>>

LockWrite(s) ==
    /\ at[s] = "lock"
    /\ env' = [env EXCEPT !.locked = TRUE]
    /\ sinceLock' = IF env.locked THEN sinceLock ELSE 0
    /\ Return(s)
    /\ UNCHANGED <<tasks, loopVars, worker, stale, skipped, bounds>>

(* EnvUnLock is one statement; it may clear the auto destroy setting.       *)
Unlock(s) ==
    /\ at[s] = "idle" /\ "unlock" \in Calls
    /\ \/ env' = [env EXCEPT !.locked = FALSE]
       \/ env' = [env EXCEPT !.locked = FALSE, !.destroyAt = "none", !.ttl = FALSE]
    /\ sinceLock' = 0
    /\ Return(s)
    /\ UNCHANGED <<tasks, loopVars, worker, stale, skipped, bounds>>

(* EnvDeployDrift looks for a drift task that is not over ...               *)
DriftRead(s) ==
    /\ at[s] = "idle" /\ "drift" \in Calls
    /\ ~env.archived /\ From("drift") = {}
    /\ \E type \in {"plan", "apply"} : Hold(s, env, env, [NoForm EXCEPT !.type = type])
    /\ Goto(s, "drift")
    /\ UNCHANGED <<rowVars, loopVars, worker, history, bounds>>

(* ... and creates one.                                                     *)
DriftWrite(s) ==
    /\ at[s] = "drift"
    /\ tasks' = Append(tasks, NewTask(mem[s].form.type, "drift"))
    /\ Return(s)
    /\ UNCHANGED <<env, loopVars, worker, history, bounds>>

(* AbortTask of a task that waits (TaskRun has that of one that runs).      *)
Abort(s) ==
    /\ at[s] = "idle" /\ "abort" \in Calls
    /\ \E t \in Pending :
         /\ tasks' = OverTask(t)
         /\ skipped' = (skipped \/ tasks[t].source # "user")
    /\ Return(s)
    /\ UNCHANGED <<env, loopVars, worker, stale, sinceLock, bounds>>

(* A call whose transaction fails is rolled back.                           *)
CallFails(s) ==
    /\ at[s] \in {"deploy", "update", "lock", "drift"}
    /\ Return(s)
    /\ UNCHANGED <<rowVars, loopVars, worker, history, bounds>>

Call(s) == \/ DeployRead(s) \/ DeployWrite(s) \/ UpdateRead(s) \/ UpdateWrite(s)
           \/ LockRead(s) \/ LockWrite(s) \/ Unlock(s)
           \/ DriftRead(s) \/ DriftWrite(s) \/ Abort(s) \/ CallFails(s)

(* The portal dies and another takes over: it recovers a task that runs and *)
(* starts its round anew.  What was to follow the end of a task is lost.    *)
Crash ==
    /\ failures < MaxFailures
    /\ failures' = failures + 1
    /\ loop' = "destroy" /\ seen' = "off"
    /\ IF worker.phase = "run" THEN UNCHANGED <<worker, skipped>>
       ELSE /\ worker' = NoWork
            /\ skipped' = (skipped \/ worker.phase \notin {"idle", "enter"})
    /\ UNCHANGED <<rowVars, callVars, stale, sinceLock, ticks>>

Next == \/ \E column \in {"destroyAt", "deployAt", "driftAt"} : Tick(column)
        \/ Round \/ CreateFails
        \/ Work \/ StartFails
        \/ \E s \in Sessions : Call(s)
        \/ Crash

Spec == Init /\ [][Next]_vars

(* The loop is never blocked, nor is the goroutine but where its task may   *)
(* wait for an approval; a call that has begun goes on; users, who approve, *)
(* the clock and failures owe nothing.                                      *)
FairSpec ==
    /\ Spec
    /\ WF_vars(Round) /\ WF_vars(~Asking /\ Work)
    /\ \A s \in Sessions : WF_vars(at[s] # "idle" /\ Call(s))

-----------------------------------------------------------------------------
(* Properties.                                                              *)

TypeOK ==
    /\ env \in EnvRow
    /\ tasks \in Seq([type : TaskTypes, source : Sources, status : {"pending", "running", "over"}])
    /\ loop \in {"destroy", "createDestroy", "deploy", "createDeploy", "pending",
                 "drift", "findDrift", "createDrift", "nextDrift"}
    /\ seen \in {"off", "plan", "apply"}
    /\ worker \in [task : Nat,
                   phase : {"idle", "enter", "run", "destroy", "saveDestroy",
                            "deploy", "saveDeploy"},
                   clear : BOOLEAN, arm : BOOLEAN]
    /\ worker.phase # "idle" => worker.task \in DOMAIN tasks
    /\ at \in [Sessions -> {"idle", "deploy", "update", "lock", "drift", "done"}]
    /\ mem \in [Sessions -> [read : EnvRow, row : EnvRow, form : Form]]
    /\ stale \in BOOLEAN /\ skipped \in BOOLEAN
    /\ sinceLock \in Nat /\ ticks \in Nat /\ failures \in Nat

(* AutoDestroyTaskId and AutoDeployTaskId name whatever task the portal has *)
(* created by itself and has not finished, so that no second destroy (or    *)
(* deploy) is queued behind it; a deployment that writes back an old row    *)
(* may take the mark away.                                                  *)
AutoOnce ==
    ~stale => /\ From("autoDestroy") \subseteq {env.destroyTask}
              /\ From("autoDeploy") \subseteq {env.deployTask}

(* A lock lets through at most the one task whose environment the main loop *)
(* had already listed.                                                      *)
LockLetsThrough == env.locked => sinceLock <= 1

(* One drift task at a time, but for one more with each call of a user: a   *)
(* call of EnvDeployDrift passes the check it shares with the main loop, an *)
(* abort is undone by the goroutine that has already been given the task.   *)
DriftOnce ==
    Cardinality(From("drift")) <= 1 + Cardinality({s \in Sessions : at[s] = "done"})

(* What is due happens: an environment whose destroy (deploy) time has come *)
(* gets its task and leaves that state, unless it is locked, unless a task  *)
(* of that kind ended without processTaskDone, or a row was overwritten.    *)
(* The main loop passes over an environment with a task under way, so it    *)
(* may also be that, from some time on, a task waits for an approval which  *)
(* nobody gives or refuses.                                                 *)
DestroyDue == env.destroyAt = "due" /\ env.status \in {"active", "failed"}
DeployDue  == env.deployAt = "due" /\ env.status \in {"inactive", "failed", "destroyed"}

DueIsServed ==
    /\ DestroyDue ~> (~DestroyDue \/ env.locked \/ stale \/ skipped \/ []Asking)
    /\ DeployDue ~> (~DeployDue \/ env.locked \/ stale \/ skipped \/ []Asking)

(* An environment with a time to live, active and with nothing under way,   *)
(* has a time at which it is destroyed (docs: envs.md, destroying           *)
(* resources).                                                              *)
TtlIsArmed ==
    env.ttl /\ env.status = "active" /\ Active = {} /\ worker.phase = "idle"
        => env.destroyAt # "none"

(* An archived environment can no longer be used (docs: envs.md, archiving):*)
(* no task is created for it.                                               *)
ArchivedStaysIdle == [][env.archived => Len(tasks') = Len(tasks)]_vars
=============================================================================
