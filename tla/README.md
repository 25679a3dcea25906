# Verification of CloudIac

CloudIac runs Terraform deployments: a *task* of an *environment* is a sequence
of *steps* (init, scan, plan, apply, destroy, ...), which the portal drives one
after the other on a *runner*. Around that engine the portal keeps environments,
templates, variables, policies and members. This directory holds TLA+ models of
both, the TLC runs that check them and the proofs that TLAPS checks.

    tlc -workers 2 -config MCTaskRun_auto.cfg MCTaskRun      model-check a run
    tlapm TaskRun_proofs.tla                                 check the proofs of a module

Paths below are relative to `src/`.

## 1. Inventory

| Component | State | Operations | Interacts with |
|---|---|---|---|
| **Task manager** `portal/task_manager/manager.go`, `task.go`, `task_step.go` | `iac_task` (status, curr_step, aborting, container_id), `iac_task_step` (status, approver_id, message, retry_number); in memory: the goroutine's copies of these rows, its step list, `CurrentRetryCount`, the request under construction | `recoverTask`, `processPendingTask`, `runTask`, `doRunTask`, `processStartStep`, `waitTaskStepApprove`, `waitTaskStepDone`, `runTaskStepsDoneActions`, `processTaskDone` | database rows shared with the API handlers; HTTP and websocket to the runner |
| **Scheduler** `manager.go`, `utils/consul` | consul lock, `envRunningTask`, pending list, per-runner counters | `acquireLock`, `start`, `processPendingTask`, `stop` | several portal processes, one of which should manage tasks |
| **Status propagation** `portal/services/task_step.go`, `task.go`, `env.go` | step, task and environment rows | `ChangeTaskStepStatus`, `ChangeTaskStatusWithStep`, `ChangeTaskStatus`, `ChangeEnvStatusWithTaskAndStep` | called by the worker and by every handler |
| **Approval and abort** `portal/apps/task.go` | none of its own | `ApproveTask`, `AbortTask`, `goAbortRunnerTask` | the rows above; the runner's abort API |
| **Runner** `runner/` | per task a container and `control.json`; per step an exec, `info.json`, `container.json` | `Task.Run`, `Task.start`, `runStep`, `StartedTask.Wait/Status`, `AbortTask`, `Executor.*` | docker; several watchers of one step |
| **Environment lifecycle** `portal/apps/env.go`, `task_manager/task_done_actions.go`, `manager.go`, `services/task_auto_*.go` | `auto_destroy_task_id`, `auto_deploy_task_id`, `locked`, `archived`, times, drift fields | auto destroy, auto deploy, cron drift, `EnvLock`, `EnvUpdate`, `envDeploy` | creates tasks; cleared by `processTaskDone` |
| **Scan tasks** `manager.go`, `services/policy.go`, `apps/policy.go`, `policy/` | `iac_scan_task`, `iac_policy_result`, the result file | `doRunScanTask`, `ChangeScanTaskStatusWithStep`, `UpdateScanResult`, `CleanScanResult` | runner; the scan step of a deployment has a mirror row |
| **Task creation** `services/task.go`, `models/task_pipeline*.go` | rows of tasks and steps | `newCommonTask`, `doCreateTask`, `CompletePipelineDot5` | read by the task manager |
| **Choice of a runner** `services/env.go` | round robin index per set of tags | `GetRunner`... | consul's service list |
| **Webhooks** `services/vcsrv/`, `apps/webhook.go`, `apps/template.go` | the hook in the repository, triggers of environments and templates | `SetWebhook`, `WebhooksApiHandler` | the version control service; creates tasks |
| **Variables and groups** `services/variables*.go`, `apps/variable*.go` | variables, groups, their relations to four scopes | merge at deployment, full and batch update, bind, edit, delete | read by `envDeploy` |
| **Template exchange** `services/template_import.go`, `template_export.go`, `apps/template*.go`, `apps/vcs.go` | templates, groups, services, their relations | export, import by four policies, edits, deletion | two installations through a file |
| **Membership** `services/user.go`, `ldap.go`, `apps/organization.go`, `project_user.go`, `auth.go` | `iac_user_org`, `iac_user_project`, `iac_ldap_ou_*` | login and refresh, invite, remove, grant a unit a role | the directory; every permission check |
| **The rest** | CRUD, reports, HTTP clients, logs, notifications, prices | | listed in `PROJECT.json`, not modelled |

### What is hard

* Nothing in the task path takes a lock and few writes share a transaction. The
  worker goroutine, two kinds of API handlers and the recovery of a restarted
  portal all read rows, decide, and write later, from copies
  (`services/task_step.go:106`, `services/task.go:533`, `apps/task.go:242`).
* One status change is three writes (step, task, environment). Another process
  or a crash may come between any two of them.
* `UpdateModel` writes every non-zero column of a copy (`models/models.go:107`), so
  a late write takes back columns it never meant to touch.
* A lost answer of the runner does not tell whether the command was started, and
  some failures are retried.
* The status of the whole task is finally that of the one step `curr_step` names.
* The database is MySQL with repeatable reads: a transaction reads the snapshot of its
  first read and writes the rows as they are, so that a check and the write it
  guards may see different rows (`services/user.go:79`, `apps/env.go:1864`).
* Where a transaction is missing, a removal or an update is several statements
  (`apps/organization.go:254`); where one is there, it may span many objects and be
  rolled back in the middle (`apps/webhook.go:38`).
* The runner keeps its state in files without a lock that its processes share.

### What makes each component correct

* *Execution*: no step before its predecessors, no gated step without approval, no
  command twice (an `apply` twice changes real infrastructure), retries bounded,
  complete means done, an exited task stays exited, every task ends.
* *Status propagation*: at rest, task and environment agree.
* *Approval and abort*: a rejection ends the task with nothing gated run; an
  accepted abort ends the task or is withdrawn.
* *Runner*: the result reported is that of the command started last; no command
  outlives its task.
* *Scheduler*: at most one goroutine per task and one task per environment, over
  lock loss too; pending tasks of an environment in order; no task starves.
* *Environment lifecycle*: what is due is done, once; a mark `auto_*_task_id` names a
  live task or is cleared; nothing is deployed by the clock to a locked environment.
* *Scans*: what must stop on a violation stops; the verdict of the scan, its result
  rows and the file agree; every scan ends.
* *Task creation*: nothing applied without its plan, scan and approval.
* *Choice of a runner*: an index within the list, fairness over a stable list.
* *Webhooks*: one hook where one is wanted; a delivery handled whole or not at all.
* *Variables*: the nearest scope wins; an update leaves what was asked.
* *Exchange*: what was imported is there and refers to what came with it; nothing
  else has changed; an update repeated changes nothing; a template keeps its service.
* *Membership*: a login leaves the role the directory and the administrators gave; no
  role in a project without one in its organization; a login refused for a cause only.

`PROJECT.json` lists the forty hazards that matter most, each at its line. Smaller ones
met on the way, which no property is about:

* `apps/env.go:1159`: drift is looked for by the main loop and by a call; each looks for
  a pending drift task and then creates one. The call ignores the lock of the
  environment and inserts without a transaction. (`DriftOnce` of `EnvLifecycle` states
  how many tasks that makes at most.)
* `apps/env.go:840`: a time to live set while no deployment is active is kept as text only
  (`TtlIsArmed` of `EnvLifecycle`, section 3).
* `runner/api/v1/handler/task_status.go:128`: the status is read before the abort mark; a
  step that ends well and is aborted in between must be reported aborted
  (`CompleteIsTrue` of `Runner`, proved).
* `policy/scanner.go:459`: a policy that cannot be read is left out of the scan without a
  trace in its exit code (`ViolationIsReal` of `Scan` covers the other direction).
* `services/template_import.go:128`: the search for a row to update sees deleted templates,
  the update does not: it is reported and not done. A group imported gets no row that
  grants it to the project. `apps/template_export.go:61` ignores the error of the commit.
* `apps/user.go:496`: `DeleteUser` removes the relations of the *caller* (`c.UserId`).
* `apps/organization.go:658`: the batch invitation counts failures among the successes.
* `apps/variables_group.go:57`: a group and what grants it to projects are several writes
  without a transaction. `apps/project.go:51`: an early return without a rollback.


## 2. Modules

| Module | Models |
|---|---|
| `DeployStatus` | the status vocabularies, their predicates, the mapping from step to task status (`stepStatus2TaskStatus`) and the rules that move an environment (`ChangeEnvStatusWithTaskAndStep`) |
| `TaskRun` | one task: worker goroutine, sessions of users, status procedure, runner as its environment, crash and recovery |
| `Scheduler` | several task managers, the consul lock, recovery, the pending list and its dispatch, and one reduced goroutine per task |
| `Pipeline` | the abstract promise: steps in order, gated steps after approval; no database, no processes |
| `Runner` | one task on its runner: requests, connections, files, container engine, deadline, abort, death of the runner; the portal at the other end |
| `Scan` | scans of an environment and the scan step of a deployment, policies that change meanwhile, what is stored of the findings |
| `EnvLifecycle` | one environment: calls of users, the times that fall due, the main loop, the tasks that come of them |
| `TaskFlow` | the steps a task is created with, for each version of the pipeline file (constant-level) |
| `Webhook` | one template, its environments, the hook, deliveries and the round robin over runners; creates its tasks with `TaskFlow` |
| `Variables` | variables and groups of four scopes: the merge, the updates, the bindings |
| `TplExchange` | export and import of templates between two organizations and two installations |
| `Access` | roles in an organization and its project, by hand and from the directory |
| `MCTaskRun`, `MCScheduler`, ... | instances for TLC: flows, setups, symmetries, views and constraints |
| `TaskRun_proofs`, `Scheduler_proofs`, `EnvLifecycle_proofs`, `Runner_proofs`, `Scan_proofs`, `Webhook_proofs`, `Variables_proofs`, `Access_proofs` | the theorems about the module each is named for; those about `TplExchange` are in `Variables_proofs`, beside those about the variables and groups it moves |

How they meet. `TaskRun` drives one task against a runner reduced to its answers;
`Runner` is that runner in detail, against a portal reduced to its requests.
`Scheduler` chooses tasks, each reduced to one step. `EnvLifecycle` and `Webhook` create
tasks and, reduced to rows, see them end; `TaskFlow` says what is in them. `Scan` has
its own goroutines, which run both scan tasks and the two steps of a deployment that a
scan affects. `TaskRun`, `Scan` and `EnvLifecycle` share `DeployStatus`. Each of
`Variables`, `TplExchange` and `Access` stands beside the engine: it computes or keeps
what a deployment is made from, or who may ask for one.

### TaskRun

State. `task`, `steps`, `env` are the rows, reduced to the columns the control flow
reads. `exec[k]` is the command of step k on the runner, `info[k]` the file
`container.json` with its exit state, `control` the abort mark (`control.json`),
`box` the container of the task. `pc[p]` is where a process is, between two
accesses to shared state, and `mem[p]` the copies it holds: the task row and the
step row as it read them, its step index, and the label at which it continues
after the status procedure. The worker also has `wSteps` (its step list, read once),
`retried` (`CurrentRetryCount`) and `reqCid` (whether its request names the
container). `launches` and `done` are history, read by properties only.
Step k is index k - 1 of the code.

| Code | Actions |
|---|---|
| `recoverTask`, `processPendingTask`, `runTask` | `Boot`, `PickPending` |
| `doRunTask` | `Enter`, `LoadSteps`, `StartFailed`, `Judge` |
| `processStartStep` | `BeginStep` |
| `waitTaskStepApprove`, `WaitTaskStepApprove` | `Gate`, `PollApproval` |
| `waitTaskStepDone`, `StartTaskStep` | `Drive`, `CallRunner`, `SaveContainer`, `CallFails`, `Settle` |
| `WaitTaskStep` | `Watch`, `WatchFails` |
| `processTaskDone` | `AfterSteps`, `LastStep` |
| `changeTaskStepStatusAndExitCode` | operator `ChangeStep`, part of each caller's action |
| `ChangeTaskStatusWithStep`, `ChangeTaskStatus`, `ChangeEnvStatus...` | `WriteTask`, `WriteEnv` (any process) |
| `ApproveTask` | `AnswerCheck`, `Sign`, `Reread`, `Grant`, `Refuse` |
| `AbortTask`, `goAbortRunnerTask` | `AbortRead`, `AbortPending`, `AbortApproving`, `AbortRunning`, `AbortSend` |
| `Task.Run`, `StartedTask.Wait`, `Executor.WaitCommand*` | operators `CanStart`, `Launch`, `ExitState`; actions `SaveExit`, `ExecEnds` |
| death of a portal process and the recovery by the next one | `Crash`, then `Boot` |

Abstractions, each of which a reader should know:

* There is one task and one manager, whose context is never cancelled: what the loss
  of the lock does is in `Scheduler`.
* The flow of steps, whether the task approves itself and whether a failed scan is
  tolerated are constants: they are fixed by `doCreateTask`.
* A crash kills the worker and any subset of the calls in progress, since several
  portal processes may serve calls while one of them manages tasks.
* A command started again while its earlier start still runs counts as one command.
  `container.json` is saved only while somebody watches; a save by a watcher the
  worker has already left is not modelled.
* A failed exchange (`Fault`) is a lost request or answer, a deadline, or a request
  that cannot be built. Errors of the database are not modelled.
* The early end of a drift task with nothing to do, the callback steps and the
  collect step are not modelled here; the hidden collect step is in `Runner`.

### Scheduler

State. `status` and `step` are the rows of each task and of its single step, `cmd` the
latest command of the task on the runner, `box` the tasks that have a container,
`lock` what consul holds. Per manager: `at`, where its main loop is; `ctxDone`,
whether its context is cancelled; `list`, the tasks it has read and not yet acted on; `work`, where each of its
goroutines is. `envRunningTask` is not a variable: it holds the environments of
the goroutines, `Running(m)`. Tasks are numbered in the order of creation.

| Code | Actions |
|---|---|
| `doCreateTask` | `Create` |
| `acquireLock`, its unlocking goroutine, `lockLostCh` | `Acquire`, `Unlock`, `LoseLock`, `NoticeLoss` |
| `recoverTask` | `FindRunning`, `Recover` |
| `getPendingDeployTasks`, `processPendingTask`, `runTask` | `ListPending`, `Dispatch`, operator `Spawn` |
| the select of `start`, `stop`, `Start` | `NextRound`, `LeaveLoop`, `Stopped` |
| death of a portal process | `Crash` |
| `doRunTask`, `waitTaskStepDone` | `Enter`, `Load`, `Loop` |
| `StartTaskStep`, `WaitTaskStep` | `Call`, `Watch` |
| `processTaskDone` | `After`, `Last` |
| the runner | `CommandEnds` |

`Recover` and `Dispatch` take one task at a time, so the context may be cancelled in
between; the `break` in both selects leaves the select only, which for `Dispatch` means
that a cancelled manager still dispatches. `Unlock` and `Stopped` are independent: the
lock may be another's while goroutines of the old holder run.

Abstractions: a task has one step and needs no approval; the id of the container is
saved with its start, and `processTaskDone` reads the step and writes the task at once
(`TaskRun` separates them); no retries, no aborts, no scan tasks; the limit per runner,
whose counter the code never increments, never holds a task back. Containers are
removable (`reserver_container` not set), so the name of a killed one is free again.

### Runner

State. Files: `latest` (the info of the latest step), `info[k]`, `result[k]` (the exit state
of step k, "empty" between truncation and write), `marked` (`control.json`). The engine:
`box`, `execs` in the order they were started. `handler[h]` is a request to start a step,
`conn[c]` a websocket (kind "status" or a user's "log") with its three goroutines
(`main`, `send`, `wait`), `abort` the abort request, `portal` the other end.

| Code | Actions |
|---|---|
| `RunTask`, `Task.Run`, `Task.start`, `runStep`, `CommittedTaskStep` files | `SendRun`, `RunStart`, `RunCheck`, `RunExec`, `RunLatest`, `RunInfo`, `Answer` |
| `pullTaskStepStatus`, `doTaskStatus`, `doSendTaskStatus`, `TaskLogFollow` | `Connect`, `View`, `SendStatus`, `SendMark`, `SendFinal`, `Heartbeat` |
| `StartedTask.Wait`, `Executor.WaitCommandWithDeadline`, `writeContainerInfo` | `WaitPoll`, `WaitWrite`, `WaitReturns` |
| `AbortTask`, `doAbortTask` | `AbortRead`, `AbortMark`, `AbortStop` |
| `stopTaskContainers`, `Executor.StopCommand`, docker exec | `StopTask`, `Killed`, `Overdue`, `ExecEnds` |
| `processStartStep`, `waitTaskStepDone`: the next step, or the same once more | `Begin`, `After`, `StepOver`, `CanRetry`, `Settle` |
| lost answers, lost connections, the portal's own deadline, death | `LoseAnswer`, `NoAnswer`, `LoseConnection`, `PortalLate`, `GiveUp`, `Die` |

`task` says what is run: steps, which of them scan, whether violations stop it, retries. A step that
fails or times out is sent again (`Settle`, `manager.go:977-983`), as long as retries are left, with the
container id its first request carried (`req`): where the container exists, `RunStart` does
not come to remove `result[k]`. The second attempt of such a step is answered with the first one's
result at once, its command runs on beside whatever comes next, and only the end of
the task stops it. The portal's own deadline counts from the first attempt.

The collect step has a negative index in the code and is `Hidden` here. Left out: the
scripts and files written into the workspace, pausing, pulling images, contents of logs.

### Scan

State. A row of `rows` is a scan task, or the mirror of a deployment together with that
deployment's status; `steps`, `results` and `file` belong to it. `exec`, `output`, `sent` and
`marked` are the runner's. `go[g]` is a goroutine with the step list it read once.

| Code | Actions |
|---|---|
| `ScanEnvironment`, `EnvDeploy`; `EnablePolicyScanRel`, `UpdatePolicyRel`, `UpdatePolicySuppress` | `CallRead` then `CallWrite`; `EnableScan`, `Link`, `Suppress` |
| `recoverTask`, `processPendingTask`, `doRunScanTask`, `doRunTask` | `Recover`, `Recovered`, `Pick`, `Begin`, `Load`, `StartFails` |
| `processStartStep`, `StartTaskStep`, `WaitTaskStep` | `Step`, `Send`, `SendFails`, `Wait`, `WaitFails` |
| `ChangeScanTaskStatusWithStep`, `processStepDone` | `WithStep` in `StepDone`; `Judge` |
| `UpdateScanResult`, `CleanScanResult`, `processScanTaskDone` | `Results`, `Settle` |
| `AbortTask` of the portal, death of it | `Abort`, `Crash`, `Down` |

`SlowWrites = FALSE` keeps a round of the main loop from overtaking the first write of a
goroutine it has just started (ten seconds against one statement). Evaluation of
policies is external: a scan finds any verdict for each policy it was given, or fails.
Scans of templates run the same code; approval, retries and collection are `TaskRun`'s
and `Runner`'s.

### EnvLifecycle

State. `env` is the row: status, lock, archive, the three times (none, later, due) with what
they were made from, the marks `destroyTask` and `deployTask`, drift. `tasks` are rows
whose finished statuses are all "over". `loop` and `seen` are the main loop, `worker` the
one goroutine an environment may have, `at` and `mem` the calls. `Asking` says that this
goroutine may be waiting for an approval, as the task of a user (or one that repairs drift) may
that is to change the environment.

| Code | Actions |
|---|---|
| time passing | `Tick` (also of the copies a call holds) |
| `processAutoDestroy`, `processAutoDeploy`, `deployOrDestroy` | `ListDestroy`, `CreateDestroy`, `ListDeploy`, `CreateDeploy`, `CreateFails` |
| `processPendingTask` | `Dispatch` |
| `beginCronDriftTask` | `ListDrift`, `FindDrift`, `CreateDrift`, `NextDrift` |
| `runTask`, start failure, end | `Enter`, `StartFails`, `End` |
| `taskDoneProcessAutoDestroy`, `...AutoDeploy` | `ReadDestroy`, `SaveDestroy`, `ReadDeploy`, `SaveDeploy` |
| `envDeploy`, `UpdateEnv`, `EnvLock`, `EnvUnLock`, `EnvDeployDrift`, `AbortTask` (pending) | `DeployRead/Write`, `UpdateRead/Write`, `LockRead/Write`, `Unlock`, `DriftRead/Write`, `Abort` |
| death of the portal | `Crash` |

What the code does and a reader may not expect: an update that does not mention drift
turns drift off (`SetDrift`); cron times given at creation are lost when the defaults
of the template are set (`Created`); `envDeploy` saves the whole row it has read, which
takes back whatever was changed since (`stale`); an automatic task aborted while pending
keeps its mark, because only `processTaskDone` clears it (`skipped`); an abort between
list and start is undone by the goroutine's own copy (`Enter`). Left out: whether a failed
environment has resources left, and a form that says `archived: false`, so that `UpdateRead` lets
fewer edits through than `apps/env.go:717` and `:918`.

### TaskFlow and Webhook

`TaskFlow` translates `GetTaskFlowWithPipeline`, `CompletePipelineDot5` and the loop of
`doCreateTask` that makes steps; a task of no step is not made (`TaskNotHaveStep`). What a file
may say is `File`: in versions 0.3 and 0.4 it gives any steps in any order, in version 0.5 the
arguments of named ones. The code passes both on, so a file can ask for an apply without a plan,
or for `-destroy` in the plan of an apply, and gets it. `EffectIsPrepared` is about every
file that does not (`SoundFile`): nothing that is added, completed or left out makes it unsound.

`Webhook` has the rows of a template and its environments (`tpl`, `env`), the hooks in each
repository, `mail` for events on their way, `up` and `index` for the round robin, and
requests `proc`, each with the row it read and what its transaction has made so far.

| Code | Actions |
|---|---|
| `CreateEnv`, `EnvDeploy`, `UpdateEnv`, `EnvLock`, `UpdateTemplate` | the actions of these names, then `Commit...`, `SaveRow` |
| `SetWebhook`, `chkAndDelWebhook`, calls to the service | `ListWebhook`, `CheckExists`, `CheckNothing`, `DeleteWebhook`, `AddWebhook`, `HookFails`, `TokenFails` |
| `WebhooksApiHandler`, `searchTplEnv`, `actionPrOrPush` | `Receive`, `CreateTplScan`, `NewTask`, `Fails`, `CommitDelivery` |
| `GetRunner`, `CreateTask` | `LoadIndex`, `StoreIndex` |

A delivery reads the snapshot of `Receive`. Excused (`tangled`) are calls to the hook that
overlap, or one of which fails, a template moved to another repository (which leaves its
environments' hook behind), and a deployment that writes back the whole row it read while an
update has committed the first triggers: the column becomes NULL again, which is "never
sent" and not "sent empty", and the next update leaves the hook alone. Left out: which branch an event matches, rows and comments
of merge requests, removal of the hook with a template, archive and lock by status
(`EnvLifecycle`), the default runner and one the environment names itself, a second template in the same
repository, and a failure of `CreateVcsPr`, which writes a row nothing here reads.

### Variables

State. `rows` are the variables of four scopes (one object each), `groups` the variables of
each group, `bound` and `granted` the relation rows; `at` and `mem` are calls with what they
read. Every value carries the call that wrote it, so that an old one can be recognised.
`GroupsFound`, `Sources` and `Outcomes` compute what a deployment gets
(`SearchVariableGroupRel`, `MergeVariableGroupVars`, `GetValidVarsAndVgVars`), as a
*set* of outcomes where the order of a query decides. `SubmitVars`/`WriteVars`,
`Bind`/`WriteBind`, `EditGroup`/`WriteGroup` and `DropGroup` are the calls, read apart from
write.

### TplExchange

State. `db[site]` holds rows (services, groups, templates) with the links between templates
and groups, variables, and the templates a project offers; `file` is the last export, one sequence
of services, then groups (once per link), then templates, the order in which the importer goes
through its lists. `Export`, `CreateTemplate`, `CreateGroup`, `CreateVcs`, `Change`, `Relink`,
`DeleteTemplate`, `DeleteGroup` and `CheckVcs`/`DeleteVcs` are the actions of the users, and
`Import` is one transaction: `ImportAll` is a recursive function of the number of items done, each by
`ImportItem` (`ImportRow` makes, updates, copies or skips the row, `Attached` gives a template
its variables, links and project). An error ends it with the database as it was. Links are sets:
the rows of the relation have a unique index. A new name takes a mark no row and no item
has where the code appends a time, and tries again while that is taken. `last` keeps what the last import was
asked and did, for the properties; `raced` the services needed by a file that was imported, or given
to a new template, between the look for their templates and their deletion. The definitions have names of their own
(`ExchangeSpec`, `TablesOK`, ...) so that one module can be about `Variables` and this one. Left out: demo
templates, re-encryption of secrets, project grants of groups, the check for active environments when
a template is deleted, the limit of five attempts at a name.

### Access

State. `rel[place][user]` is the row of a user in the organization or its project, `grants` the
roles of units, `unit` the directory. `call[c]` holds a call with the rows it found. `Login`
reads (with the directory's answer), `Refresh` is its transaction; `DeleteUserOrgRel` then
`DeleteUserAllProject`; `CheckMembers` then `CreateProjectUser`, `UpdateProjectUser` or
`CreateLdapUserOrg`; `AuthOU` then `CreateOU`; `Cut` ends a call in the middle; `Move` is
the directory's. `loose` and `crossed` record the overlaps the properties excuse. Left out:
rows of users, organizations and projects themselves, with the users `CreateProject` binds in its
own transaction, tokens, the table of permissions.

### Variants

The definitions marked *Variant* beside an action are deliberate mistakes (a dropped
guard, an uncounted retry, a loop that runs on). Nothing uses them in the
specification: they show that each property notices the mistake it is there for.

## 3. Runs

Every bound is a constant or a constraint of the configuration.

| Run | Instance | Shows |
|---|---|---|
| `approval` | plan and apply; two users who approve, reject or abort; one crash; every exchange succeeds | nothing gated runs unapproved (`ApprovedBeforeRun`), steps run in order (`StepsInOrder`). The view `LiveState` leaves out the copies of a call that is over |
| `auto` | tolerated scan, plan, apply; nobody to approve; two crashes, two failed exchanges | each command started at most once (`LaunchBound`), nothing left running (`NoOrphan`), the environment agrees at rest (`EnvFollowsTask`), a terminal status is final (`ExitedIsFinal`), the task ends (`Terminates`); `TaskRun` implements `Pipeline` |
| `reject` | scan, plan, destroy; one retry of each step; two users who reject; two failed exchanges | ends rejected and stays so (`RejectEnds`), destroys nothing (`RejectedMeansNotRun`), however often the steps before were tried |
| `queue` | two managers; three tasks, two of them of one environment; two deaths, or one lock lost by a living holder | one command per environment (`EnvExclusive`), in the order of creation (`InOrder`), none failed by a takeover (`FailsForCause`) or run twice (`RunsOnce`), every task ends (`EveryTaskEnds`) |
| `envs` | one environment destroyed and deployed by cron, with repair of drift; one call of a user, of six kinds; two times that fall due, one failure or death | no time is served twice (`AutoOnce`), a lock lets one task through at most (`LockLetsThrough`), what is due is served unless a task waits for ever to be approved (`DueIsServed`) |
| `runner` | two steps, the first a tolerated scan; two steps tried again, the second a scan that is not tolerated; one step with collection, with a user on the log, with one loss or death, each tried again; two request slots, two connections, one retry, an abort at any time | one command at a time but for later attempts (`OneCommand`), a result is that of an attempt of its step (`ResultIsTrue`), at most one start after the mark (`AbortStopsStarts`), the portal ends (`TaskEnds`) with nothing left running (`NothingLeft`) |
| `scan` | a scan or a deployment with two policies, one change of policies by a second call, one fault | `StopsOnViolation`, `CompleteMeansApplied`, `ResultsAgree`, `EveryTaskEnds` |
| `variables` | every way to bind three groups to four scopes; mixtures with variables; two users who update, bind, edit and delete, two or three calls | the nearest scope wins, where the code's two orders agree (`NearestWins`); an update is whole (`UpdateIsWhole`) |
| `webhook` | two environments (0.5 and 0.3 files, tagged and untagged runners), two requests at once; up to three calls, two events, two changes of runners, one failure, in six mixtures, one of them with an environment whose triggers were never sent | `DeliveryIsWhole`, `HookServes`, `RunnersTakeTurns`, `EffectIsPrepared` |
| `exchange` | two templates that share a group, two organizations, two installations (the other empty, with the names taken, or with a service no template is left of); one export, two imports, one edit, or one import and two edits | what was imported is there and refers to what came with it (`Landed`), nothing else changes (`KeepsTheRest`), no import fails without a cause (`ImportFailsForCause`), a second update changes nothing (`UpdateSettles`) |
| `access` | two users, one unit, two calls at once, three in all, from any rows the first user may have | `NoGhostRole`, `LoginWorks`, `RefreshAgrees` |
| `accounts` | one user binds and deletes groups, one at a time | a *violation*: see below |

Why the bounds are enough. A race in this code is between a worker and a call, or
between two calls: two sessions, two requests or two connections meet in every way. Two
or three steps are a predecessor, a gate and a tolerated scan. One retry tells the first
attempt, the last and one too many apart. Two managers are a holder and a successor; two deaths let
the lock come back to the first; three tasks of two environments have a predecessor and
an independent one. Three groups over four scopes have a chain in which a group is
replaced by one that is itself replaced. Two imports show what a second one does to the
first.

Constraints and symmetry. `queue` explores a lost lock only where nobody dies and one
task was created (`LossAlone`); its properties claim nothing once a lock is lost, so
this limits only what they claim nothing about. `envs` stops where a deployment
has overwritten a row (`UntilStale`), which its properties excuse. `approval`, `webhook`
and `access` use symmetry and check safety only. `CHECK_DEADLOCK FALSE` everywhere: tasks ended and calls
exhausted are the normal end of a behaviour.

### What the code does not keep

`accounts` checks `OneOrder`: the documentation gives one order of the four levels, organization,
template, project, environment (`docs/mkdocs/product-features/variables.md:5`), and accounts inherit like
variables (`resource-account.md:26`). Variables are merged so (`consts.go:224`), but groups are taken
with the project before the template (`consts.go:226`): a group of the template replaces one of
the project. `NearestWins` is `OneOrder` where no group of the project shares a name with one
of the template (`OrdersAgree`).

The modules state more promises that fail, and properties that hold under narrower
conditions than one would hope. Put one of them into the configuration named, with the
change named, and TLC prints the interleaving.

| Property | Configuration | What happens |
|---|---|---|
| `LaunchBound` | `approval` | the second write of an approval puts a step that already runs back to pending; a recovered worker starts it again |
| `AbortEnds` | `approval`, `FairSpec`, one session that aborts, no symmetry and view | an abort marked between two steps: nobody reads the mark, and a task waiting for approval can be neither approved nor aborted |
| `CompleteMeansDone` | `auto`, one session that aborts | `AbortTask` writes back an old `curr_step`; the task is judged by an earlier step and reported complete |
| `RejectedMeansNotRun` | `reject`, with approvals | an approval and a rejection both pass the check: applied and rejected |
| `EnvFollowsTask` without `Calls = {}` | `reject` | a rejection between the worker's write of the task and of the environment: the late write leaves the environment deploying for good |
| `ResultIsOver` | `reject` | a retry in the existing container is answered with the first attempt's exit state |
| `FailsForCause`, `EveryTaskEnds` without `losses = 0` | `queue` | a manager that has lost its lock fails the step it watches and kills its container, which its successor has recovered; or marks a task running after the successor has looked |
| `TtlIsArmed` | `envs`, `Forms <- Live` | a time to live set while nothing is deployed is kept as text only (docs/mkdocs/product-features/envs.md:55) |
| `ArchivedStaysIdle` | `envs`, `Forms <- Archive` | archiving leaves the times, and the main loop acts on them (envs.md:89) |
| `NoInvalidStatus` | `scan` | an abort during the scan step of a deployment brings `ChangeScanTaskStatusWithStep` a status it does not list: it panics, the comment beside it notwithstanding (`services/task.go:1202`), and nothing recovers the panic. The portal ends, and so does the next one, which recovers the task |
| `RetryIsHeard` | `runner`, `Tasks <- OneRetried`, `Spec` | a comment of `Task.start` (`runner/task.go:124`) says that the result file is removed so that a retry is not answered with it. A retry in the container the task has does not pass there (`runner/task.go:53`): the portal records the step as failed while its second command runs, with nothing lost and nobody aborting |
| `ToleratedGoesOn` | `scan` | a scan that finds a policy bound after the deployment was created ends a deployment that tolerates violations (`manager.go:634`) |
| `NoSameLevelConflict` | `variables`, `Setups <- Pairs` | two groups of one request, two requests, a form or an edit bind groups that share a name (resource-account.md:28) |
| `SecretsMoveOn` | `variables`, `Setups <- Secret` | a secret left blank is filled with a value that has been replaced (`apps/variables_group.go:158`) |
| `CommitIsApproved` | `webhook` | triggers set by a form that does not mention approval (`services/env.go:463`) |
| `TemplateKeepsHook` | `webhook` | the search for templates compares the id of the template with that of the service (`vcservice.go:207`) |
| `ImportFailsForCause` without `ListedTwice` | `exchange` | policy abort fails on a group that two templates of the file share (`template_export.go:30`) |
| `Landed` without `Deleted` | `exchange` | an update of a deleted template is reported and not done |
| `HasService` without `raced` | `exchange`, as an invariant | a service found unused is deleted after an import, or a user, has given it to a template (`apps/vcs.go:111`) |
| `RefreshAgrees` without `~Met` | `access` | two logins of one user at once, or his removal during a login, leave another role than either would |
| `LoginWorks` without `crossed` | `access` | two calls grant one unit the same role: two rows, and every login of its users breaks the unique index |
| `HookServes` without `tangled` | `webhook` | two hooks, or none, after calls that overlap, fail, or move the template, or a deployment that takes the first triggers back |

Stated and kept for the proofs, without a run of their own: `CompleteMeansDone` and `RetriesBounded` of
`TaskRun` (they hold in `auto` and `reject`), `NoOrphan` of `Scheduler`, `CompleteIsTrue` of `Runner`,
`ViolationIsReal` of `Scan`, `DriftOnce` of `EnvLifecycle`, `CheckedApart` of `Variables`, `HasService`
of `TplExchange`, and each module's `TypeOK` (`TablesOK` in `TplExchange`). TLC found no violation of them in these configurations.

What the properties excuse is part of what they say: `AutoOnce` and `DueIsServed` end
where a row was overwritten (`stale`), `DueIsServed` also where an automatic task was aborted while pending or
failed to start (`skipped`), after which the code never serves that time again, and where from
some time on a task waits for an approval (`[]Asking`): the main loop passes over its environment;
`ResultsAgree` leaves out scans never started, cut off by a death, or with a finding that
has no row; `OneCommand` and `NothingLeft` those that lost something, and `OneCommand` an aborted task and later attempts
at a step, for which the portal may not wait; `NoGhostRole` users whose
removal was cut or crossed (`loose`); two pushes at once may order their tasks either
way.

### Fairness

`TaskRun`: weak fairness of the worker's steps, of a session's steps once
its call has begun, of `Boot` (a portal that dies is started again) and of
`ExecEnds`. The first three are goroutines that no lock can block; the last is
justified by the step timeout the runner enforces (`WaitCommandWithDeadline` kills
the command), which is what `Runner` shows. Users owe nothing: no fairness on the start of a call. Crashes are
bounded, so recovery is eventually left alone; with an unbounded number nothing
terminates.

`Scheduler`: every step of a manager and of a goroutine is weakly fair, as are the
commands. Some waiting manager eventually gets a free lock, not each one. `LeaveLoop` is
strongly fair: the select of the main loop picks at random between the tick and the
cancelled context, so it does not pick the tick for ever. Nobody must create a task,
lose a lock or die.

`EnvLifecycle`: the main loop goes on, and so does the goroutine of the task, but for one that may
be waiting for an approval (`Asking`), which has no timeout
(`task_manager/task.go:336-361`) and is nobody's duty; a call that has begun goes on. No time must
fall due, nobody must call. The tasks of a due time approve themselves
(`task_auto_destory.go:32`, `task_auto_deploy.go:33`).

`Runner`: the portal and every goroutine of the runner go on; a command that was killed
dies, one past its deadline is noticed. A command need not end by itself: `TaskEnds` rests on the
deadline the runner keeps, and nothing rests on the portal's own. `GiveUp` is strongly fair: it
stands for the last of ten tries, and they are counted through reconnections.

`Scan`: goroutines, main loop and recovery go on and commands end. Nobody must call.

`Variables`, `Webhook`, `TplExchange` and `Access` state safety only.

## 4. Proofs

`TaskRun_proofs` proves, for every flow, retry number, set of sessions and number of
crashes and faults, under the single assumption `TaskRunAssumption` (the flow is a
non-empty sequence of step types, the other constants have their types):

| Theorem | States |
|---|---|
| `TypeCorrect` | `Spec => []TypeOK` |
| `PipelineCorrect` | `Spec => []PipelineInv` |
| `ApprovalCorrect` | `Spec => []ApprovedBeforeRun` |
| `OrderCorrect` | `Spec => []StepsInOrder` |
| `Refinement` | `Spec => ImplementsPipeline` |

The argument. Neither `ApprovedBeforeRun` nor `StepsInOrder` is inductive: what
the worker starts depends on copies it made long ago, and on a `curr_step` that an
abort may have taken back. `PipelineInv` adds what makes the copies harmless:

* `CompleteIsDone`: wherever `complete` is written - a row, the worker's list, its
  copy, the runner's file - the command has succeeded;
* `IndexPassed`: no index, in the row or in *any* process's copy, points beyond an
  unfinished step. An overwritten `curr_step` is only ever an older one, and since
  `done` only grows, an older one is still good;
* `ApprovalKnown`: what the worker takes for approved is approved in the row. The
  approver is never taken back, so a stale copy is again harmless;
* `StartedIsCounted`: only a started command has a state on the runner.

Both hard cases rest on facts that grow: `done` and `steps[k].approved`. Each group
of actions has a lemma that it preserves the types and one that it preserves
`PipelineInv`; `Refinement` shows that each action either leaves the three abstract
variables alone or is a step of `Pipeline`.

What the runs `auto` and `reject` say of a task nobody approves is proved under the
hypotheses that make it true, which each theorem states; the constants of the runs
satisfy them, and section 3 shows what happens without.

| Theorem | Hypothesis | States |
|---|---|---|
| `AnswersCorrect` | | no session gets anywhere without a call to some effect |
| `RejectCorrect` | no call approves | `Spec => []RejectedMeansNotRun` |
| `LaunchCorrect` | nothing is tried again, nobody approves | `Spec => []LaunchBound` |
| `FinalCorrect` | no call has anything to do (`NoneCalls`) | `Spec => ExitedIsFinal` |
| `EnvCorrect` | | `Spec => []EnvFollowsTask` |
| `OrphanCorrect` | `NoneCalls` | `Spec => []NoOrphan` |

* `LaunchCorrect` rests on `Once`: a step whose row, list and copies all still say
  pending has never been started, but for the one start under way. A crash between the
  start and the write is harmless because the row says running before the request leaves.
* `FinalCorrect` rests on `Final`: the worker of a task that has exited is gone, or stands
  before its last write, that of the environment, with the status the row has.
* `EnvCorrect` adds `Reported`: where no portal dies, that write is made before the worker
  is gone.
* `OrphanCorrect` rests on `Placed` (`curr_step` is the worker's step, a copy names a
  container only if the row does) and `Kept`: nothing runs once the task is ending, and a
  command whose container the row does not name is that of the step which row and copies
  call running (`Traced`). So the worker, and after a crash the next one, comes back to it
  before the task can end.

`Scheduler_proofs` proves, for any number of managers, tasks, environments and deaths,
under `SchedulerAssumption` (the constants have their types):

| Theorem | States |
|---|---|
| `TypeCorrect` | `Spec => []TypeOK` |
| `SchedulerCorrect` | `Spec => []SchedulerInv` |
| `ExclusionCorrect` | `Spec => []EnvExclusive` |
| `QueueCorrect` | `Spec => []InOrder` |
| `OnceCorrect` | `Spec => RunsOnce` |
| `FailureCorrect` | `Spec => []FailsForCause` |

All but the first speak of behaviours, or of their beginnings, in which no lock has yet
been lost to a holder that lives. Exclusion is not inductive: it depends on what a manager
that has died left in the rows, and on lists read earlier. `SchedulerInv` adds:

* `HolderAlone`: only the holder of the lock has goroutines, and its context is live;
* `NoneForgotten`: every task that runs has a goroutine or is about to be recovered;
* `ListIsFresh`: what the holder has read is still true, since nobody else writes it;
* `WorkMatchesRows`, `RowsMatchCommands`: goroutine, rows and command agree;
* `OlderHaveEnded`: whatever has begun or is listed has no unfinished older task before
  it in its environment. Of two tasks with a running command one would be older and
  ended, and an ended task has no running command: exclusion follows from order.

`RecoverSucceeds` is a corollary worth knowing: recovery never meets two running tasks
of one environment, the error that would end the manager's round. `FailureCorrect` adds
`Caused` to `SchedulerInv`: a task or step that failed has a command that failed, or a
death came before its start; a step that runs without a command is about to get it, or a death
came between; and no container stands in the way of a command not yet started.

The seven modules below are proved in the same manner: a type invariant that also says what
each process holds at each place of its code, then for each property an inductive
invariant that was checked by TLC before it was proved, with one lemma per action.

| Module | Theorem | States |
|---|---|---|
| `EnvLifecycle_proofs` | `TypeCorrect`, `LockCorrect`, `AutoCorrect` | `[]TypeOK`, `[]LockLetsThrough`, `[]AutoOnce` |
| `Runner_proofs` | `TypeCorrect`, `AbortCorrect`, `OneCorrect`, `ResultCorrect`, `CompleteCorrect` | `[]TypeOK`, `[]AbortStopsStarts`, `[]OneCommand`, `[]ResultIsTrue`, `[]CompleteIsTrue` |
| `Scan_proofs` | `TypeCorrect`, `StopCorrect`, `CompleteCorrect`, `AgreeCorrect` | `[]TypeOK`, `[]StopsOnViolation`, `[]CompleteMeansApplied`; `[]ResultsAgree` under `~SlowWrites` |
| `Webhook_proofs` | `TypeCorrect`, `DeliveryCorrect`, `HookCorrect`, `PreparedCorrect`, `TurnsCorrect` | `[]TypeOK`, `[]DeliveryIsWhole`, `[]HookServes`, `[]EffectIsPrepared`, `[]RunnersTakeTurns` |
| `Variables_proofs` | `TypeCorrect`, `UpdateCorrect`, `NearestCorrect` | `[]TypeOK`, `[]UpdateIsWhole`, `[]NearestWins` |
| `Variables_proofs`, about `TplExchange` | `TablesCorrect`, `ServiceCorrect`, `LandedCorrect`, `KeptCorrect`, `CauseCorrect` | `ExchangeSpec =>` `[]TablesOK`, `[]HasService`, `[]Landed`, `[]KeepsTheRest`, `[]ImportFailsForCause` |
| `Access_proofs` | `TypeCorrect`, `GhostCorrect`, `RefreshCorrect`, `LoginCorrect`, `FromAnyRows` | `[]TypeOK`, `[]NoGhostRole`, `RefreshAgrees`, `[]LoginWorks`, and the last three from any sound rows |

Each holds for every value of the constants that satisfies the module's named assumption.
The assumptions give types only, with these exceptions: `Access` that "no row" is not a
row; `Webhook` that its starts are served (each of `Starts` has the hooks its rows want) and that
runners differ; `TplExchange` that it starts with sound databases (`Sound`: finitely many rows, whose
references are identifiers of the right kind) in which templates have their services.

* `EnvLifecycle`. `LockInv`: under a lock, the tasks created since it was set and the one
  the main loop is about to create, if it has looked before, are at most one. `AutoInv`: the
  mark of the row names the only unfinished automatic task of its kind; the main loop
  creates one only where the mark was free when it looked, and is still; the goroutine of a
  task keeps its mark until the task is over (`HeldInv`, `WorkerInv`). Only a deployment that
  writes back an old row (`stale`) takes a mark away from its task.
* `Runner`. `Talk` relates the portal to the one request it waits for and the one
  connection it reads. `Counted` bounds `afterMark` by the requests between the check
  and the start, which `AbortStopsStarts` needs. `Linked` holds whatever is lost: what files, requests,
  connections and results say is tied to a command of their step, and a command runs only in a
  container that is up. `Calm` is an implication: while nothing is lost (`Undisturbed`),
  `Peace` holds. Its parts are: `InOrder`, no command is of a step beyond the portal's, later
  attempts come only when the first is over, and of first attempts only that of the portal's step can be
  live, unless there was an abort; `Ready`, the portal knows how far the runner is, and tries again only after a
  failure; `AllAsk`, requests are of the portal's step; `StatusOf`, a connection the
  portal reads is of a command of its step; `Filled`, a file is empty only in the hands
  of a writer; `SaidTrue`, what the portal has recorded some attempt shows. Attempts are why
  this cannot speak of *the* command of a step: a result may be an earlier attempt's,
  a later attempt may outlive the step. So the facts that must survive are those that grow.
  `StepGrown` says that a step of the system keeps every command, its step, and
  how it ended; `GrownFacts` that what some attempt has shown is never taken back; `FirstOnce` that two
  first attempts of one step are the same command; `SettledOver` that a command that is not live leaves the
  first attempt of its step over.
* `Scan`. `MirrorInv` says of each deployment: `Ledger`, how the rows of its two steps, the
  commands and what the scan wrote agree; `Alone`, that one goroutine works for it;
  `Driver`, what this goroutine's copy of the steps still says of the rows. The copy is made
  once and a crash drops it, so it is the rows that must tell a successor enough.
  `AgreeCorrect` is about scan tasks as well, and there needs `~SlowWrites`: two goroutines of
  one scan each write a verdict and its results, and the writes may cross. `AgreeInv` says of every
  task whose start has not failed: `Filing`, the command, its file and the status of the scan
  step agree; `Left`, results and verdict are untouched or `Agreed`, or a finding has no row
  (`Done`); `Rest`, one of the latter holds once nobody works for a task that is over;
  `Drives`, what its goroutine still has to write. The hard case is a deployment whose portal died
  between the verdict and the results: its successor finds the step ended and writes both again.
* `Webhook`. `DeliveryIsWhole` needs the books kept inside a transaction (`Balanced`: what is
  left to do and what is made add up to what was due), that two deliveries are told apart (`Apart`), and
  that each task of a delivery is one that committed (`Booked`). `Serving` says, while nothing is
  `tangled`: one request at the hook; one hook at most; each row that wants it, or that an uncommitted
  deployment would restore, is served or about to be by the request that sets its triggers
  (`Served`, `Needs`, `Promised`); what a request saw at the service is so (`Knows`); a request about
  to delete has nobody to serve (`Cleared`); and a row with triggers is marked as having had
  them sent (`Marked`). The last conjunct is why `HookServes` must excuse the deployment that
  writes an old row back: it takes the mark away while the hook stays, and an update that
  clears the triggers of another row may then remove the hook. The `webhook` run reaches it.
  The flow of a task and the list of runners are made by a loop over a sequence (`Filtered`).
  What the loop returns for every sequence is shown by induction after all, though the library's
  theorems of induction cannot be used (they take an operator): `LeastOf` gets the least of a set of
  numbers from `FS_StrictSubsetOrderingWellFounded` and `WFMin`, `UpTo` an induction on a *set* of
  numbers, `Runs` that a loop has a value, `FilteredFacts` that a filter has what it keeps in its
  order (`Places`). `FlowSound` then says of every file and type of task that the completed flow is
  sound, `StepsPrepared` that leaving steps out keeps it so, and `Ready` that each task, made or
  committed, is of such steps and of a runner with its tags. `TurnsCorrect` rests on `Turned`: those
  who have had their turn in a round are the places from where it began to where the index stands,
  around the end of the list (`Had`), so the next one has not.
* `Variables`. `Current`: a call that has met no other holds what the rows say. `NearestWins` follows
  the loop of the merge scope by scope: `FoundUpTo` says what it has found after k
  scopes, `HoldsUpTo` what a group found along the chain holds, in the order of the code. Four scopes make
  four steps of one lemma, so no induction is needed. `LeftIsHeld` leads to the documented order: where
  `OrdersAgree`, what the loop leaves is what holds by that order.
* `TplExchange`. The file, the databases, the organizations and the edits are arbitrary, so the
  loop of an import has to be followed for any number of items. `FoldOK` says what the transaction
  has done after k of them: each row is the old one or `Written` by one of the first k items (`Origin`),
  only copies are mapped, to new identifiers, and no two to the same (`MapOK`), each item has a fate (`FateOK`), what
  `Landed` asks for holds of each item so far, and links and variables are kept but for what is updated.
  `FailOK` says the same of a transaction with an error: that it has its cause. One lemma shows that an item
  leads from `FoldOK` to one of the two and an error to itself (a row's name is the item's own or carries a
  mark no other has, so only a group of the other type can stand in its way); that one of them holds after
  the last follows from the least number of items at which none would. `IInv` is what an import finds: sound tables, a file whose templates come last and
  with their groups and services (`FileOK`), `HasService`, and `GoingOK`: a service about to be
  deleted is unused still, or is in `raced`. `Told`, the three properties of an import, is not needed to go on:
  it follows of each import from `FoldOK` or `FailOK` at the end of the file, and all other
  steps set `last` to nothing. `KeepsTheRest` excuses a template's service in `raced`: that
  one may be deleted before an export, which then has the template without it.
* `Access`. Its invariants relate a call to the rows it has read: the row that a removal is about
  to delete (`Removed`), no unit granted two roles in one place unless calls have crossed (`OneGrant`).
  `FromAnyRows` starts from arbitrary rows instead of `Init`.

What stays with TLC:

* liveness (`Terminates`, `RejectEnds`, `EveryTaskEnds`, `DueIsServed`, `TaskEnds`, `NothingLeft`): the
  prover has no rules for fairness and enabledness;
* `UpdateSettles` of `TplExchange`: it compares the result of an import with that of the next, so its
  proof would follow two runs of the loop side by side, with all that the first left as an invariant
  of what lies between; `FoldOK` says of one run what it leaves, not that a second leaves it alone.

## 5. Plan

The modules are in place. What remains to be proved, in this order:

1. `Scan`: `ViolationIsReal`; `TaskRun`: `CompleteMeansDone` and `RetriesBounded` without aborts,
   which no run checks yet.
2. `EnvLifecycle`: `DriftOnce`; `Variables`: `CheckedApart`; `Scheduler`: `NoOrphan`.

Modelling that is left: callback steps and their meeting with recovery; several
environments in `EnvLifecycle`, and its composition with `Scheduler`; the limit per
runner, whose counter the code never increments; projects' variables for groups.

## 6. Not modelled

Prices, bills and statistics are arithmetic over external data. Notifications, mail and
logs are output that no control flow reads. The web layer, configuration and the
wrapper of the database are plumbing; what they do to a row (`UpdateModel`, `UpdateAttrs`,
transactions and their isolation) is part of the actions that use them.

Of the modelled components, queries, reports, option lists, forms and their
validation, the clients of the version control services, the scripts written for the
runner, YAML, and the evaluation of policies are left out: requests of one statement,
calls to external services or formatting. They are most of the program's lines, which is
why the map covers a sixth of them; the parts where several statements or several
processes have to agree are nearly all in.
