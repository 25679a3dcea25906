------------------------------ MODULE Webhook -------------------------------
(***************************************************************************)
(* One template, its environments and the webhook in its repository: the   *)
(* calls that create, update and deploy environments and change the        *)
(* template, each of which sets or removes the hook; the events of the     *)
(* repository, delivered once for each hook; and the handler that makes    *)
(* tasks of a delivery.  Every task takes its runner from one round robin. *)
(* A process is a request; each access of it to the repository, to the     *)
(* runners or to committed rows is a step of its own.                      *)
(***************************************************************************)
EXTENDS TaskFlow

CONSTANTS
    Envs,         \* the environments that may be created, by name
    Setup,        \* the unchanging part of each: tags, policy, playbook, file
    Repos,        \* repositories of one service, the first holds the template
    Runners,      \* the runners in the order of their identifiers
    TagsOf,       \* the tags of each runner
    Forms,        \* what the calls may carry
    Procs,        \* requests served at once
    Starts        \* rows and hooks left by earlier calls, and what may follow

Elems(s) == {s[k] : k \in DOMAIN s}

(* The handler's row of an environment; "null" says that the column of the  *)
(* triggers is NULL, as it is until triggers are sent.  A form: whether     *)
(* triggers are sent and which, whether the approval is, the type of task   *)
(* asked for, whether to archive.                                           *)
EnvRow == [made : BOOLEAN, triggers : SUBSET {"commit", "prmr"}, null : BOOLEAN,
           auto : BOOLEAN, locked : BOOLEAN, archived : BOOLEAN]
TplRow == [triggers : SUBSET {"commit"}, repo : Elems(Repos)]
FormRow == [key : BOOLEAN, triggers : SUBSET {"commit", "prmr"},
            autoKey : BOOLEAN, auto : BOOLEAN, type : Types, archive : BOOLEAN]

(* A file of the pipeline: in version 0.3 or 0.4 it may give steps of any   *)
(* kind for a type of task, in version 0.5 it names some of ours.           *)
File(file) ==
    /\ file.version \in {"none", "0.3", "0.4", "0.5"}
    /\ file.version \in {"0.3", "0.4"} => \A type \in Types :
         file.tasks[type] \in Seq([type : STRING, destroy : BOOLEAN])
    /\ file.version = "0.5" => \A type \in Types :
         \A name \in DOMAIN file.tasks[type] : file.tasks[type][name] \in BOOLEAN

ASSUME SetupAssumption ==
    /\ \A i, j \in DOMAIN Runners : Runners[i] = Runners[j] => i = j
    /\ \A e \in Envs : File(Setup[e].file) /\ Setup[e].policy \in BOOLEAN

(* A start is what earlier calls, none of which met, have left: a hook in   *)
(* the repository of the template, at most, and there where an environment  *)
(* has triggers; and the calls, events, changes of runners and failures     *)
(* that follow.                                                             *)
ASSUME WebhookAssumption ==
    /\ Repos \in Seq(Elems(Repos)) \ {<< >>} /\ Runners \in Seq(Elems(Runners)) \ {<< >>}
    /\ Forms \subseteq FormRow
    /\ \A s \in Starts :
         /\ s.left \in [calls : Nat, events : Nat, changes : Nat, faults : Nat]
         /\ s.tpl \in TplRow /\ s.env \in [Envs -> EnvRow]
         /\ s.hooks \in [Elems(Repos) -> SUBSET {1}]
         /\ \A r \in Elems(Repos) : s.hooks[r] # {} => r = s.tpl.repo
         /\ \A e \in Envs : s.env[e].triggers # {} =>
              s.env[e].made /\ ~s.env[e].null /\ s.hooks[s.tpl.repo] # {}

VARIABLES
    tpl,       \* the row of the template
    env,       \* the rows of the environments
    hooks,     \* per repository, the hooks that carry our address
    nextHook,  \* the identifier of the next hook
    mail,      \* deliveries on their way
    up,        \* the healthy runners
    index,     \* runnerTagsIndex: the round robin, by set of tags
    proc,      \* the requests
    tasks,     \* the tasks created
    left,      \* calls, events, changes of runners and failures left
    handled,   \* history: what each delivery should have made
    turns,     \* history: how often each runner was taken
    tangled    \* history: calls to the hook that overlapped, failed, moved or took back

portal  == <<tpl, env, index>>
world   == <<hooks, nextHook, mail, up>>
history == <<handled, turns, tangled>>
vars    == <<portal, world, proc, tasks, left, history>>

Tags == {Setup[e].tags : e \in Envs}

NoEnv == [made |-> FALSE, triggers |-> {}, null |-> TRUE, auto |-> FALSE,
          locked |-> FALSE, archived |-> FALSE]
NoTpl == [triggers |-> {}, repo |-> Repos[1]]
Nothing == [key |-> FALSE, triggers |-> {}, autoKey |-> FALSE, auto |-> FALSE,
            type |-> "apply", archive |-> FALSE]
NoTurns == [list |-> << >>, taken |-> [r \in Elems(Runners) |-> 0]]

Idle == [pc |-> "idle", op |-> "none", by |-> [event |-> 0, hook |-> 0],
         work |-> [env |-> "", type |-> "", auto |-> FALSE],
         row |-> NoEnv, form |-> Nothing,
         triggers |-> {}, repo |-> Repos[1], hook |-> 0,
         tpl |-> NoTpl, due |-> {}, todo |-> {}, made |-> {}, failed |-> FALSE,
         list |-> << >>, rid |-> 0]

Init ==
    /\ \E s \in Starts : tpl = s.tpl /\ env = s.env /\ hooks = s.hooks /\ left = s.left
    /\ nextHook = 2
    /\ mail = {} /\ tasks = {} /\ handled = {}
    /\ up = Elems(Runners)
    /\ index = [g \in Tags |-> 0] /\ turns = [g \in Tags |-> NoTurns]
    /\ proc = [p \in Procs |-> Idle]
    /\ tangled = FALSE

Spend(what) == left[what] > 0 /\ left' = [left EXCEPT ![what] = @ - 1]
Fault == Spend("faults")
Call(p) == proc[p].pc = "idle" /\ Spend("calls")
At(p, pc) == proc[p].pc = pc
Goes(p, next) == proc' = [proc EXCEPT ![p] = next]

Then(todo) == IF todo = {} THEN "commit" ELSE "load"

(* A delivery goes by its event and its hook, a call by no event.           *)
Begun(op, e, type, auto) ==
    [Idle EXCEPT !.op = op, !.by = [event |-> 0, hook |-> left.calls],
                 !.work = [env |-> e, type |-> type, auto |-> auto],
                 !.repo = tpl.repo]

-----------------------------------------------------------------------------
(* The calls.                                                               *)

(* CheckoutAutoApproval, of the form alone.                                 *)
Approvable(form) == form.auto \/ "commit" \notin form.triggers

Edited(row, form) ==
    [row EXCEPT !.triggers = IF form.key THEN form.triggers ELSE @,
                !.null = @ /\ ~form.key,
                !.auto = IF form.autoKey THEN form.auto ELSE @]

(* Writing the row of an environment waits for a deployment that has.       *)
RowFree(p, e) ==
    \A q \in Procs \ {p} :
        proc[q].op = "deploy" /\ proc[q].work.env = e
        => proc[q].pc \in {"load", "store", "save"}

(* Creating makes the row and a task in one transaction, then the hook.     *)
CreateEnv(p, e, form) ==
    /\ Call(p)
    /\ ~env[e].made /\ Approvable(form) /\ form.type # "destroy"
    /\ \A q \in Procs : proc[q].op = "create" => proc[q].work.env # e
    /\ Goes(p, [Begun("create", e, form.type, form.auto) EXCEPT
                   !.pc = "load", !.triggers = form.triggers,
                   !.row = [Edited(NoEnv, form) EXCEPT !.made = TRUE]])
    /\ UNCHANGED <<portal, world, tasks, history>>

(* Deploying makes a task, writes the whole row as it was read and changed, *)
(* and sets the hook, all before it commits.                                *)
DeployEnv(p, e, form) ==
    /\ Call(p)
    /\ env[e].made /\ ~env[e].archived /\ Approvable(form)
    /\ env[e].locked => form.type = "plan"
    /\ LET row == Edited(env[e], form)
       IN  Goes(p, [Begun("deploy", e, form.type, row.auto) EXCEPT
                      !.pc = "load", !.triggers = form.triggers, !.row = row])
    /\ UNCHANGED <<portal, world, tasks, history>>

(* Updating sets the hook, if triggers are sent, and then writes what was   *)
(* sent.  Whether the status of the environment lets it be archived is not  *)
(* part of this module.                                                     *)
UpdateEnv(p, e, form) ==
    /\ Call(p)
    /\ env[e].made /\ ~env[e].locked /\ ~env[e].archived /\ Approvable(form)
    /\ Goes(p, [Begun("update", e, "", FALSE) EXCEPT
                   !.pc = IF form.key THEN "list" ELSE "commit",
                   !.form = form, !.triggers = form.triggers])
    /\ UNCHANGED <<portal, world, tasks, history>>

LockEnv(e) ==
    /\ env[e].made /\ RowFree("none", e)
    /\ Spend("calls")
    /\ env' = [env EXCEPT ![e].locked = ~@]
    /\ UNCHANGED <<tpl, index, world, proc, tasks, history>>

(* The row of the template is committed before the hook; the hook is set in *)
(* the repository the template has then.                                    *)
UpdateTemplate(p, form, repo) ==
    /\ Call(p)
    /\ tpl' = [triggers |-> IF form.key THEN form.triggers \ {"prmr"} ELSE tpl.triggers,
               repo |-> repo]
    /\ tangled' = (tangled \/ repo # tpl.repo)
    /\ Goes(p, [Begun("template", "", "", FALSE) EXCEPT
                   !.pc = "list", !.triggers = tpl'.triggers, !.repo = repo])
    /\ UNCHANGED <<env, index, world, tasks, handled, turns>>

-----------------------------------------------------------------------------
(* SetWebhook: list the hooks, and add one; or, where no triggers are given,*)
(* look for environments that have any, and delete the first.  What fails   *)
(* is logged, and the call goes on.                                         *)

InHook == {"check", "delete", "add", "commit"}
Overlaps(p) == \E q \in Procs \ {p} : proc[q].pc \in InHook /\ proc[q].op # "deliver"

AfterHook(p) ==
    Goes(p, IF proc[p].op \in {"update", "deploy"} THEN [proc[p] EXCEPT !.pc = "commit"]
                                                   ELSE Idle)

ListWebhook(p) ==
    /\ At(p, "list")
    /\ LET known == hooks[proc[p].repo]
           first == CHOOSE h \in known : \A other \in known : h <= other
           next  == IF proc[p].triggers = {} THEN "check" ELSE "add"
       IN  IF next = "add" /\ known # {} THEN AfterHook(p)
           ELSE Goes(p, [proc[p] EXCEPT !.pc = next,
                                        !.hook = IF known = {} THEN 0 ELSE first])
    /\ tangled' = (tangled \/ Overlaps(p))
    /\ UNCHANGED <<portal, world, tasks, left, handled, turns>>

(* Variant: other environments are not looked for.                          *)
CheckNothing(p) ==
    /\ At(p, "check")
    /\ Goes(p, [proc[p] EXCEPT !.pc = "delete"])
    /\ tangled' = (tangled \/ Overlaps(p))
    /\ UNCHANGED <<portal, world, tasks, left, handled, turns>>

(* The query for templates compares their identifier with that of the       *)
(* service, and finds none.                                                 *)
CheckExists(p) ==
    /\ At(p, "check")
    /\ IF \E e \in Envs : env[e].made /\ ~env[e].null THEN AfterHook(p)
       ELSE Goes(p, [proc[p] EXCEPT !.pc = "delete"])
    /\ tangled' = (tangled \/ Overlaps(p))
    /\ UNCHANGED <<portal, world, tasks, left, handled, turns>>

DeleteWebhook(p) ==
    /\ At(p, "delete")
    /\ hooks' = [hooks EXCEPT ![proc[p].repo] = @ \ {proc[p].hook}]
    /\ AfterHook(p)
    /\ UNCHANGED <<portal, nextHook, mail, up, tasks, left, history>>

AddWebhook(p) ==
    /\ At(p, "add")
    /\ hooks' = [hooks EXCEPT ![proc[p].repo] = @ \cup {nextHook}]
    /\ nextHook' = nextHook + 1
    /\ AfterHook(p)
    /\ UNCHANGED <<portal, mail, up, tasks, left, history>>

(* The service does not answer, or the query fails.                         *)
HookFails(p) ==
    /\ proc[p].pc \in {"list", "check", "delete", "add"}
    /\ Fault
    /\ AfterHook(p)
    /\ tangled' = TRUE
    /\ UNCHANGED <<portal, world, tasks, handled, turns>>

(* GetWebhookToken fails: nothing is set, and an update or a deployment is  *)
(* given up, while a creation is committed already.                         *)
TokenFails(p) ==
    /\ At(p, "list")
    /\ Fault
    /\ Goes(p, Idle)
    /\ tangled' = TRUE
    /\ UNCHANGED <<portal, world, tasks, handled, turns>>

-----------------------------------------------------------------------------
(* The repository and the runners.                                          *)

(* An event of the branch that the template and its environments follow:    *)
(* those of another make nothing.                                           *)
Event(kind) ==
    /\ \E r \in Elems(Repos) : hooks[r] # {}
    /\ Spend("events")
    /\ mail' = mail \cup UNION {{[by |-> [event |-> left.events, hook |-> h], kind |-> kind, repo |-> r] :
                                   h \in hooks[r]} : r \in Elems(Repos)}
    /\ UNCHANGED <<portal, hooks, nextHook, up, proc, tasks, history>>

RunnerChanges(r) ==
    /\ Spend("changes")
    /\ up' = IF r \in up THEN up \ {r} ELSE up \cup {r}
    /\ UNCHANGED <<portal, hooks, nextHook, mail, proc, tasks, history>>

-----------------------------------------------------------------------------
(* The handler of deliveries.                                               *)

(* What a delivery asks for: a plan where a merge request was opened, an    *)
(* apply where commits were pushed and the environment is not locked.       *)
Due(kind) ==
    LET Wants(e, trigger) == env[e].made /\ ~env[e].archived /\ trigger \in env[e].triggers
        Work(type, of) == {[env |-> e, type |-> type, auto |-> env[e].auto] : e \in of}
    IN  IF kind = "open" THEN Work("plan", {e \in Envs : Wants(e, "prmr")})
        ELSE Work("apply", {e \in Envs : Wants(e, "commit") /\ ~env[e].locked})

(* The handler reads everything in one transaction, so at one moment.       *)
Receive(p, m) ==
    /\ proc[p].pc = "idle" /\ m \in mail
    /\ mail' = mail \ {m}
    /\ LET due  == IF m.repo = tpl.repo THEN Due(m.kind) ELSE {}
           scan == m.repo = tpl.repo /\ tpl.triggers # {}
       IN  Goes(p, [Idle EXCEPT !.pc = IF scan THEN "scan" ELSE Then(due),
                                !.op = "deliver", !.by = m.by, !.tpl = tpl,
                                !.due = due, !.todo = due])
    /\ UNCHANGED <<portal, hooks, nextHook, up, tasks, left, history>>

(* createTplScan: a scan of the template in a transaction of its own, and   *)
(* the template saved as it was read.  Any failure leaves the rest as it is.*)
CreateTplScan(p) ==
    /\ At(p, "scan")
    /\ Goes(p, [proc[p] EXCEPT !.pc = Then(proc[p].todo), !.tpl = NoTpl])
    /\ \/ /\ up # {} /\ tpl' = proc[p].tpl
          /\ UNCHANGED left
       \/ up = {} /\ UNCHANGED <<tpl, left>>
       \/ Fault /\ UNCHANGED tpl
    /\ UNCHANGED <<env, index, world, tasks, history>>

-----------------------------------------------------------------------------
(* CreateTask, for a call or a delivery.                                    *)

Available(tags) == Filtered(Runners, {r \in up : tags \subseteq TagsOf[r]})

(* Variant: a failure is logged, and the transaction goes on without it.    *)
FailsAlone(p) ==
    Goes(p, IF proc[p].op = "deliver"
            THEN [proc[p] EXCEPT !.pc = Then(proc[p].todo), !.list = << >>, !.rid = 0]
            ELSE Idle)

(* A failure rolls the transaction back.  The handler goes on: every later  *)
(* statement of its transaction fails, and so does its commit.              *)
Fails(p) ==
    Goes(p, IF proc[p].op = "deliver"
            THEN [proc[p] EXCEPT !.pc = "commit", !.failed = TRUE, !.made = {}, !.todo = {},
                                 !.list = << >>, !.rid = 0]
            ELSE Idle)

Work(p) == IF proc[p].op = "deliver" THEN proc[p].todo ELSE {proc[p].work}

(* GetRunner asks for the runners and reads the round robin ...             *)
LoadIndex(p) ==
    /\ At(p, "load")
    /\ \E w \in Work(p) :
         LET tags == Setup[w.env].tags
         IN  \/ /\ Available(tags) # << >>
                /\ Goes(p, [proc[p] EXCEPT !.pc = "store", !.work = w, !.todo = @ \ {w},
                                           !.list = Available(tags), !.rid = index[tags]])
                /\ UNCHANGED left
             \/ Available(tags) = << >> /\ Fails(p) /\ UNCHANGED left
             \/ Fault /\ Fails(p)
    /\ UNCHANGED <<portal, world, tasks, history>>

(* ... and takes a turn, which is another access.                           *)
Taken(rid, len) == IF rid >= len THEN 0 ELSE rid

(* Variant: the last of the list never has its turn.                        *)
StoredShort(rid, len) == IF rid < len - 2 THEN rid + 1 ELSE IF rid >= len THEN 1 ELSE 0

Stored(rid, len) == IF rid < len - 1 THEN rid + 1 ELSE IF rid >= len THEN 1 ELSE 0

(* Turns are counted while the list stays the same and no other request is  *)
(* between its two accesses, less what every runner has had.                *)
Counted(p, tags, runner) ==
    LET list  == proc[p].list
        apart == /\ index[tags] = proc[p].rid
                 /\ \A q \in Procs \ {p} :
                      At(q, "store") => Setup[proc[q].work.env].tags # tags
        before == IF turns[tags].list = list THEN turns[tags].taken ELSE NoTurns.taken
        after  == [before EXCEPT ![runner] = @ + 1]
    IN  IF ~apart THEN NoTurns
        ELSE [list |-> list,
              taken |-> IF \A r \in Elems(list) : after[r] > 0
                        THEN [r \in DOMAIN after |-> IF after[r] = 0 THEN 0 ELSE after[r] - 1]
                        ELSE after]

NewTask(p, runner) ==
    LET w == proc[p].work
        s == Setup[w.env]
    IN  [by |-> proc[p].by, env |-> w.env, type |-> w.type, auto |-> w.auto, runner |-> runner,
         steps |-> CreateTaskSteps(s.file, w.type, s.policy, s.playbook, w.auto)]

StoreIndex(p) ==
    /\ At(p, "store")
    /\ LET w      == proc[p].work
           tags   == Setup[w.env].tags
           len    == Len(proc[p].list)
           runner == proc[p].list[Taken(proc[p].rid, len) + 1]
       IN  /\ index' = [index EXCEPT ![tags] = Stored(proc[p].rid, len)]
           /\ turns' = [turns EXCEPT ![tags] = Counted(p, tags, runner)]
           /\ \/ /\ NewTask(p, runner).steps # << >>
                 /\ Goes(p, [proc[p] EXCEPT
                               !.pc = CASE proc[p].op = "deliver" -> Then(proc[p].todo)
                                        [] proc[p].op = "create" -> "commit"
                                        [] proc[p].op = "deploy" -> "save",
                               !.made = @ \cup {NewTask(p, runner)},
                               !.list = << >>, !.rid = 0])
                 /\ UNCHANGED left
              \/ NewTask(p, runner).steps = << >> /\ Fails(p) /\ UNCHANGED left
              \/ Fault /\ Fails(p)
    /\ UNCHANGED <<tpl, env, world, tasks, handled, tangled>>

-----------------------------------------------------------------------------
(* Rows and commits.                                                        *)

(* A deployment writes the row as it read it, and what it has written shows *)
(* when it commits.  What was committed in the meantime is lost: where that *)
(* were the first triggers sent, the column is NULL again.                  *)
SaveRow(p) ==
    /\ At(p, "save") /\ RowFree(p, proc[p].work.env)
    /\ Goes(p, [proc[p] EXCEPT !.pc = "list"])
    /\ UNCHANGED <<portal, world, tasks, left, history>>

CommitCreate(p) ==
    /\ At(p, "commit") /\ proc[p].op = "create"
    /\ env' = [env EXCEPT ![proc[p].work.env] = proc[p].row]
    /\ tasks' = tasks \cup proc[p].made
    /\ Goes(p, [proc[p] EXCEPT !.pc = "list", !.row = NoEnv, !.made = {}])
    /\ UNCHANGED <<tpl, index, world, left, history>>

CommitDeploy(p) ==
    /\ At(p, "commit") /\ proc[p].op = "deploy"
    /\ env' = [env EXCEPT ![proc[p].work.env] = proc[p].row]
    /\ tasks' = tasks \cup proc[p].made
    /\ tangled' = (tangled \/ (proc[p].row.null /\ ~env[proc[p].work.env].null))
    /\ Goes(p, Idle)
    /\ UNCHANGED <<tpl, index, world, left, handled, turns>>

(* The check of the status, where archiving is asked for, follows the hook. *)
Updated(row, form) == [Edited(row, form) EXCEPT !.archived = @ \/ form.archive]

CommitUpdate(p) ==
    /\ At(p, "commit") /\ proc[p].op = "update"
    /\ LET e == proc[p].work.env
       IN  \/ /\ RowFree(p, e)
              /\ env' = [env EXCEPT ![e] = Updated(@, proc[p].form)]
           \/ proc[p].form.archive /\ UNCHANGED env
    /\ Goes(p, Idle)
    /\ UNCHANGED <<tpl, index, world, tasks, left, history>>

CommitDelivery(p) ==
    /\ At(p, "commit") /\ proc[p].op = "deliver"
    /\ \E failed \in {proc[p].failed, TRUE} :
         /\ IF failed /\ ~proc[p].failed THEN Fault ELSE UNCHANGED left
         /\ tasks' = IF failed THEN tasks ELSE tasks \cup proc[p].made
         /\ handled' = handled \cup {[by |-> proc[p].by, due |-> proc[p].due, failed |-> failed]}
    /\ Goes(p, Idle)
    /\ UNCHANGED <<portal, world, turns, tangled>>

-----------------------------------------------------------------------------
Calls ==
    \/ \E p \in Procs, e \in Envs, form \in Forms :
         CreateEnv(p, e, form) \/ DeployEnv(p, e, form) \/ UpdateEnv(p, e, form)
    \/ \E p \in Procs, form \in Forms, k \in DOMAIN Repos : UpdateTemplate(p, form, Repos[k])
    \/ \E e \in Envs : LockEnv(e)

Next ==
    \/ Calls
    \/ \E kind \in {"open", "push"} : Event(kind)
    \/ \E r \in Elems(Runners) : RunnerChanges(r)
    \/ \E p \in Procs :
         \/ ListWebhook(p) \/ CheckExists(p) \/ DeleteWebhook(p) \/ AddWebhook(p)
         \/ HookFails(p) \/ TokenFails(p)
         \/ \E m \in mail : Receive(p, m)
         \/ CreateTplScan(p) \/ LoadIndex(p) \/ StoreIndex(p) \/ SaveRow(p)
         \/ CommitCreate(p) \/ CommitDeploy(p) \/ CommitUpdate(p) \/ CommitDelivery(p)

Spec == Init /\ [][Next]_vars

-----------------------------------------------------------------------------
TypeOK ==
    /\ tpl \in TplRow /\ env \in [Envs -> EnvRow]
    /\ hooks \in [Elems(Repos) -> SUBSET (1..(nextHook - 1))]
    /\ up \subseteq Elems(Runners)
    /\ index \in [Tags -> Nat]
    /\ tangled \in BOOLEAN

(* A delivery makes all the tasks that were due when it was read, or none,  *)
(* and none only when something failed: one environment whose task cannot   *)
(* be made rolls back the tasks of the others, and no later one slips in    *)
(* (webhook.go:38-121, one transaction rolled back inside the loop).        *)
DeliveryIsWhole ==
    \A h \in handled :
        {[env |-> t.env, type |-> t.type, auto |-> t.auto] : t \in {x \in tasks : x.by = h.by}}
            = IF h.failed THEN {} ELSE h.due

(* While no call was between the look at the hooks and the change of them   *)
(* when another one looked, none failed, the template kept its repository   *)
(* and no deployment took the first triggers of its environment back: there *)
(* is one hook at most, so that no event is served twice, and an            *)
(* environment with triggers has it, so that its events arrive              *)
(* (vcservice.go:191-244, called before or after the row is committed).     *)
Settled(e) == \A p \in Procs : proc[p].work.env = e => proc[p].op # "create"
HookServes ==
    ~tangled =>
        /\ Cardinality(hooks[tpl.repo]) <= 1
        /\ \A e \in Envs : env[e].triggers # {} /\ Settled(e) => hooks[tpl.repo] # {}

(* A task runs where its tags allow, and while the runners stay the same    *)
(* and requests do not meet between their two accesses, no runner has had   *)
(* two tasks more than another, whatever the index was left at by a longer  *)
(* or shorter list (env.go:334-389).                                        *)
RunnersTakeTurns ==
    /\ \A t \in tasks : Setup[t.env].tags \subseteq TagsOf[t.runner]
    /\ \A g \in Tags : \A r \in Elems(Runners) : turns[g].taken[r] <= 1

(* Whatever is left out of the file of the repository, as long as nothing   *)
(* it says is unsound by itself: nothing is applied or destroyed without a  *)
(* plan of the same kind before it, nor, where policies are enabled and the *)
(* default or 0.5 asks for it, without a scan before it; it waits for       *)
(* approval unless that is automatic; and scans come with one mirror, if    *)
(* any (task.go:270-375, task_pipeline.go:56-97,                            *)
(* models/task_pipeline_dot5.go).                                           *)
SoundFlow(s, type, scanned) ==
    /\ \A i, j \in DOMAIN s : s[i].type \in ScanTypes /\ s[j].type \in ScanTypes => i = j
    /\ \A k \in DOMAIN s : s[k].type \in EffectTypes =>
         /\ type # "plan"
         /\ \E i \in 1..(k - 1) :
              /\ s[i].type = "terraformPlan"
              /\ s[i].destroy = (s[k].type = "terraformDestroy")
         /\ type = "apply" \/ scanned => \E i \in 1..(k - 1) : s[i].type \in ScanTypes

(* What a file says is sound where the flows it gives in full are, and      *)
(* where it does not ask for -destroy in the plan of an apply.              *)
SoundFile(file) ==
    /\ file.version \in {"0.3", "0.4"} => \A type \in Types :
         SoundFlow(file.tasks[type], type, FALSE)
    /\ file.version = "0.5" /\ "terraformPlan" \in DOMAIN file.tasks["apply"]
         => ~file.tasks["apply"]["terraformPlan"]

Prepared(t) ==
    LET s == t.steps
        scanned == Setup[t.env].policy /\ (t.type = "apply" \/ Setup[t.env].file.version = "0.5")
    IN  /\ Mirrors(s) <= 1 /\ (Mirrors(s) = 1 => Setup[t.env].policy)
        /\ \A k \in DOMAIN s : s[k].type \in EffectTypes =>
             /\ t.type # "plan" /\ s[k].mustApproval = ~t.auto
             /\ \E i \in 1..(k - 1) :
                  /\ s[i].type = "terraformPlan"
                  /\ s[i].destroy = (s[k].type = "terraformDestroy")
             /\ scanned => \E i \in 1..(k - 1) : s[i].type \in ScanTypes

EffectIsPrepared == \A t \in tasks : SoundFile(Setup[t.env].file) => Prepared(t)

(* What the code does not keep.  A comment of CheckoutAutoApproval          *)
(* (env.go:463) says that automatic approval must be on where pushes are    *)
(* deployed; the check looks at the form alone.                             *)
CommitIsApproved ==
    \A e \in Envs : "commit" \in env[e].triggers => env[e].auto

(* The comment of chkAndDelWebhook (vcservice.go:207) says that the hook is *)
(* deleted when neither environments nor templates want it.                 *)
TemplateKeepsHook ==
    ~tangled /\ tpl.triggers # {} /\ (\A p \in Procs : proc[p].op # "template")
    => hooks[tpl.repo] # {}
=============================================================================
