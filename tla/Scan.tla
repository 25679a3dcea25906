-------------------------------- MODULE Scan --------------------------------
(***************************************************************************)
(* Compliance scans of one environment.  A scan is a task of its own (two  *)
(* steps: prepare, scan) or the first step of a deployment (scan, apply),  *)
(* which then has a mirror row among the scan tasks.  What a scan finds is *)
(* kept as one result row for each policy; the rows are made when the task *)
(* is created and the policies are read again when it runs.                *)
(***************************************************************************)
EXTENDS DeployStatus, Naturals, Sequences, FiniteSets

CONSTANTS
    Policies,
    Sessions,    \* users, each making one call at a time
    Calls,       \* the calls they may make
    Goroutines,  \* of the task manager
    SlowWrites,  \* a round of the main loop may overtake the first write of a goroutine
    MaxTasks,    \* bound: tasks created
    MaxEdits,    \* bound: changes of policies
    MaxFaults    \* bound: deaths of the portal, failed calls, lost files

Verdicts == {"passed", "violated", "failed"}
PolicyStatuses == {"pending"} \union Verdicts

ASSUME ScanAssumption ==
    /\ Calls \subseteq {"scan", "deploy", "enable", "link", "suppress", "abort"}
    /\ SlowWrites \in BOOLEAN
    /\ MaxTasks \in Nat /\ MaxEdits \in Nat /\ MaxFaults \in Nat

VARIABLES
    env,       \* database: the row of the environment
    linked,    \* database: policies of the groups bound to the environment
    hidden,    \* database: policies suppressed
    rows,      \* database: scan tasks, and the deployments they mirror, oldest first
    steps,     \* database: the two steps of each
    results,   \* database: the result rows of each
    file,      \* log storage: the result file of each
    exec,      \* runner: the command of each step
    output,    \* runner: the file the scan command has written
    sent,      \* the policies the runner was given
    marked,    \* runner: tasks marked aborted
    portal,    \* the process: "up", or "recover" while it restarts
    go,        \* the goroutines of the task manager
    mem,       \* what the call of each session has read
    starts,    \* history: commands started
    recorded,  \* history: policies with a result row when the task was created
    unstarted, \* history: tasks whose start failed
    cut,       \* history: tasks whose results a death of the portal cut off
    panicked,  \* history: the portal has met a status it does not know
    edits, faults

envVars  == <<env, linked, hidden>>
rowVars  == <<rows, steps, results>>
runVars  == <<exec, output, sent, marked, starts>>
history  == <<recorded, unstarted, cut, panicked>>
bounds   == <<edits, faults>>
vars == <<envVars, rowVars, file, runVars, portal, go, mem, history, bounds>>

Tasks == DOMAIN rows
Mirrors(t) == rows[t].kind = "deploy"
ScanStep(t) == IF Mirrors(t) THEN 1 ELSE 2

(* GetValidPolicies: what applies to the environment, as the given rows say. *)
Valid(row, l, h) == IF row.enabled THEN l \ h ELSE {}

(* InitScanResult.                                                          *)
NewResults(row, l, h) ==
    [p \in Policies |-> CASE p \in Valid(row, l, h) -> "pending"
                          [] row.enabled /\ p \in l \intersect h -> "suppressed"
                          [] OTHER -> "none"]

Nothing == [p \in {} |-> "passed"]
NoGo == [pc |-> "off", task |-> 0, new |-> TRUE, k |-> 1, steps |-> <<"pending", "pending">>, policies |-> {}]
NoMem == [call |-> "none", row |-> [enabled |-> TRUE, stop |-> FALSE, last |-> 0],
          linked |-> {}, hidden |-> {}]

Init ==
    /\ env \in [enabled : {TRUE}, stop : BOOLEAN, last : {0}]
    /\ linked \in SUBSET Policies /\ hidden = {}
    /\ rows = <<>> /\ steps = <<>> /\ results = <<>> /\ file = <<>>
    /\ exec = <<>> /\ output = <<>> /\ sent = <<>> /\ marked = {} /\ starts = <<>>
    /\ portal = "up" /\ go = [g \in Goroutines |-> NoGo]
    /\ mem = [s \in Sessions |-> NoMem]
    /\ recorded = <<>> /\ unstarted = {} /\ cut = {} /\ panicked = FALSE
    /\ edits = 0 /\ faults = 0

Fault == faults < MaxFaults /\ faults' = faults + 1

-----------------------------------------------------------------------------
(* Calls of users.                                                          *)

(* ScanEnvironment, EnvDeploy: the transaction reads the environment, and   *)
(* with its first read the policies; the template's repository is asked for *)
(* the commit before anything is written.                                   *)
CallRead(s, call) ==
    /\ call \in {"scan", "deploy"} \intersect Calls
    /\ mem[s].call = "none" /\ env.enabled /\ Len(rows) < MaxTasks
    /\ mem' = [mem EXCEPT ![s] = [call |-> call, row |-> env,
                                  linked |-> linked, hidden |-> hidden]]
    /\ UNCHANGED <<envVars, rowVars, file, runVars, portal, go, history, bounds>>

(* The row of the environment is saved whole, as it was read.               *)
CallWrite(s) ==
    LET m == mem[s]
        new == NewResults(m.row, m.linked, m.hidden)
        mirror == m.call = "deploy"
    IN  /\ m.call # "none" /\ Len(rows) < MaxTasks
        /\ rows' = Append(rows, [kind |-> m.call, status |-> "pending", policy |-> "pending",
                                 curr |-> 1, stop |-> m.row.stop,
                                 deploy |-> IF mirror THEN "pending" ELSE "none"])
        /\ steps' = Append(steps, <<"pending", "pending">>)
        /\ results' = Append(results, new)
        /\ recorded' = Append(recorded, {p \in Policies : new[p] # "none"})
        /\ file' = Append(file, Nothing) /\ output' = Append(output, Nothing)
        /\ sent' = Append(sent, {})
        /\ exec' = Append(exec, <<"none", "none">>)
        /\ starts' = Append(starts, <<0, 0>>)
        /\ env' = IF mirror THEN m.row ELSE [m.row EXCEPT !.last = Len(rows) + 1]
        /\ mem' = [mem EXCEPT ![s] = NoMem]
        /\ UNCHANGED <<linked, hidden, marked, portal, go, unstarted, cut, panicked, bounds>>

Edit(call) == call \in Calls /\ edits < MaxEdits /\ edits' = edits + 1

(* EnablePolicyScanRel.                                                     *)
EnableScan ==
    /\ Edit("enable")
    /\ env' = [env EXCEPT !.enabled = ~@]
    /\ UNCHANGED <<linked, hidden, rowVars, file, runVars, portal, go, mem, history, faults>>

(* UpdatePolicyRel: the groups given replace those bound.                   *)
Link ==
    /\ Edit("link")
    /\ \E l \in SUBSET Policies : l # linked /\ linked' = l
    /\ UNCHANGED <<env, hidden, rowVars, file, runVars, portal, go, mem, history, faults>>

(* UpdatePolicySuppress, DeletePolicySuppress.                              *)
Suppress ==
    /\ Edit("suppress")
    /\ \E p \in Policies : hidden' = IF p \in hidden THEN hidden \ {p} ELSE hidden \union {p}
    /\ UNCHANGED <<env, linked, rowVars, file, runVars, portal, go, mem, history, faults>>

(* AbortTask of a deployment: at once while it waits, else through the      *)
(* runner, which stops the command.                                         *)
Abort(t) ==
    /\ "abort" \in Calls /\ Mirrors(t)
    /\ \/ /\ rows[t].deploy = "pending"
          /\ rows' = [rows EXCEPT ![t].deploy = "aborted"]
          /\ UNCHANGED <<exec, marked>>
       \/ /\ rows[t].deploy = "running" /\ t \notin marked
          /\ \E k \in 1..2 : exec[t][k] = "running"
          /\ marked' = marked \union {t}
          /\ exec' = [exec EXCEPT ![t] = [k \in 1..2 |-> IF @[k] = "running" THEN "failed" ELSE @[k]]]
          /\ UNCHANGED rows
    /\ UNCHANGED <<envVars, steps, results, file, output, sent, starts, portal, go, mem, history, bounds>>

-----------------------------------------------------------------------------
(* The runner.                                                              *)

(* The command of a step ends; a scan has written what it found.  A policy  *)
(* it cannot read is left out, one it cannot evaluate is an error, and only *)
(* a violation makes the command fail.                                      *)
ExecEnds(t, k) ==
    /\ exec[t][k] = "running"
    /\ \/ exec' = [exec EXCEPT ![t][k] = "failed"] /\ UNCHANGED output
       \/ /\ k # ScanStep(t)
          /\ exec' = [exec EXCEPT ![t][k] = "complete"] /\ UNCHANGED output
       \/ /\ k = ScanStep(t)
          /\ \E read \in SUBSET sent[t] : \E found \in [read -> Verdicts] :
                /\ output' = [output EXCEPT ![t] = found]
                /\ exec' = [exec EXCEPT ![t][k] =
                     IF \E p \in read : found[p] = "violated" THEN "violated" ELSE "complete"]
    /\ UNCHANGED <<envVars, rowVars, file, sent, marked, starts, portal, go, mem, history, bounds>>

(* StopTaskContainers.                                                      *)
Stopped(t) == [k \in 1..2 |-> IF exec[t][k] = "running" THEN "failed" ELSE exec[t][k]]

-----------------------------------------------------------------------------
(* The task manager: which tasks it runs.                                   *)

Busy(t) == \E g \in Goroutines : go[g].pc # "off" /\ go[g].task = t

Spawn(g, t, new) ==
    go' = [go EXCEPT ![g] = [NoGo EXCEPT !.pc = "begin", !.task = t, !.new = new]]

(* getPendingScanTasks, getPendingDeployTasks: one deployment at a time, any *)
(* number of scans.  Nothing marks a scan as taken before its goroutine has *)
(* written its status.                                                      *)
Pick(g, t) ==
    /\ portal = "up" /\ go[g].pc = "off"
    /\ IF Mirrors(t)
       THEN /\ rows[t].deploy = "pending"
            /\ \A u \in Tasks : Mirrors(u) => ~Busy(u)
       ELSE rows[t].status = "pending" /\ (SlowWrites \/ ~Busy(t))
    /\ Spawn(g, t, TRUE)
    /\ UNCHANGED <<envVars, rowVars, file, runVars, portal, mem, history, bounds>>

(* Variant: only the deployments are looked for.                            *)
LostDeploys(t) == ~Busy(t) /\ Mirrors(t) /\ rows[t].deploy = "running"

(* recoverTask: the tasks a dead portal was running.                        *)
Lost(t) == ~Busy(t) /\ (IF Mirrors(t) THEN rows[t].deploy ELSE rows[t].status) = "running"

Recover(g, t) ==
    /\ portal = "recover" /\ go[g].pc = "off" /\ Lost(t)
    /\ Spawn(g, t, FALSE)
    /\ UNCHANGED <<envVars, rowVars, file, runVars, portal, mem, history, bounds>>

Recovered ==
    /\ portal = "recover" /\ \A t \in Tasks : ~Lost(t)
    /\ portal' = "up"
    /\ UNCHANGED <<envVars, rowVars, file, runVars, go, mem, history, bounds>>

(* The portal dies and is started again; calls under way are rolled back.   *)
Down ==
    /\ portal' = "recover"
    /\ go' = [g \in Goroutines |-> NoGo]
    /\ mem' = [s \in Sessions |-> NoMem]
    /\ cut' = cut \union {go[g].task : g \in {h \in Goroutines :
                            go[h].pc = "results" /\ ~Mirrors(go[h].task)}}

Crash ==
    /\ Fault /\ \E g \in Goroutines : go[g].pc # "off"
    /\ Down
    /\ UNCHANGED <<envVars, rowVars, file, runVars, recorded, unstarted, panicked, edits>>

-----------------------------------------------------------------------------
(* doRunScanTask, doRunTask: the steps of a task.                           *)

To(g, pc) == go' = [go EXCEPT ![g].pc = pc]

(* changeTaskStatus to running, unless the task was started when it was     *)
(* read: an abort since then is undone.                                     *)
Begin(g) ==
    LET t == go[g].task IN
    /\ go[g].pc = "begin"
    /\ rows' = IF go[g].new
               THEN [rows EXCEPT ![t].status = "running",
                                 ![t].deploy = IF Mirrors(t) THEN "running" ELSE @]
               ELSE rows
    /\ env' = [env EXCEPT !.last = t]
    /\ To(g, "load")
    /\ UNCHANGED <<linked, hidden, steps, results, file, runVars, portal, mem, history, bounds>>

(* GetTaskSteps; for a deployment also the request, with its policies.      *)
Load(g) ==
    LET t == go[g].task IN
    /\ go[g].pc = "load"
    /\ go' = [go EXCEPT ![g].pc = "step", ![g].k = rows[t].curr, ![g].steps = steps[t],
                        ![g].policies = IF Mirrors(t) THEN Valid(env, linked, hidden) ELSE {}]
    /\ UNCHANGED <<envVars, rowVars, file, runVars, portal, mem, history, bounds>>

(* taskStartFailed: what has been read fails; the results are left alone    *)
(* and the task is not settled.                                             *)
StartFails(g) ==
    LET t == go[g].task IN
    /\ go[g].pc \in {"load", "step"} /\ Fault
    /\ rows' = [rows EXCEPT ![t].status = "failed",
                            ![t].policy = IF Mirrors(t) THEN @ ELSE "failed",
                            ![t].deploy = IF Mirrors(t) THEN "failed" ELSE @]
    /\ unstarted' = unstarted \union {t}
    /\ To(g, "off")
    /\ UNCHANGED <<envVars, steps, results, file, runVars, portal, mem, recorded, cut, panicked, edits>>

SetStep(g, status) ==
    steps' = [steps EXCEPT ![go[g].task][go[g].k] = status]

(* Variant: CurrStep is not advanced.                                       *)
StepAtFirst(g) ==
    LET t == go[g].task
        status == go[g].steps[go[g].k]
    IN  /\ go[g].pc = "step"
        /\ rows' = rows
        /\ IF status = "pending" THEN SetStep(g, "running") ELSE UNCHANGED steps
        /\ go' = [go EXCEPT
             ![g].pc = CASE status = "pending" -> "send"
                         [] status = "running" -> "wait"
                         [] OTHER -> IF go[g].k = 1 /\ Mirrors(t) THEN "done" ELSE "judge",
             ![g].policies = IF Mirrors(t) THEN @ ELSE Valid(env, linked, hidden)]
        /\ UNCHANGED <<envVars, results, file, runVars, portal, mem, history, bounds>>

(* The step as it was loaded: one that is pending is marked running and     *)
(* then started, one that runs is waited for, one that has ended is judged. *)
Step(g) ==
    LET t == go[g].task
        k == go[g].k
        status == go[g].steps[k]
    IN  /\ go[g].pc = "step"
        /\ rows' = [rows EXCEPT ![t].curr = k,
                      ![t].status = IF status = "pending" /\ ~Mirrors(t) THEN "running" ELSE @,
                      ![t].policy = IF status = "pending" /\ ~Mirrors(t) THEN "pending" ELSE @]
        /\ IF status = "pending" THEN SetStep(g, "running") ELSE UNCHANGED steps
        /\ go' = [go EXCEPT
             ![g].pc = CASE status = "pending" -> "send"
                         [] status = "running" -> "wait"
                         [] OTHER -> IF k = 1 /\ Mirrors(t) THEN "done" ELSE "judge",
             ![g].policies = IF Mirrors(t) THEN @ ELSE Valid(env, linked, hidden)]
        /\ UNCHANGED <<envVars, results, file, runVars, portal, mem, history, bounds>>

(* StartTaskStep.                                                           *)
Send(g) ==
    LET t == go[g].task
        k == go[g].k
    IN  /\ go[g].pc = "send"
        /\ exec' = [exec EXCEPT ![t][k] = "running"]
        /\ starts' = [starts EXCEPT ![t][k] = @ + 1]
        /\ sent' = IF k = ScanStep(t) THEN [sent EXCEPT ![t] = go[g].policies] ELSE sent
        /\ To(g, "wait")
        /\ UNCHANGED <<envVars, rowVars, file, output, marked, portal, mem, history, bounds>>

StepEnds(g, status) ==
    /\ SetStep(g, status)
    /\ go' = [go EXCEPT ![g].steps[go[g].k] = status,
                ![g].pc = IF go[g].k = 1 /\ Mirrors(go[g].task) THEN "done" ELSE "judge"]

SendFails(g) ==
    /\ go[g].pc = "send" /\ Fault
    /\ StepEnds(g, "failed")
    /\ UNCHANGED <<envVars, rows, results, file, runVars, portal, mem, history, edits>>

(* WaitTaskStep: the result file is stored, then the status; a task marked  *)
(* aborted is reported so, a step the runner does not know has failed.      *)
Wait(g) ==
    LET t == go[g].task
        state == exec[t][go[g].k]
    IN  /\ go[g].pc = "wait" /\ state # "running"
        /\ file' = IF go[g].k = ScanStep(t) THEN [file EXCEPT ![t] = output[t]] ELSE file
        /\ StepEnds(g, CASE t \in marked -> "aborted"
                         [] state = "none" -> "failed"
                         [] OTHER -> state)
        /\ UNCHANGED <<envVars, rows, results, runVars, portal, mem, history, bounds>>

(* The runner cannot be reached, or the deadline passes; or the result file *)
(* is not stored, which is only logged.                                     *)
WaitFails(g) ==
    LET t == go[g].task
        state == exec[t][go[g].k]
    IN  /\ go[g].pc = "wait" /\ Fault
        /\ \/ StepEnds(g, "failed") \/ StepEnds(g, "timeout")
           \/ /\ go[g].k = ScanStep(t) /\ state \in {"complete", "violated"} /\ t \notin marked
              /\ StepEnds(g, state)
        /\ UNCHANGED <<envVars, rows, results, file, runVars, portal, mem, history, edits>>

-----------------------------------------------------------------------------
(* What becomes of a step and of a task.                                    *)

(* ChangeScanTaskStatusWithStep: the status of a scan, and what it says of  *)
(* the environment's compliance; any other step status is a panic.          *)
Known(status) == status \in {"pending", "running", "complete", "failed", "violated", "timeout"}

StatusOf(status) == StepToTask(IF status = "violated" THEN "failed" ELSE status)

(* Variant: a scan that ran to its end has passed.                          *)
PolicyOfExit(status) == CASE status \in {"pending", "running"} -> "pending"
                          [] status \in {"complete", "violated"} -> "passed"
                          [] OTHER -> "failed"

PolicyOf(status) == CASE status \in {"pending", "running"} -> "pending"
                      [] status = "complete" -> "passed"
                      [] status = "violated" -> "violated"
                      [] OTHER -> "failed"

WithStep(t, status) ==
    rows' = [rows EXCEPT ![t].status = StatusOf(status), ![t].policy = PolicyOf(status)]

(* UpdateScanResult: a finding without a result row fails before anything   *)
(* is saved; rows the file does not mention have passed.                    *)
Unrecorded(t) == \E p \in DOMAIN file[t] : results[t][p] = "none"
Saved(t) ==
    [p \in Policies |-> IF p \in DOMAIN file[t] THEN file[t][p]
                        ELSE IF results[t][p] = "pending" THEN "passed" ELSE results[t][p]]

(* CleanScanResult.                                                         *)
Cleaned(t) == [p \in Policies |-> "none"]

(* processStepDone, first half: the mirror follows the scan step.           *)
StepDone(g) ==
    LET t == go[g].task IN
    /\ go[g].pc = "done"
    /\ IF Known(steps[t][1])
       THEN /\ WithStep(t, steps[t][1]) /\ To(g, "results")
            /\ UNCHANGED <<portal, mem, cut, panicked>>
       ELSE /\ panicked' = TRUE /\ Down /\ UNCHANGED rows
    /\ UNCHANGED <<envVars, steps, results, file, runVars, recorded, unstarted, bounds>>

(* Second half, and the end of processScanTaskDone: the results.  An error  *)
(* ends a deployment's steps as the failure of a step does.                 *)
Results(g) ==
    LET t == go[g].task
        next == IF ~Mirrors(t) THEN "off" ELSE "judge"
    IN  /\ go[g].pc = "results"
        /\ \/ /\ rows[t].policy \in {"passed", "violated"} /\ ~Unrecorded(t)
              /\ results' = [results EXCEPT ![t] = Saved(t)]
              /\ To(g, next)
           \/ /\ rows[t].policy \in {"passed", "violated"} /\ Unrecorded(t)
              /\ To(g, IF Mirrors(t) THEN "settle" ELSE "off")
              /\ UNCHANGED results
           \/ /\ rows[t].policy = "failed"
              /\ results' = [results EXCEPT ![t] = Cleaned(t)]
              /\ To(g, next)
           \/ /\ rows[t].policy = "pending"
              /\ To(g, next) /\ UNCHANGED results
        /\ UNCHANGED <<envVars, rows, steps, file, runVars, portal, mem, history, bounds>>

(* Variant: no scan stops a deployment.                                     *)
Tolerates(t) == TRUE

(* A scan that fails stops a deployment if the environment says so.         *)
Tolerated(t) == ~rows[t].stop

Judge(g) ==
    LET t == go[g].task
        k == go[g].k
        good == go[g].steps[k] = "complete" \/ (Mirrors(t) /\ k = 1 /\ Tolerated(t))
    IN  /\ go[g].pc = "judge"
        /\ go' = [go EXCEPT ![g].k = IF good /\ k = 1 THEN 2 ELSE k,
                            ![g].pc = IF good /\ k = 1 THEN "step" ELSE "settle"]
        /\ UNCHANGED <<envVars, rowVars, file, runVars, portal, mem, history, bounds>>

(* processTaskDone, processScanTaskDone up to the results: the container is *)
(* stopped, the task takes the status of the step CurrStep names.  A mirror *)
(* that no scan has settled is failed; its policy status is not written.    *)
Settle(g) ==
    LET t == go[g].task
        status == steps[t][rows[t].curr]
    IN  /\ go[g].pc = "settle"
        /\ IF Mirrors(t)
           THEN /\ rows' = [rows EXCEPT ![t].deploy = StatusOf(status),
                              ![t].status = IF rows[t].policy = "pending" THEN "failed" ELSE @]
                /\ To(g, "off")
           ELSE WithStep(t, status) /\ To(g, "results")
        /\ exec' = [exec EXCEPT ![t] = Stopped(t)]
        /\ UNCHANGED <<envVars, steps, results, file, output, sent, marked, starts, portal,
                       mem, history, bounds>>

Work(g) ==
    \/ Begin(g) \/ Load(g) \/ Step(g) \/ Send(g) \/ Wait(g)
    \/ StepDone(g) \/ Results(g) \/ Judge(g) \/ Settle(g)

Next ==
    \/ \E s \in Sessions : CallWrite(s) \/ \E c \in Calls : CallRead(s, c)
    \/ EnableScan \/ Link \/ Suppress
    \/ \E t \in Tasks : Abort(t) \/ \E k \in 1..2 : ExecEnds(t, k)
    \/ \E g \in Goroutines, t \in Tasks : Pick(g, t) \/ Recover(g, t)
    \/ Recovered \/ Crash
    \/ \E g \in Goroutines : Work(g) \/ StartFails(g) \/ SendFails(g) \/ WaitFails(g)

Spec == Init /\ [][Next]_vars

(* Goroutines are scheduled, the main loop comes round, commands end.       *)
Fairness ==
    /\ \A g \in Goroutines : WF_vars(Work(g))
    /\ WF_vars(\E g \in Goroutines, t \in Tasks : Pick(g, t) \/ Recover(g, t))
    /\ WF_vars(Recovered)
    /\ \A t \in 1..MaxTasks, k \in 1..2 : WF_vars(t \in Tasks /\ ExecEnds(t, k))

FairSpec == Spec /\ Fairness

-----------------------------------------------------------------------------
(* Properties.                                                              *)

Row == [kind : {"scan", "deploy"}, status : TaskStatuses, policy : PolicyStatuses,
        curr : 1..2, stop : BOOLEAN, deploy : TaskStatuses \union {"none"}]
ScanStepStatuses == StepStatuses \union {"violated"}
Findings == UNION {[S -> Verdicts] : S \in SUBSET Policies}

(* The rows of the database and of the runner have the shapes declared, and *)
(* there is one of each for every task.                                     *)
TypeOK ==
    /\ env \in [enabled : BOOLEAN, stop : BOOLEAN, last : 0..Len(rows)]
    /\ linked \subseteq Policies /\ hidden \subseteq Policies
    /\ rows \in Seq(Row)
    /\ \A t \in Tasks :
         /\ steps[t] \in [1..2 -> ScanStepStatuses]
         /\ exec[t] \in [1..2 -> {"none", "running", "complete", "failed", "violated"}]
         /\ results[t] \in [Policies -> PolicyStatuses \union {"none", "suppressed"}]
         /\ file[t] \in Findings /\ output[t] \in Findings
         /\ sent[t] \subseteq Policies /\ recorded[t] \subseteq Policies
         /\ Mirrors(t) <=> rows[t].deploy # "none"
    /\ \A g \in Goroutines : go[g].pc # "off" => go[g].task \in Tasks

Over(t) == TaskExited(IF Mirrors(t) THEN rows[t].deploy ELSE rows[t].status)
Quiet(t) == portal = "up" /\ ~Busy(t) /\ Over(t)

(* A deployment of an environment that stops on violations applies nothing  *)
(* unless its scan completed and found none, whatever dies on the way.      *)
StopsOnViolation ==
    \A t \in Tasks : Mirrors(t) /\ rows[t].stop /\ starts[t][2] > 0 =>
        exec[t][1] = "complete" /\ \A p \in DOMAIN output[t] : output[t][p] # "violated"

(* A deployment is complete only if its apply step was: the one exception   *)
(* is a finding for which no result row was made.                           *)
CompleteMeansApplied ==
    \A t \in Tasks : Mirrors(t) /\ rows[t].deploy = "complete" =>
        exec[t][2] = "complete" \/ Unrecorded(t)

(* What a scan says as a whole agrees with what it says of each policy: a   *)
(* pass has no violation among its results, a violation has one unless the  *)
(* result file was lost, a failed scan leaves no result, and none stays     *)
(* pending but those of a scan that was never started.  This is so once the *)
(* task is over, unless its start failed, the portal died before it saved   *)
(* the results, or the scan found a policy that had no row.                 *)
ResultsAgree ==
    \A t \in Tasks \ (unstarted \union cut) : Quiet(t) /\ ~Unrecorded(t) =>
        LET Some(r) == \E p \in Policies : results[t][p] = r IN
        /\ CASE rows[t].policy = "violated" -> Some("violated") \/ file[t] = Nothing
             [] rows[t].policy = "failed" -> \A p \in Policies : results[t][p] = "none"
             [] OTHER -> ~Some("violated")
        /\ Some("pending") => steps[t][ScanStep(t)] = "pending"

(* A violation shown for a policy is one the scan of this task found.       *)
ViolationIsReal ==
    \A t \in Tasks : \A p \in Policies : results[t][p] = "violated" =>
        p \in sent[t] /\ p \in DOMAIN output[t] /\ output[t][p] = "violated"

(* Every scan and every deployment ends, through deaths of the portal and   *)
(* lost answers, unless the portal meets a status it does not know.         *)
EveryTaskEnds ==
    \A t \in 1..MaxTasks : t \in Tasks ~> panicked \/ (t \in Tasks /\ Over(t))

(* ChangeScanTaskStatusWithStep panics on a step status that is not listed: *)
(* a process that drives the tasks never meets one.                         *)
NoInvalidStatus == ~panicked

(* processStartStep says that a failed scan does not affect the deployment: *)
(* where violations are tolerated, a deployment goes on to its apply step   *)
(* once the scan has ended, unless it is aborted or something is lost.      *)
ToleratedGoesOn ==
    \A t \in Tasks : Mirrors(t) /\ ~rows[t].stop /\ rows[t].deploy \in {"complete", "failed"}
                     /\ t \notin unstarted /\ StepExited(steps[t][1]) =>
        steps[t][2] # "pending"
=============================================================================
