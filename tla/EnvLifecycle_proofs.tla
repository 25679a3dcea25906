------------------------ MODULE EnvLifecycle_proofs ------------------------
(***************************************************************************)
(* Theorems of EnvLifecycle: its types, that a lock lets at most one task  *)
(* of the portal through, and that the marks of the environment name every *)
(* automatic task that is not over, for any number of users, calls, forms, *)
(* times and failures.                                                     *)
(***************************************************************************)
EXTENDS EnvLifecycle, SequenceTheorems, TLAPS

USE EnvLifecycleAssumption

TaskRow == [type : TaskTypes, source : Sources, status : {"pending", "running", "over"}]
Worker == [task : Nat,
           phase : {"idle", "enter", "run", "destroy", "saveDestroy", "deploy", "saveDeploy"},
           clear : BOOLEAN, arm : BOOLEAN]
Memory == [read : EnvRow, row : EnvRow, form : Form]

-----------------------------------------------------------------------------
(* What the helpers return.                                                 *)

(* Setting a time or a drift setting keeps a row a row, and its marks.      *)
LEMMA SetDestroyType ==
  ASSUME NEW row \in EnvRow, NEW f \in {"keep", "at", "ttl", "off", "cron"}, NEW status
  PROVE  /\ SetDestroy(row, f, status) \in EnvRow
         /\ SetDestroy(row, f, status).destroyTask = row.destroyTask
         /\ SetDestroy(row, f, status).deployTask = row.deployTask
         /\ SetDestroy(row, f, status).locked = row.locked
  BY DEF SetDestroy, EnvRow, Times

LEMMA SetDeployType ==
  ASSUME NEW row \in EnvRow, NEW f \in {"keep", "at", "cron"}
  PROVE  /\ SetDeploy(row, f) \in EnvRow
         /\ SetDeploy(row, f).destroyTask = row.destroyTask
         /\ SetDeploy(row, f).deployTask = row.deployTask
         /\ SetDeploy(row, f).locked = row.locked
  BY DEF SetDeploy, EnvRow, Times

LEMMA SetDriftType ==
  ASSUME NEW row \in EnvRow, NEW f \in {"keep", "off", "plan", "apply"}
  PROVE  /\ SetDrift(row, f) \in EnvRow
         /\ SetDrift(row, f).destroyTask = row.destroyTask
         /\ SetDrift(row, f).deployTask = row.deployTask
         /\ SetDrift(row, f).locked = row.locked
  BY DEF SetDrift, EnvRow, Times

(* An edit keeps the marks and the lock.                                    *)
LEMMA EditedType ==
  ASSUME NEW row \in EnvRow, NEW f \in Form, NEW status
  PROVE  /\ Edited(row, f, status) \in EnvRow
         /\ Edited(row, f, status).destroyTask = row.destroyTask
         /\ Edited(row, f, status).deployTask = row.deployTask
         /\ Edited(row, f, status).locked = row.locked
<1> DEFINE cut == IF f.destroy \in {"at", "ttl", "off"}
                  THEN [row EXCEPT !.deployAt = "none", !.deployCron = FALSE] ELSE row
           off == IF f.drift \in {"keep", "off"}
                  THEN [cut EXCEPT !.drift = "off", !.driftAt = "none"] ELSE SetDrift(cut, f.drift)
           mid == SetDestroy(off, f.destroy, status)
           set == SetDeploy(mid, f.deploy)
<1>1. /\ cut \in EnvRow
      /\ cut.destroyTask = row.destroyTask /\ cut.deployTask = row.deployTask
      /\ cut.locked = row.locked
  <2>1. LET r == [row EXCEPT !.deployAt = "none", !.deployCron = FALSE]
        IN  /\ r \in EnvRow /\ r.destroyTask = row.destroyTask
            /\ r.deployTask = row.deployTask /\ r.locked = row.locked
    BY DEF EnvRow, Times
  <2> QED BY <2>1, Zenon
<1>2. /\ off \in EnvRow /\ off.locked = cut.locked
      /\ off.destroyTask = cut.destroyTask /\ off.deployTask = cut.deployTask
  <2> HIDE DEF cut
  <2>1. LET r == [cut EXCEPT !.drift = "off", !.driftAt = "none"]
        IN  /\ r \in EnvRow /\ r.destroyTask = cut.destroyTask
            /\ r.deployTask = cut.deployTask /\ r.locked = cut.locked
    BY <1>1 DEF EnvRow, Times
  <2>2. f.drift \in {"keep", "off", "plan", "apply"}
    BY DEF Form
  <2> QED BY <1>1, <2>1, <2>2, SetDriftType, Zenon
<1>3. /\ mid \in EnvRow /\ mid.locked = off.locked
      /\ mid.destroyTask = off.destroyTask /\ mid.deployTask = off.deployTask
  <2> HIDE DEF off
  <2> QED BY <1>2, SetDestroyType DEF Form
<1>4. /\ set \in EnvRow /\ set.locked = mid.locked
      /\ set.destroyTask = mid.destroyTask /\ set.deployTask = mid.deployTask
  <2> HIDE DEF mid
  <2> QED BY <1>3, SetDeployType DEF Form
<1>5. Edited(row, f, status) = [set EXCEPT !.archived = @ \/ f.archive]
  BY Zenon DEF Edited
<1>6. (set.archived \/ f.archive) \in BOOLEAN
  BY Zenon
<1> HIDE DEF set, mid, off, cut
<1>7. ASSUME NEW a \in BOOLEAN
      PROVE  /\ [set EXCEPT !.archived = a] \in EnvRow
             /\ [set EXCEPT !.archived = a].destroyTask = set.destroyTask
             /\ [set EXCEPT !.archived = a].deployTask = set.deployTask
             /\ [set EXCEPT !.archived = a].locked = set.locked
  BY <1>4 DEF EnvRow
<1>8. Edited(row, f, status) = [set EXCEPT !.archived = set.archived \/ f.archive]
  BY <1>5
<1> QED BY <1>1, <1>2, <1>3, <1>4, <1>6, <1>7, <1>8

(* A form makes a row.                                                      *)
LEMMA CreatedType ==
  ASSUME NEW f \in Form
  PROVE  Created(f) \in EnvRow /\ Created(f).destroyTask = 0 /\ Created(f).deployTask = 0
  BY DEF Created, EnvRow, Form, Times, EnvStatuses

LEMMA NothingType == Nothing \in Memory
<1>1. NoForm \in Form
  BY DEF NoForm, Form, TaskTypes
<1> QED BY <1>1, CreatedType DEF Nothing, Memory

(* A task moves only the status columns of its environment.                 *)
LEMMA FollowType ==
  ASSUME NEW row \in EnvRow, NEW type \in TaskTypes, NEW touched \in BOOLEAN,
         NEW status \in {"running", "complete", "failed", "aborted", "rejected"}
  PROVE  /\ Follow(row, type, status, touched) \in EnvRow
         /\ Follow(row, type, status, touched).destroyTask = row.destroyTask
         /\ Follow(row, type, status, touched).deployTask = row.deployTask
         /\ Follow(row, type, status, touched).locked = row.locked
<1> DEFINE before == [status |-> row.status, taskStatus |-> row.taskStatus,
                      deploying |-> row.deploying]
           after == EnvAfter(before, type, status, touched)
<1>1. /\ after.status \in EnvStatuses /\ after.taskStatus \in {"", "running", "approving"}
      /\ after.deploying \in BOOLEAN
  BY DEF EnvAfter, EnvRow, EnvStatuses, TaskExited, TaskStarted, IsEffectTask
<1>2. Follow(row, type, status, touched) =
        [row EXCEPT !.status = after.status, !.taskStatus = after.taskStatus,
                    !.deploying = after.deploying]
  BY Zenon DEF Follow
<1> HIDE DEF after
<1>3. PICK st \in EnvStatuses, ts \in {"", "running", "approving"}, d \in BOOLEAN :
        Follow(row, type, status, touched) =
          [row EXCEPT !.status = st, !.taskStatus = ts, !.deploying = d]
  BY <1>1, <1>2, Zenon
<1> DEFINE moved == [row EXCEPT !.status = st, !.taskStatus = ts, !.deploying = d]
<1>4. /\ moved \in EnvRow /\ moved.locked = row.locked
      /\ moved.destroyTask = row.destroyTask /\ moved.deployTask = row.deployTask
  BY DEF EnvRow
<1> HIDE DEF moved
<1>5. Follow(row, type, status, touched) = moved
  BY <1>3 DEF moved
<1> QED BY <1>4, <1>5

(* Time passes in the columns of times only.                                *)
LEMMA PassedType ==
  ASSUME NEW row \in EnvRow, NEW column \in {"destroyAt", "deployAt", "driftAt"}
  PROVE  /\ Passed(row, column) \in EnvRow
         /\ Passed(row, column).destroyTask = row.destroyTask
         /\ Passed(row, column).deployTask = row.deployTask
         /\ Passed(row, column).locked = row.locked
<1>1. Passed(row, "destroyAt") = [row EXCEPT !.destroyAt = IF @ = "later" THEN "due" ELSE @]
  BY DEF Passed, EnvRow
<1>2. Passed(row, "deployAt") = [row EXCEPT !.deployAt = IF @ = "later" THEN "due" ELSE @]
  BY DEF Passed, EnvRow
<1>3. Passed(row, "driftAt") = [row EXCEPT !.driftAt = IF @ = "later" THEN "due" ELSE @]
  BY DEF Passed, EnvRow
<1>4. CASE column = "destroyAt"
  BY <1>1, <1>4 DEF EnvRow, Times
<1>5. CASE column = "deployAt"
  BY <1>2, <1>5 DEF EnvRow, Times
<1>6. CASE column = "driftAt"
  BY <1>3, <1>6 DEF EnvRow, Times
<1> QED BY <1>4, <1>5, <1>6

(* Rows are appended, and their status changes in place.                    *)
LEMMA OverType ==
  ASSUME NEW s \in Seq(TaskRow), NEW t \in DOMAIN s,
         NEW status \in {"pending", "running", "over"}
  PROVE  /\ [s EXCEPT ![t].status = status] \in Seq(TaskRow)
         /\ DOMAIN [s EXCEPT ![t].status = status] = DOMAIN s
<1> DEFINE row == [s[t] EXCEPT !.status = status]
<1>1. row \in TaskRow
  <2>1. s[t] \in TaskRow
    BY LenProperties
  <2> QED BY <2>1 DEF TaskRow
<1>2. [s EXCEPT ![t].status = status] = [s EXCEPT ![t] = row]
  OBVIOUS
<1> HIDE DEF row
<1> QED BY <1>1, <1>2, ExceptSeq

LEMMA AppendType ==
  ASSUME NEW s \in Seq(TaskRow), NEW type \in TaskTypes, NEW source \in Sources
  PROVE  /\ Append(s, NewTask(type, source)) \in Seq(TaskRow)
         /\ DOMAIN s \subseteq DOMAIN Append(s, NewTask(type, source))
<1>1. NewTask(type, source) \in TaskRow
  BY DEF NewTask, TaskRow
<1> DEFINE u == Append(s, NewTask(type, source))
<1>2. u \in Seq(TaskRow) /\ Len(u) = Len(s) + 1
  BY <1>1, AppendProperties
<1> HIDE DEF u
<1>3. DOMAIN s = 1..Len(s) /\ DOMAIN u = 1..Len(u) /\ Len(s) \in Nat
  BY <1>2, LenProperties
<1>4. DOMAIN s \subseteq DOMAIN u
  BY <1>2, <1>3
<1> QED BY <1>2, <1>4 DEF u

-----------------------------------------------------------------------------
(* Types.                                                                   *)

(* Drift is looked for only where the setting read asks for it: TypeOK does *)
(* not follow from itself without that, since "off" is no type of task.     *)
SeenSet == loop \in {"findDrift", "createDrift"} => seen # "off"

(* What is held in the rows and by the processes, by name.                  *)
LEMMA TypeFacts ==
  ASSUME TypeOK
  PROVE  /\ tasks \in Seq(TaskRow) /\ DOMAIN tasks \subseteq Nat \ {0}
         /\ worker \in Worker /\ mem \in [Sessions -> Memory]
         /\ \A t \in DOMAIN tasks : tasks[t] \in TaskRow
         /\ Len(tasks) \in Nat
<1>1. tasks \in Seq(TaskRow) /\ worker \in Worker /\ mem \in [Sessions -> Memory]
  BY DEF TypeOK, TaskRow, Worker, Memory
<1> HIDE DEF TaskRow
<1> QED BY <1>1, LenProperties

LEMMA TypeInit == Init => TypeOK
<1> SUFFICES ASSUME Init PROVE TypeOK
  OBVIOUS
<1>1. PICK f \in Creations : env = Created(f) /\ tasks = <<NewTask(f.type, "user")>>
  BY DEF Init
<1>2. f \in Form /\ env \in EnvRow
  BY <1>1, CreatedType
<1>3. tasks \in Seq(TaskRow)
  <2>1. NewTask(f.type, "user") \in TaskRow
    BY <1>2 DEF NewTask, TaskRow, Form, Sources
  <2> HIDE DEF TaskRow
  <2> QED BY <1>1, <2>1
<1>4. mem \in [Sessions -> Memory]
  BY NothingType DEF Init
<1>5. worker \in Worker /\ worker.phase = "idle"
  BY DEF Init, NoWork, Worker
<1>6. at \in [Sessions -> {"idle", "deploy", "update", "lock", "drift", "done"}]
  BY DEF Init
<1>7. /\ loop = "destroy" /\ seen = "off" /\ stale = FALSE /\ skipped = FALSE
      /\ sinceLock = 0 /\ ticks = 0 /\ failures = 0
  BY DEF Init
<1> QED BY <1>2, <1>3, <1>4, <1>5, <1>6, <1>7 DEF TypeOK, TaskRow, Worker, Memory

(* A row of the environment that changes, all else as it was.               *)
LEMMA TypeEnv ==
  ASSUME TypeOK, env' \in EnvRow, NEW s \in Sessions,
         UNCHANGED <<tasks, loopVars, worker, stale, skipped, bounds>>,
         sinceLock' \in Nat, Return(s)
  PROVE  TypeOK'
<1>1. mem' \in [Sessions -> Memory]
  BY TypeFacts, NothingType DEF Return
<1> QED BY <1>1 DEF TypeOK, loopVars, bounds, Return, Goto, Memory

(* A call that takes the row, or the row it means to write.                 *)
LEMMA TypeHold ==
  ASSUME TypeOK, NEW s \in Sessions, NEW row \in EnvRow, NEW f \in Form,
         NEW label \in {"deploy", "update", "drift"},
         Hold(s, env, row, f), Goto(s, label),
         UNCHANGED <<rowVars, loopVars, worker, history, bounds>>
  PROVE  TypeOK'
<1>1. mem' \in [Sessions -> Memory]
  BY TypeFacts DEF Hold, Memory, TypeOK
<1>2. at' \in [Sessions -> {"idle", "deploy", "update", "lock", "drift", "done"}]
  BY DEF Goto, TypeOK
<1> HIDE DEF Hold
<1> QED BY <1>1, <1>2 DEF TypeOK, rowVars, loopVars, history, bounds, Memory

(* A call that appends a task, and may write the row.                       *)
LEMMA TypeCreate ==
  ASSUME TypeOK, NEW s \in Sessions, NEW type \in TaskTypes, NEW source \in Sources,
         tasks' = Append(tasks, NewTask(type, source)), env' \in EnvRow, Return(s),
         stale' \in BOOLEAN, sinceLock' \in Nat,
         UNCHANGED <<loopVars, worker, skipped, bounds>>
  PROVE  TypeOK'
<1>1. mem' \in [Sessions -> Memory]
  BY TypeFacts, NothingType DEF Return
<1>2. tasks' \in Seq(TaskRow) /\ DOMAIN tasks \subseteq DOMAIN tasks'
  BY TypeFacts, AppendType
<1> QED BY <1>1, <1>2 DEF TypeOK, loopVars, bounds, Return, Goto, Memory, TaskRow

LEMMA TypeCall ==
  ASSUME TypeOK, NEW s \in Sessions, Call(s)
  PROVE  TypeOK'
<1> USE TypeFacts
<1>1. mem[s] \in Memory /\ mem[s].row \in EnvRow /\ mem[s].form \in Form /\ env \in EnvRow
  BY DEF Memory, TypeOK
<1>2. CASE DeployRead(s)
  <2>1. PICK f \in Forms :
          Hold(s, env, SetDrift(SetDeploy(SetDestroy(env, f.destroy, env.status), f.deploy),
                                f.drift), f)
    BY <1>2 DEF DeployRead
  <2>2. f \in Form /\ f.destroy \in {"keep", "at", "ttl", "off", "cron"}
        /\ f.deploy \in {"keep", "at", "cron"} /\ f.drift \in {"keep", "off", "plan", "apply"}
    BY DEF Form
  <2>3. SetDrift(SetDeploy(SetDestroy(env, f.destroy, env.status), f.deploy), f.drift) \in EnvRow
    BY <1>1, <2>2, SetDestroyType, SetDeployType, SetDriftType
  <2> QED BY <1>2, <2>1, <2>2, <2>3, TypeHold DEF DeployRead
<1>3. CASE DeployWrite(s)
  <2>1. mem[s].form.type \in TaskTypes /\ "user" \in Sources
    BY <1>1 DEF Form, Sources
  <2>2. stale' \in BOOLEAN
    BY <1>3, Zenon DEF DeployWrite
  <2>3. sinceLock' \in Nat
    BY <1>3 DEF DeployWrite, TypeOK
  <2> QED BY <1>1, <1>3, <2>1, <2>2, <2>3, TypeCreate DEF DeployWrite
<1>4. CASE UpdateRead(s)
  <2>1. PICK f \in Forms : Hold(s, env, env, f)
    BY <1>4 DEF UpdateRead
  <2> QED BY <1>1, <1>4, <2>1, TypeHold DEF UpdateRead
<1>5. CASE UpdateWrite(s)
  <2>1. env' \in EnvRow
    BY <1>1, <1>5, EditedType DEF UpdateWrite
  <2> QED BY <1>5, <2>1, TypeEnv DEF UpdateWrite, history, TypeOK
<1>6. CASE LockRead(s)
  BY <1>6 DEF LockRead, TypeOK, rowVars, loopVars, history, bounds, Goto
<1>7. CASE LockWrite(s)
  <2>1. env' \in EnvRow
    BY <1>1, <1>7 DEF LockWrite, EnvRow
  <2>2. sinceLock' \in Nat
    BY <1>7 DEF LockWrite, TypeOK
  <2> QED BY <1>7, <2>1, <2>2, TypeEnv DEF LockWrite
<1>8. CASE Unlock(s)
  <2>1. /\ [env EXCEPT !.locked = FALSE] \in EnvRow
        /\ [env EXCEPT !.locked = FALSE, !.destroyAt = "none", !.ttl = FALSE] \in EnvRow
    BY <1>1 DEF EnvRow, Times
  <2>2. env' \in EnvRow
    BY <1>8, <2>1, Zenon DEF Unlock
  <2> QED BY <1>8, <2>2, TypeEnv DEF Unlock
<1>9. CASE DriftRead(s)
  <2>1. PICK type \in {"plan", "apply"} : Hold(s, env, env, [NoForm EXCEPT !.type = type])
    BY <1>9 DEF DriftRead
  <2>2. [NoForm EXCEPT !.type = type] \in Form
    BY DEF NoForm, Form, TaskTypes
  <2> QED BY <1>1, <1>9, <2>1, <2>2, TypeHold DEF DriftRead
<1>10. CASE DriftWrite(s)
  <2>1. mem[s].form.type \in TaskTypes /\ "drift" \in Sources
    BY <1>1 DEF Form, Sources
  <2> QED BY <1>1, <1>10, <2>1, TypeCreate DEF DriftWrite, history, TypeOK
<1>11. CASE Abort(s)
  <2>1. PICK t \in Pending : tasks' = OverTask(t) /\ skipped' = (skipped \/ tasks[t].source # "user")
    BY <1>11 DEF Abort
  <2>2. tasks' \in Seq(TaskRow) /\ DOMAIN tasks' = DOMAIN tasks
    BY <2>1, OverType DEF OverTask, Pending
  <2>3. skipped' \in BOOLEAN
    BY <2>1, Zenon
  <2>4. mem' \in [Sessions -> Memory]
    BY <1>11, NothingType DEF Abort, Return
  <2> QED BY <1>11, <2>2, <2>3, <2>4 DEF Abort, TypeOK, loopVars, bounds, Return, Goto, TaskRow, Memory
<1>12. CASE CallFails(s)
  BY <1>1, <1>12, TypeEnv DEF CallFails, rowVars, history, TypeOK
<1> QED BY <1>2, <1>3, <1>4, <1>5, <1>6, <1>7, <1>8, <1>9, <1>10, <1>11, <1>12 DEF Call

(* The steps of the main loop.                                              *)
LEMMA TypeAutoCreate ==
  ASSUME TypeOK, NEW type \in TaskTypes, NEW source \in Sources, AutoCreate(type, source)
  PROVE  /\ tasks' \in Seq(TaskRow) /\ DOMAIN tasks \subseteq DOMAIN tasks'
         /\ sinceLock' \in Nat /\ stale' \in BOOLEAN /\ skipped' \in BOOLEAN
<1>1. tasks' \in Seq(TaskRow) /\ DOMAIN tasks \subseteq DOMAIN tasks'
  BY TypeFacts, AppendType DEF AutoCreate
<1> QED BY <1>1 DEF AutoCreate, TypeOK

LEMMA TypeRound ==
  ASSUME TypeOK, SeenSet, Round \/ CreateFails
  PROVE  TypeOK'
<1> USE TypeFacts DEF rowVars, callVars, history, bounds
<1>1. CASE ListDestroy
  BY <1>1 DEF ListDestroy, TypeOK
<1>2. CASE CreateDestroy
  <2>1. /\ tasks' \in Seq(TaskRow) /\ DOMAIN tasks \subseteq DOMAIN tasks'
        /\ sinceLock' \in Nat /\ stale' \in BOOLEAN /\ skipped' \in BOOLEAN
    BY <1>2, TypeAutoCreate DEF CreateDestroy, TaskTypes, Sources
  <2>2. env' \in EnvRow
    <3>1. \A n \in Nat : [env EXCEPT !.destroyTask = n] \in EnvRow
      BY DEF TypeOK, EnvRow
    <3>2. Len(tasks) + 1 \in Nat
      BY TypeFacts
    <3> QED BY <1>2, <3>1, <3>2, Zenon DEF CreateDestroy
  <2> QED BY <1>2, <2>1, <2>2 DEF CreateDestroy, TypeOK, TaskRow
<1>3. CASE ListDeploy
  BY <1>3 DEF ListDeploy, TypeOK
<1>4. CASE CreateDeploy
  <2>1. /\ tasks' \in Seq(TaskRow) /\ DOMAIN tasks \subseteq DOMAIN tasks'
        /\ sinceLock' \in Nat /\ stale' \in BOOLEAN /\ skipped' \in BOOLEAN
    BY <1>4, TypeAutoCreate DEF CreateDeploy, TaskTypes, Sources
  <2>2. env' \in EnvRow
    <3>1. \A n \in Nat : [env EXCEPT !.deployTask = n] \in EnvRow
      BY DEF TypeOK, EnvRow
    <3>2. Len(tasks) + 1 \in Nat
      BY TypeFacts
    <3> QED BY <1>4, <3>1, <3>2, Zenon DEF CreateDeploy
  <2> QED BY <1>4, <2>1, <2>2 DEF CreateDeploy, TypeOK, TaskRow
<1>5. CASE Dispatch
  <2>1. worker' \in Worker /\ (worker'.phase # "idle" => worker'.task \in DOMAIN tasks)
    <3>1. CASE UNCHANGED worker
      BY <3>1 DEF TypeOK
    <3>2. ASSUME NEW t \in Pending, worker' = [NoWork EXCEPT !.task = t, !.phase = "enter"]
          PROVE  worker' \in Worker /\ worker'.task \in DOMAIN tasks
      BY <3>2 DEF NoWork, Worker, Pending
    <3> QED BY <1>5, <3>1, <3>2 DEF Dispatch
  <2> QED BY <1>5, <2>1 DEF Dispatch, TypeOK, Worker
<1>6. CASE ListDrift
  <2>1. env.drift \in {"off", "plan", "apply"}
    BY DEF TypeOK, EnvRow
  <2> QED BY <1>6, <2>1 DEF ListDrift, TypeOK
<1>7. CASE FindDrift
  BY <1>7 DEF FindDrift, TypeOK
<1>8. CASE CreateDrift
  <2>1. /\ tasks' \in Seq(TaskRow) /\ DOMAIN tasks \subseteq DOMAIN tasks'
        /\ sinceLock' \in Nat /\ stale' \in BOOLEAN /\ skipped' \in BOOLEAN
    <3>1. seen \in TaskTypes /\ "drift" \in Sources
      BY <1>8 DEF CreateDrift, SeenSet, TypeOK, TaskTypes, Sources
    <3> QED BY <1>8, <3>1, TypeAutoCreate DEF CreateDrift
  <2> QED BY <1>8, <2>1 DEF CreateDrift, TypeOK, TaskRow
<1>9. CASE NextDrift
  <2>1. env' \in EnvRow
    BY <1>9 DEF NextDrift, TypeOK, EnvRow, Times
  <2> QED BY <1>9, <2>1 DEF NextDrift, TypeOK
<1>10. CASE CreateFails
  BY <1>10 DEF CreateFails, TypeOK
<1> QED BY <1>1, <1>2, <1>3, <1>4, <1>5, <1>6, <1>7, <1>8, <1>9, <1>10 DEF Round

(* The steps of the goroutine of a task.                                    *)
LEMMA TypeWork ==
  ASSUME TypeOK, Work \/ StartFails
  PROVE  TypeOK'
<1> USE TypeFacts DEF rowVars, loopVars, callVars, history, bounds
<1> DEFINE t == tasks[worker.task]
<1>1. worker.phase # "idle" /\ worker.task \in DOMAIN tasks /\ t \in TaskRow
      /\ t.type \in TaskTypes
  <2>1. worker.phase # "idle"
    BY DEF Work, Enter, End, ReadDestroy, SaveDestroy, ReadDeploy, SaveDeploy, StartFails
  <2>2. worker.task \in DOMAIN tasks
    BY <2>1 DEF TypeOK
  <2> QED BY <2>1, <2>2 DEF TaskRow
<1>2. ASSUME NEW status \in {"running", "over"}
      PROVE  LET ts == [tasks EXCEPT ![worker.task].status = status]
             IN  ts \in Seq(TaskRow) /\ DOMAIN ts = DOMAIN tasks
  BY <1>1, OverType
<1>3. NoWork \in Worker /\ NoWork.phase = "idle"
  BY DEF NoWork, Worker
<1>4. CASE Enter
  <2>1. env' \in EnvRow
    BY <1>1, <1>4, FollowType DEF Enter, TypeOK
  <2>2. tasks' \in Seq(TaskRow) /\ DOMAIN tasks' = DOMAIN tasks
    BY <1>2, <1>4 DEF Enter
  <2>3. worker' \in Worker /\ worker'.task \in DOMAIN tasks'
    BY <1>1, <1>4, <2>2 DEF Enter, Worker
  <2> QED BY <1>4, <2>1, <2>2, <2>3 DEF Enter, TypeOK, TaskRow, Worker
<1>5. CASE StartFails
  <2>1. env' \in EnvRow
    BY <1>1, <1>5, FollowType DEF StartFails, TypeOK
  <2>2. tasks' \in Seq(TaskRow) /\ DOMAIN tasks' = DOMAIN tasks
    BY <1>2, <1>5 DEF StartFails, OverTask
  <2>3. skipped' \in BOOLEAN
    BY <1>5, Zenon DEF StartFails
  <2>4. worker' = NoWork /\ failures' \in Nat
    BY <1>5 DEF StartFails, TypeOK
  <2> HIDE DEF t
  <2> QED BY <1>3, <1>5, <2>1, <2>2, <2>3, <2>4 DEF StartFails, TypeOK, TaskRow, Worker
<1>6. CASE End
  <2>1. PICK status \in {"complete", "failed", "aborted", "rejected"}, touched \in BOOLEAN :
           /\ tasks' = OverTask(worker.task)
           /\ env' = Follow(env, t.type, status, touched)
           /\ worker' \in {[worker EXCEPT !.phase = "destroy"], NoWork}
    BY <1>6 DEF End
  <2>2. env' \in EnvRow
    BY <1>1, <2>1, FollowType DEF TypeOK
  <2>3. tasks' \in Seq(TaskRow) /\ DOMAIN tasks' = DOMAIN tasks
    BY <1>2, <2>1 DEF OverTask
  <2>4. worker' \in Worker /\ (worker'.phase # "idle" => worker'.task \in DOMAIN tasks')
    BY <1>1, <1>3, <2>1, <2>3 DEF Worker
  <2> QED BY <1>6, <2>2, <2>3, <2>4 DEF End, TypeOK, TaskRow, Worker
<1>7. CASE ReadDestroy
  <2>1. worker' \in Worker /\ worker'.task = worker.task
    <3>1. ASSUME NEW a, NEW b, a \in BOOLEAN, b \in BOOLEAN
          PROVE  LET w == [worker EXCEPT !.phase = "saveDestroy", !.clear = a, !.arm = b]
                 IN  w \in Worker /\ w.task = worker.task
      BY <3>1 DEF Worker
    <3> QED BY <1>7, <3>1, Zenon DEF ReadDestroy
  <2> QED BY <1>1, <1>7, <2>1 DEF ReadDestroy, TypeOK, Worker
<1>8. CASE SaveDestroy
  <2>1. env' \in EnvRow
    BY <1>8 DEF SaveDestroy, TypeOK, EnvRow, Times
  <2>2. worker' \in Worker /\ worker'.task = worker.task
    BY <1>8 DEF SaveDestroy, NoWork, Worker
  <2> QED BY <1>1, <1>8, <2>1, <2>2 DEF SaveDestroy, TypeOK, Worker
<1>9. CASE ReadDeploy
  <2>1. worker' \in Worker /\ worker'.task = worker.task
    <3>1. ASSUME NEW a, NEW b, a \in BOOLEAN, b \in BOOLEAN
          PROVE  LET w == [worker EXCEPT !.phase = "saveDeploy", !.clear = a, !.arm = b]
                 IN  w \in Worker /\ w.task = worker.task
      BY <3>1 DEF Worker
    <3> QED BY <1>9, <3>1, Zenon DEF ReadDeploy
  <2> QED BY <1>1, <1>9, <2>1 DEF ReadDeploy, TypeOK, Worker
<1>10. CASE SaveDeploy
  <2>1. env' \in EnvRow
    BY <1>10 DEF SaveDeploy, TypeOK, EnvRow, Times
  <2> QED BY <1>3, <1>10, <2>1 DEF SaveDeploy, TypeOK, Worker
<1> QED BY <1>4, <1>5, <1>6, <1>7, <1>8, <1>9, <1>10 DEF Work

LEMMA TypeTick ==
  ASSUME TypeOK, NEW column \in {"destroyAt", "deployAt", "driftAt"}, Tick(column)
  PROVE  TypeOK'
<1>1. env' \in EnvRow
  BY PassedType DEF Tick, TypeOK
<1>2. mem' \in [Sessions -> Memory]
  <2> SUFFICES ASSUME NEW s \in Sessions
               PROVE  [mem[s] EXCEPT !.read = Passed(@, column), !.row = Passed(@, column)] \in Memory
    BY DEF Tick
  <2>1. mem[s] \in Memory /\ mem[s].read \in EnvRow /\ mem[s].row \in EnvRow
    BY TypeFacts DEF Memory
  <2>2. Passed(mem[s].read, column) \in EnvRow /\ Passed(mem[s].row, column) \in EnvRow
    BY <2>1, PassedType
  <2> QED BY <2>1, <2>2 DEF Memory
<1>3. ticks' \in Nat
  <2>1. ticks' = ticks + 1
    BY Zenon DEF Tick
  <2> QED BY <2>1 DEF TypeOK
<1>4. UNCHANGED <<tasks, loop, seen, worker, at, stale, skipped, sinceLock, failures>>
  BY Zenon DEF Tick, loopVars, history
<1> QED BY <1>1, <1>2, <1>3, <1>4 DEF TypeOK, Memory

LEMMA TypeCrash ==
  ASSUME TypeOK, Crash
  PROVE  TypeOK'
<1>1. worker' \in Worker /\ (worker'.phase # "idle" => worker'.task \in DOMAIN tasks)
  <2>1. worker' = worker \/ worker' = NoWork
    BY DEF Crash
  <2>2. NoWork \in Worker /\ NoWork.phase = "idle"
    BY DEF NoWork, Worker
  <2> QED BY <2>1, <2>2, TypeFacts DEF TypeOK
<1>2. skipped' \in BOOLEAN
  BY Zenon DEF Crash, TypeOK
<1> QED BY <1>1, <1>2 DEF Crash, TypeOK, rowVars, callVars, Worker

LEMMA TypeNext == TypeOK /\ SeenSet /\ [Next]_vars => TypeOK' /\ SeenSet'
<1> SUFFICES ASSUME TypeOK, SeenSet, [Next]_vars PROVE TypeOK' /\ SeenSet'
  OBVIOUS
<1>1. CASE UNCHANGED vars
  BY <1>1 DEF TypeOK, SeenSet, vars, rowVars, loopVars, callVars, history, bounds
<1>2. ASSUME Next PROVE TypeOK'
  BY <1>2, TypeTick, TypeRound, TypeWork, TypeCall, TypeCrash DEF Next
<1>3. ASSUME Next PROVE SeenSet'
  <2>1. CASE Round \/ CreateFails
    BY <2>1 DEF SeenSet, Round, CreateFails, ListDestroy, CreateDestroy, ListDeploy, CreateDeploy,
                Dispatch, ListDrift, FindDrift, CreateDrift, NextDrift
  <2>2. CASE Crash
    BY <2>2 DEF SeenSet, Crash
  <2>3. CASE UNCHANGED loopVars
    BY <2>3 DEF SeenSet, loopVars
  <2>4. (\E s \in Sessions : Call(s)) => UNCHANGED loopVars
    BY DEF Call, DeployRead, DeployWrite, UpdateRead, UpdateWrite, LockRead, LockWrite, Unlock,
           DriftRead, DriftWrite, Abort, CallFails
  <2> QED BY <1>3, <2>1, <2>2, <2>3, <2>4
          DEF Next, Tick, Work, StartFails, Enter, End, ReadDestroy, SaveDestroy, ReadDeploy,
              SaveDeploy
<1> QED BY <1>1, <1>2, <1>3

(* The rows, the loop, the goroutine and the calls have the shapes declared.*)
THEOREM TypeCorrect == Spec => []TypeOK
<1>1. Init => SeenSet
  BY DEF Init, SeenSet
<1> QED BY <1>1, TypeInit, TypeNext, PTL DEF Spec

-----------------------------------------------------------------------------
(* A lock.  What the main loop has listed before it may still be created    *)
(* after it; the loop stands at such a place once at most before it looks   *)
(* at the lock again.                                                       *)
Listed == {"createDestroy", "createDeploy", "findDrift", "createDrift"}
LockInv == env.locked => sinceLock + (IF loop \in Listed THEN 1 ELSE 0) <= 1

LEMMA LockCall ==
  ASSUME TypeOK, LockInv, NEW s \in Sessions, Call(s)
  PROVE  LockInv'
<1> USE DEF LockInv, TypeOK, rowVars, loopVars, history
<1>1. CASE UNCHANGED <<rowVars, loopVars, history>>
  BY <1>1
<1>2. CASE DeployWrite(s)
  BY <1>2 DEF DeployWrite
<1>3. CASE UpdateWrite(s)
  <2>1. /\ mem[s].form \in Form /\ env'.locked = env.locked
        /\ UNCHANGED <<loop, sinceLock>>
    <3>1. mem[s].form \in Form
      BY TypeFacts DEF Memory
    <3>2. env'.locked = env.locked
      BY <1>3, <3>1, EditedType DEF UpdateWrite
    <3> QED BY <1>3, <3>1, <3>2, Zenon DEF UpdateWrite
  <2> QED BY <2>1
<1>4. CASE LockWrite(s)
  BY <1>4 DEF LockWrite
<1>5. CASE Unlock(s)
  BY <1>5, ZenonT(60) DEF Unlock, EnvRow
<1>6. CASE DriftWrite(s)
  BY <1>6 DEF DriftWrite
<1>7. CASE Abort(s)
  BY <1>7 DEF Abort
<1> QED BY <1>1, <1>2, <1>3, <1>4, <1>5, <1>6, <1>7
        DEF Call, DeployRead, UpdateRead, LockRead, DriftRead, CallFails

LEMMA LockRound ==
  ASSUME TypeOK, LockInv, Round \/ CreateFails
  PROVE  LockInv'
<1> USE DEF LockInv, Listed, rowVars, history, bounds, AutoCreate
<1>0. sinceLock \in Nat /\ env \in EnvRow
  BY DEF TypeOK
<1>1. CASE ListDestroy
  BY <1>0, <1>1 DEF ListDestroy
<1>2. CASE CreateDestroy
  <2>1. env'.locked = env.locked
    BY <1>0, <1>2 DEF CreateDestroy, EnvRow
  <2> QED BY <1>0, <1>2, <2>1 DEF CreateDestroy
<1>3. CASE ListDeploy
  BY <1>0, <1>3 DEF ListDeploy
<1>4. CASE CreateDeploy
  <2>1. env'.locked = env.locked
    BY <1>0, <1>4 DEF CreateDeploy, EnvRow
  <2> QED BY <1>0, <1>4, <2>1 DEF CreateDeploy
<1>5. CASE Dispatch
  BY <1>0, <1>5 DEF Dispatch
<1>6. CASE ListDrift
  BY <1>0, <1>6 DEF ListDrift
<1>7. CASE FindDrift
  BY <1>0, <1>7 DEF FindDrift
<1>8. CASE CreateDrift
  BY <1>0, <1>8 DEF CreateDrift
<1>9. CASE NextDrift
  BY <1>0, <1>9 DEF NextDrift, EnvRow
<1>10. CASE CreateFails
  BY <1>0, <1>10 DEF CreateFails
<1> QED BY <1>1, <1>2, <1>3, <1>4, <1>5, <1>6, <1>7, <1>8, <1>9, <1>10 DEF Round

(* A task, the clock and a crash leave the lock as it is.                   *)
LEMMA LockRest ==
  ASSUME TypeOK, LockInv,
         Work \/ StartFails \/ Crash \/ \E column \in {"destroyAt", "deployAt", "driftAt"} : Tick(column)
  PROVE  LockInv'
<1>1. env'.locked = env.locked /\ UNCHANGED sinceLock /\ loop' \in {loop, "destroy"}
  <2> USE DEF rowVars, loopVars, callVars, history, bounds
  <2>0. env \in EnvRow
    BY DEF TypeOK
  <2>1. CASE Crash
    BY <2>1 DEF Crash
  <2>2. CASE \E column \in {"destroyAt", "deployAt", "driftAt"} : Tick(column)
    <3>1. PICK column \in {"destroyAt", "deployAt", "driftAt"} : Tick(column)
      BY <2>2
    <3>2. env' = Passed(env, column) /\ UNCHANGED <<loop, sinceLock>>
      BY <3>1, Zenon DEF Tick
    <3> QED BY <2>0, <3>2, PassedType
  <2>3. CASE Work \/ StartFails
    <3> DEFINE t == tasks[worker.task]
    <3>1. t.type \in TaskTypes
      <4>1. worker.phase # "idle"
        BY <2>3 DEF Work, Enter, End, ReadDestroy, SaveDestroy, ReadDeploy, SaveDeploy, StartFails
      <4>2. t \in TaskRow
        BY <4>1, TypeFacts DEF TypeOK
      <4> QED BY <4>2 DEF TaskRow
    <3>2. CASE Enter \/ StartFails
      <4>1. PICK status \in {"running", "failed"} : env' = Follow(env, t.type, status, FALSE)
        BY <3>2, Zenon DEF Enter, StartFails
      <4> HIDE DEF t
      <4>2. status \in {"running", "complete", "failed", "aborted", "rejected"} /\ FALSE \in BOOLEAN
        OBVIOUS
      <4>3. env'.locked = env.locked
        BY <2>0, <3>1, <4>1, <4>2, FollowType, Zenon
      <4> QED BY <3>2, <4>3 DEF Enter, StartFails
    <3>3. CASE End
      <4>1. PICK status \in {"complete", "failed", "aborted", "rejected"}, touched \in BOOLEAN :
              env' = Follow(env, t.type, status, touched)
        BY <3>3 DEF End
      <4> HIDE DEF t
      <4>2. status \in {"running", "complete", "failed", "aborted", "rejected"}
        OBVIOUS
      <4>3. env'.locked = env.locked
        BY <2>0, <3>1, <4>1, <4>2, FollowType, ZenonT(60)
      <4> QED BY <3>3, <4>3 DEF End
    <3>4. CASE SaveDestroy \/ SaveDeploy
      BY <3>4 DEF SaveDestroy, SaveDeploy, TypeOK, EnvRow
    <3> QED BY <2>3, <3>2, <3>3, <3>4 DEF Work, ReadDestroy, ReadDeploy
  <2> QED BY <2>1, <2>2, <2>3
<1> QED BY <1>1 DEF LockInv, Listed, TypeOK

(* A lock lets at most one task of the portal through, whatever the portal  *)
(* was about to create when it was set.                                     *)
THEOREM LockCorrect == Spec => []LockLetsThrough
<1>1. Init => LockInv
  <2> SUFFICES ASSUME Init PROVE LockInv
    OBVIOUS
  <2>1. PICK f \in Creations : env = Created(f)
    BY DEF Init
  <2> QED BY <2>1 DEF LockInv, Created
<1>2. TypeOK /\ LockInv /\ [Next]_vars => LockInv'
  <2>1. UNCHANGED vars /\ LockInv => LockInv'
    BY DEF LockInv, vars, rowVars, loopVars, history
  <2> QED BY <2>1, LockCall, LockRound, LockRest DEF Next
<1>3. TypeOK /\ LockInv => LockLetsThrough
  BY DEF TypeOK, LockInv, LockLetsThrough
<1> QED BY <1>1, <1>2, <1>3, TypeCorrect, PTL DEF Spec

-----------------------------------------------------------------------------
(* The marks.  The goroutine of an automatic task clears its mark only when *)
(* the task is over, a task that an abort has ended may be begun again by   *)
(* the goroutine that was given it, and the main loop creates a task later  *)
(* than it has looked at the mark: so the mark stays with the goroutine,    *)
(* and is free while the loop is about to create.                           *)
Finishing == {"destroy", "saveDestroy", "deploy", "saveDeploy"}

Marks(source, mark, creating, phases) ==
    /\ \A t \in DOMAIN tasks : tasks[t].source = source /\ tasks[t].status # "over" => t = mark
    /\ loop = creating => mark = 0
    /\ worker.phase \in phases /\ tasks[worker.task].source = source => worker.task = mark

DestroyMarks == Marks("autoDestroy", env.destroyTask, "createDestroy",
                      {"enter", "run", "destroy", "saveDestroy"})
DeployMarks == Marks("autoDeploy", env.deployTask, "createDeploy",
                     {"enter", "run", "destroy", "saveDestroy", "deploy", "saveDeploy"})

(* What a step does to the tasks: one is created, ...                       *)
LEMMA TaskCreated ==
  ASSUME TypeOK, NEW type \in TaskTypes, NEW source \in Sources,
         tasks' = Append(tasks, NewTask(type, source))
  PROVE  /\ DOMAIN tasks' = DOMAIN tasks \cup {Len(tasks) + 1}
         /\ Len(tasks) + 1 \notin DOMAIN tasks
         /\ \A t \in DOMAIN tasks : tasks'[t] = tasks[t]
         /\ tasks'[Len(tasks) + 1].source = source
<1>1. NewTask(type, source) \in TaskRow /\ NewTask(type, source).source = source
  BY DEF NewTask, TaskRow
<1> DEFINE new == NewTask(type, source)
           n == Len(tasks)
<1> HIDE DEF new
<1>2. n \in Nat /\ DOMAIN tasks = 1..n
  BY TypeFacts, LenProperties
<1>3. /\ tasks' \in Seq(TaskRow) /\ Len(tasks') = n + 1
      /\ \A i \in 1..n : tasks'[i] = tasks[i]
      /\ tasks'[n + 1] = new
  BY <1>1, TypeFacts, AppendProperties DEF new
<1>4. DOMAIN tasks' = 1..(n + 1)
  BY <1>3, LenProperties
<1>5. tasks'[n + 1].source = source
  BY <1>1, <1>3 DEF new
<1> HIDE DEF n
<1>6. /\ DOMAIN tasks' = DOMAIN tasks \cup {n + 1} /\ n + 1 \notin DOMAIN tasks
      /\ \A t \in DOMAIN tasks : tasks'[t] = tasks[t]
  BY <1>2, <1>3, <1>4
<1> QED BY <1>5, <1>6 DEF n

(* ... or the status of one changes.                                        *)
LEMMA TaskMoved ==
  ASSUME TypeOK, NEW t \in DOMAIN tasks, NEW status \in {"running", "over"},
         tasks' = [tasks EXCEPT ![t].status = status]
  PROVE  /\ DOMAIN tasks' = DOMAIN tasks
         /\ \A u \in DOMAIN tasks : tasks'[u].source = tasks[u].source
         /\ \A u \in DOMAIN tasks \ {t} : tasks'[u] = tasks[u]
         /\ tasks'[t].status = status
<1>1. \A u \in DOMAIN tasks : tasks[u] \in TaskRow
  BY TypeFacts
<1>2. tasks' = [u \in DOMAIN tasks |->
                  IF u = t THEN [tasks[u] EXCEPT !.status = status] ELSE tasks[u]]
  BY TypeFacts
<1> QED BY <1>1, <1>2 DEF TaskRow

(* A step keeps a mark that names its task when it creates none of that     *)
(* source, takes none up again but its goroutine's own, and lets the loop   *)
(* come to create only where the mark was free.                             *)
Keeps(source, mark, creating, phases) ==
    /\ DOMAIN tasks \subseteq DOMAIN tasks'
    /\ \A t \in DOMAIN tasks : tasks'[t].source = tasks[t].source
    /\ \A t \in DOMAIN tasks' : tasks'[t].source = source /\ tasks'[t].status # "over" =>
          /\ t \in DOMAIN tasks
          /\ \/ tasks[t].status # "over"
             \/ worker.phase \in phases /\ t = worker.task
    /\ loop' = creating => loop = creating \/ mark = 0
    /\ worker'.phase \in phases =>
          \/ worker.phase \in phases /\ worker'.task = worker.task
          \/ worker'.task \in Pending

LEMMA MarksKept ==
  ASSUME TypeOK, NEW source, NEW mark, NEW creating, NEW phases,
         phases \subseteq {"enter", "run", "destroy", "saveDestroy", "deploy", "saveDeploy"},
         Marks(source, mark, creating, phases), Keeps(source, mark, creating, phases)
  PROVE  /\ \A t \in DOMAIN tasks' :
               tasks'[t].source = source /\ tasks'[t].status # "over" => t = mark
         /\ loop' = creating => mark = 0
         /\ worker'.phase \in phases /\ tasks'[worker'.task].source = source => worker'.task = mark
<1>1. ASSUME NEW t \in DOMAIN tasks', tasks'[t].source = source, tasks'[t].status # "over"
      PROVE  t = mark
  BY <1>1, Zenon DEF Marks, Keeps
<1>2. ASSUME worker'.phase \in phases, tasks'[worker'.task].source = source
      PROVE  worker'.task = mark
  <2>1. CASE worker.phase \in phases /\ worker'.task = worker.task
    <3>1. worker.task \in DOMAIN tasks
      BY <2>1 DEF TypeOK
    <3> QED BY <1>2, <2>1, <3>1 DEF Marks, Keeps
  <2>2. CASE worker'.task \in Pending
    BY <1>2, <2>2 DEF Marks, Keeps, Pending
  <2> QED BY <1>2, <2>1, <2>2 DEF Keeps
<1> QED BY <1>1, <1>2 DEF Marks, Keeps

(* Where neither mark is written, keeping is enough.                        *)
LEMMA MarksStay ==
  ASSUME TypeOK, DestroyMarks, DeployMarks,
         env'.destroyTask = env.destroyTask, env'.deployTask = env.deployTask,
         Keeps("autoDestroy", env.destroyTask, "createDestroy",
               {"enter", "run", "destroy", "saveDestroy"}),
         Keeps("autoDeploy", env.deployTask, "createDeploy",
               {"enter", "run", "destroy", "saveDestroy", "deploy", "saveDeploy"})
  PROVE  DestroyMarks' /\ DeployMarks'
<1>1. DestroyMarks'
  <2> DEFINE m == env.destroyTask
             ph == {"enter", "run", "destroy", "saveDestroy"}
  <2>1. /\ Marks("autoDestroy", m, "createDestroy", ph)
        /\ Keeps("autoDestroy", m, "createDestroy", ph)
        /\ ph \subseteq {"enter", "run", "destroy", "saveDestroy", "deploy", "saveDeploy"}
    BY DEF DestroyMarks
  <2>2. env'.destroyTask = m
    OBVIOUS
  <2> HIDE DEF m, ph
  <2>3. /\ \A t \in DOMAIN tasks' :
              tasks'[t].source = "autoDestroy" /\ tasks'[t].status # "over" => t = m
        /\ loop' = "createDestroy" => m = 0
        /\ worker'.phase \in ph /\ tasks'[worker'.task].source = "autoDestroy" => worker'.task = m
    BY <2>1, MarksKept
  <2> QED BY <2>2, <2>3 DEF DestroyMarks, Marks, ph
<1>2. DeployMarks'
  <2> DEFINE m == env.deployTask
             ph == {"enter", "run", "destroy", "saveDestroy", "deploy", "saveDeploy"}
  <2>1. /\ Marks("autoDeploy", m, "createDeploy", ph)
        /\ Keeps("autoDeploy", m, "createDeploy", ph)
        /\ ph \subseteq {"enter", "run", "destroy", "saveDestroy", "deploy", "saveDeploy"}
    BY DEF DeployMarks
  <2>2. env'.deployTask = m
    OBVIOUS
  <2> HIDE DEF m, ph
  <2>3. /\ \A t \in DOMAIN tasks' :
              tasks'[t].source = "autoDeploy" /\ tasks'[t].status # "over" => t = m
        /\ loop' = "createDeploy" => m = 0
        /\ worker'.phase \in ph /\ tasks'[worker'.task].source = "autoDeploy" => worker'.task = m
    BY <2>1, MarksKept
  <2> QED BY <2>2, <2>3 DEF DeployMarks, Marks, ph
<1> QED BY <1>1, <1>2

(* A step that leaves the goroutine and the loop alone, and creates at most *)
(* a task that is not the portal's, or ends one, keeps both marks.          *)
Quiet ==
    /\ UNCHANGED <<worker, loop>>
    /\ DOMAIN tasks \subseteq DOMAIN tasks'
    /\ \A t \in DOMAIN tasks :
          /\ tasks'[t].source = tasks[t].source
          /\ tasks[t].status = "over" => tasks'[t].status = "over"
    /\ \A t \in DOMAIN tasks' \ DOMAIN tasks : tasks'[t].source \in {"user", "drift"}

LEMMA QuietKeeps ==
  ASSUME Quiet, NEW source \in {"autoDestroy", "autoDeploy"}, NEW mark, NEW creating, NEW phases
  PROVE  Keeps(source, mark, creating, phases)
<1>1. worker' = worker /\ loop' = loop
  BY DEF Quiet
<1>2. ASSUME NEW t \in DOMAIN tasks', tasks'[t].source = source, tasks'[t].status # "over"
      PROVE  t \in DOMAIN tasks /\ tasks[t].status # "over"
  BY <1>2 DEF Quiet
<1> QED BY <1>1, <1>2 DEF Quiet, Keeps

(* What holds the worker to its task.                                       *)
WorkerInv ==
    /\ worker.phase \in Finishing => tasks[worker.task].status = "over"
    /\ worker.phase = "saveDestroy" /\ worker.clear => tasks[worker.task].source = "autoDestroy"
    /\ worker.phase = "saveDeploy" /\ worker.clear => tasks[worker.task].source = "autoDeploy"

LEMMA QuietWorker ==
  ASSUME TypeOK, Quiet, WorkerInv
  PROVE  WorkerInv'
<1>1. worker.phase # "idle" => worker.task \in DOMAIN tasks
  BY DEF TypeOK
<1> QED BY <1>1 DEF Quiet, WorkerInv, Finishing

(* The rows held for a deployment carry the marks that were read.           *)
HeldInv ==
    \A s \in Sessions : at[s] = "deploy" =>
       /\ mem[s].row.destroyTask = mem[s].read.destroyTask
       /\ mem[s].row.deployTask = mem[s].read.deployTask

AutoInv == HeldInv /\ WorkerInv /\ (~stale => DestroyMarks /\ DeployMarks)

(* What a session holds after its own step, and the others after it.        *)
LEMMA HeldReturn ==
  ASSUME TypeOK, HeldInv, NEW s \in Sessions, Return(s)
  PROVE  HeldInv'
BY DEF TypeOK, HeldInv, Return, Goto

LEMMA HeldTaken ==
  ASSUME TypeOK, HeldInv, NEW s \in Sessions, NEW row, NEW f, NEW label,
         Hold(s, env, row, f), Goto(s, label),
         row.destroyTask = env.destroyTask, row.deployTask = env.deployTask
  PROVE  HeldInv'
<1> SUFFICES ASSUME NEW u \in Sessions, at'[u] = "deploy"
             PROVE  /\ mem'[u].row.destroyTask = mem'[u].read.destroyTask
                    /\ mem'[u].row.deployTask = mem'[u].read.deployTask
  BY DEF HeldInv
<1>1. CASE u = s
  <2>1. mem'[s] = [read |-> env, row |-> row, form |-> f]
    BY DEF Hold, TypeOK
  <2> QED BY <1>1, <2>1
<1>2. CASE u # s
  <2>1. mem'[u] = mem[u] /\ at'[u] = at[u]
    BY <1>2 DEF Hold, Goto, TypeOK
  <2> QED BY <2>1 DEF HeldInv
<1> QED BY <1>1, <1>2

(* A call keeps the marks, unless it writes back a row that had changed.    *)
LEMMA QuietStep ==
  ASSUME TypeOK, AutoInv, Quiet, HeldInv', ~stale' => ~stale,
         ~stale' => env'.destroyTask = env.destroyTask /\ env'.deployTask = env.deployTask
  PROVE  AutoInv'
<1>1. ~stale' => DestroyMarks' /\ DeployMarks'
  BY MarksStay, QuietKeeps DEF AutoInv
<1> QED BY <1>1, QuietWorker DEF AutoInv

LEMMA AutoCall ==
  ASSUME TypeOK, AutoInv, NEW s \in Sessions, Call(s)
  PROVE  AutoInv'
<1> USE DEF rowVars, loopVars, history
<1>1. mem[s] \in Memory /\ mem[s].form \in Form /\ env \in EnvRow /\ HeldInv
  BY TypeFacts DEF Memory, TypeOK, AutoInv
<1>2. ASSUME UNCHANGED <<tasks, loop, worker>> PROVE Quiet
  BY <1>2 DEF Quiet
<1>3. CASE DeployRead(s)
  <2>1. PICK f \in Forms :
          Hold(s, env, SetDrift(SetDeploy(SetDestroy(env, f.destroy, env.status), f.deploy),
                                f.drift), f)
    BY <1>3 DEF DeployRead
  <2>2. f.destroy \in {"keep", "at", "ttl", "off", "cron"}
        /\ f.deploy \in {"keep", "at", "cron"} /\ f.drift \in {"keep", "off", "plan", "apply"}
    BY DEF Form
  <2>3. LET row == SetDrift(SetDeploy(SetDestroy(env, f.destroy, env.status), f.deploy), f.drift)
        IN  row.destroyTask = env.destroyTask /\ row.deployTask = env.deployTask
    BY <1>1, <2>2, SetDestroyType, SetDeployType, SetDriftType, SMTT(30)
  <2>4. HeldInv'
    BY <1>1, <1>3, <2>1, <2>3, HeldTaken DEF DeployRead
  <2> QED BY <1>2, <1>3, <2>4, QuietStep DEF DeployRead
<1>4. CASE DeployWrite(s)
  <2>1. Quiet
    <3>1. mem[s].form.type \in TaskTypes /\ "user" \in Sources
      BY <1>1 DEF Form, Sources
    <3> QED BY <1>4, <3>1, TaskCreated DEF DeployWrite, Quiet
  <2>2. HeldInv'
    BY <1>1, <1>4, HeldReturn DEF DeployWrite
  <2>3. stale' = (stale \/ mem[s].read # env) /\ env' = mem[s].row /\ at[s] = "deploy"
    BY <1>4, Zenon DEF DeployWrite
  <2>4. ~stale' => ~stale /\ mem[s].read = env
    BY <2>3, Zenon
  <2>5. ~stale' => env'.destroyTask = env.destroyTask /\ env'.deployTask = env.deployTask
    BY <1>1, <2>3, <2>4 DEF HeldInv
  <2> QED BY <2>1, <2>2, <2>4, <2>5, QuietStep
<1>5. CASE UpdateRead(s)
  <2>1. PICK f : Hold(s, env, env, f)
    BY <1>5 DEF UpdateRead
  <2> QED BY <1>1, <1>2, <1>5, <2>1, HeldTaken, QuietStep DEF UpdateRead
<1>6. CASE UpdateWrite(s)
  <2>1. env'.destroyTask = env.destroyTask /\ env'.deployTask = env.deployTask
    BY <1>1, <1>6, EditedType DEF UpdateWrite
  <2> QED BY <1>1, <1>2, <1>6, <2>1, HeldReturn, QuietStep DEF UpdateWrite
<1>7. CASE LockRead(s)
  <2>1. HeldInv'
    BY <1>1, <1>7 DEF LockRead, HeldInv, Goto, TypeOK
  <2> QED BY <1>2, <1>7, <2>1, QuietStep DEF LockRead
<1>8. CASE LockWrite(s)
  <2>1. env'.destroyTask = env.destroyTask /\ env'.deployTask = env.deployTask
    BY <1>1, <1>8 DEF LockWrite, EnvRow
  <2> QED BY <1>1, <1>2, <1>8, <2>1, HeldReturn, QuietStep DEF LockWrite
<1>9. CASE Unlock(s)
  <2>1. env'.destroyTask = env.destroyTask /\ env'.deployTask = env.deployTask
    BY <1>1, <1>9 DEF Unlock, EnvRow
  <2> QED BY <1>1, <1>2, <1>9, <2>1, HeldReturn, QuietStep DEF Unlock
<1>10. CASE DriftRead(s)
  <2>1. PICK f : Hold(s, env, env, f)
    BY <1>10 DEF DriftRead
  <2> QED BY <1>1, <1>2, <1>10, <2>1, HeldTaken, QuietStep DEF DriftRead
<1>11. CASE DriftWrite(s)
  <2>1. Quiet
    <3>1. mem[s].form.type \in TaskTypes /\ "drift" \in Sources
      BY <1>1 DEF Form, Sources
    <3> QED BY <1>11, <3>1, TaskCreated DEF DriftWrite, Quiet
  <2> QED BY <1>1, <1>11, <2>1, HeldReturn, QuietStep DEF DriftWrite
<1>12. CASE Abort(s)
  <2>1. PICK t \in Pending : tasks' = OverTask(t)
    BY <1>12 DEF Abort
  <2>2. Quiet
    <3>1. t \in DOMAIN tasks /\ tasks' = [tasks EXCEPT ![t].status = "over"]
      BY <2>1 DEF Pending, OverTask
    <3>2. UNCHANGED <<worker, loop>>
      BY <1>12 DEF Abort
    <3> QED BY <3>1, <3>2, TaskMoved DEF Quiet
  <2> QED BY <1>1, <1>12, <2>2, HeldReturn, QuietStep DEF Abort
<1>13. CASE CallFails(s)
  BY <1>1, <1>2, <1>13, HeldReturn, QuietStep DEF CallFails
<1> QED BY <1>3, <1>4, <1>5, <1>6, <1>7, <1>8, <1>9, <1>10, <1>11, <1>12, <1>13 DEF Call

(* The main loop.  What it creates is marked, and was not when it came to   *)
(* the place where it creates.                                              *)
LEMMA CreatedMarks ==
  ASSUME TypeOK, WorkerInv, DestroyMarks, DeployMarks, CreateDestroy \/ CreateDeploy
  PROVE  DestroyMarks' /\ DeployMarks'
<1> DEFINE n == Len(tasks) + 1
<1>0. /\ env \in EnvRow /\ n \in Nat /\ UNCHANGED worker
      /\ worker.phase # "idle" => worker.task \in DOMAIN tasks
      /\ DOMAIN tasks \subseteq Nat \ {0}
  BY TypeFacts DEF TypeOK, CreateDestroy, CreateDeploy
<1>1. CASE CreateDestroy
  <2>1. /\ DOMAIN tasks' = DOMAIN tasks \cup {n} /\ n \notin DOMAIN tasks
        /\ \A t \in DOMAIN tasks : tasks'[t] = tasks[t]
        /\ tasks'[n].source = "autoDestroy"
    BY <1>1, TaskCreated DEF CreateDestroy, AutoCreate, TaskTypes, Sources
  <2>2. env'.destroyTask = n /\ env'.deployTask = env.deployTask
    BY <1>0, <1>1 DEF CreateDestroy, EnvRow
  <2>3. loop = "createDestroy" /\ loop' = "deploy"
    BY <1>1 DEF CreateDestroy
  <2> HIDE DEF n
  <2>4. env.destroyTask = 0
    BY <2>3 DEF DestroyMarks, Marks
  <2>5. DestroyMarks'
    BY <1>0, <2>1, <2>2, <2>3, <2>4 DEF DestroyMarks, Marks
  <2>6. DeployMarks'
    BY <1>0, <2>1, <2>2, <2>3 DEF DeployMarks, Marks
  <2> QED BY <2>5, <2>6
<1>2. CASE CreateDeploy
  <2>1. /\ DOMAIN tasks' = DOMAIN tasks \cup {n} /\ n \notin DOMAIN tasks
        /\ \A t \in DOMAIN tasks : tasks'[t] = tasks[t]
        /\ tasks'[n].source = "autoDeploy"
    BY <1>2, TaskCreated DEF CreateDeploy, AutoCreate, TaskTypes, Sources
  <2>2. env'.deployTask = n /\ env'.destroyTask = env.destroyTask
    BY <1>0, <1>2 DEF CreateDeploy, EnvRow
  <2>3. loop = "createDeploy" /\ loop' = "pending"
    BY <1>2 DEF CreateDeploy
  <2> HIDE DEF n
  <2>4. env.deployTask = 0
    BY <2>3 DEF DeployMarks, Marks
  <2>5. DeployMarks'
    BY <1>0, <2>1, <2>2, <2>3, <2>4 DEF DeployMarks, Marks
  <2>6. DestroyMarks'
    BY <1>0, <2>1, <2>2, <2>3 DEF DestroyMarks, Marks
  <2> QED BY <2>5, <2>6
<1> QED BY <1>1, <1>2

LEMMA AutoRound ==
  ASSUME TypeOK, SeenSet, AutoInv, Round \/ CreateFails
  PROVE  AutoInv'
<1> USE DEF rowVars, callVars, history, bounds
<1>0. env \in EnvRow /\ HeldInv /\ WorkerInv
  BY DEF TypeOK, AutoInv
<1>1. HeldInv' /\ UNCHANGED stale
  BY <1>0 DEF HeldInv, Round, CreateFails, ListDestroy, CreateDestroy, ListDeploy, CreateDeploy,
              Dispatch, ListDrift, FindDrift, CreateDrift, NextDrift, AutoCreate
<1>2. CASE CreateDestroy \/ CreateDeploy
  <2>1. WorkerInv'
    <3>1. \A t \in DOMAIN tasks : tasks'[t] = tasks[t]
      BY <1>2, TaskCreated DEF CreateDestroy, CreateDeploy, AutoCreate, TaskTypes, Sources
    <3>2. (worker.phase # "idle" => worker.task \in DOMAIN tasks) /\ UNCHANGED worker
      BY <1>2 DEF TypeOK, CreateDestroy, CreateDeploy
    <3> QED BY <1>0, <3>1, <3>2 DEF WorkerInv, Finishing
  <2> QED BY <1>0, <1>1, <1>2, <2>1, CreatedMarks DEF AutoInv
<1>3. ASSUME env'.destroyTask = env.destroyTask, env'.deployTask = env.deployTask,
             UNCHANGED tasks,
             loop' = "createDestroy" => loop = "createDestroy" \/ env.destroyTask = 0,
             loop' = "createDeploy" => loop = "createDeploy" \/ env.deployTask = 0,
             UNCHANGED worker \/ (worker'.phase = "enter" /\ worker'.task \in Pending)
      PROVE  AutoInv'
  <2>1. ASSUME NEW source, NEW mark, NEW creating,
               NEW phases, loop' = creating => loop = creating \/ mark = 0
        PROVE  Keeps(source, mark, creating, phases)
    BY <1>3, <2>1 DEF Keeps
  <2>2. WorkerInv'
    BY <1>0, <1>3 DEF WorkerInv, Finishing
  <2> QED BY <1>1, <1>3, <2>1, <2>2, MarksStay DEF AutoInv
<1>4. CASE ListDestroy
  BY <1>3, <1>4 DEF ListDestroy
<1>5. CASE ListDeploy
  BY <1>3, <1>5 DEF ListDeploy
<1>6. CASE Dispatch
  <2>1. UNCHANGED worker \/ (worker'.phase = "enter" /\ worker'.task \in Pending)
    BY <1>6 DEF Dispatch, NoWork
  <2> QED BY <1>3, <1>6, <2>1 DEF Dispatch
<1>7. CASE ListDrift \/ FindDrift
  BY <1>3, <1>7 DEF ListDrift, FindDrift
<1>8. CASE CreateDrift
  <2>1. UNCHANGED <<worker, env>> /\ loop' = "nextDrift"
    BY <1>8 DEF CreateDrift
  <2>2. /\ DOMAIN tasks \subseteq DOMAIN tasks'
        /\ \A t \in DOMAIN tasks : tasks'[t] = tasks[t]
        /\ \A t \in DOMAIN tasks' \ DOMAIN tasks : tasks'[t].source = "drift"
    <3>1. seen \in TaskTypes /\ "drift" \in Sources
      BY <1>8 DEF CreateDrift, SeenSet, TypeOK, TaskTypes, Sources
    <3> QED BY <1>8, <3>1, TaskCreated DEF CreateDrift, AutoCreate
  <2>3. ASSUME NEW source \in {"autoDestroy", "autoDeploy"}, NEW mark, NEW phases,
               NEW creating \in {"createDestroy", "createDeploy"}
        PROVE  Keeps(source, mark, creating, phases)
    BY <2>1, <2>2 DEF Keeps
  <2>4. WorkerInv'
    <3>1. worker.phase # "idle" => worker.task \in DOMAIN tasks
      BY DEF TypeOK
    <3> QED BY <1>0, <2>1, <2>2, <3>1 DEF WorkerInv, Finishing
  <2> QED BY <1>1, <2>1, <2>3, <2>4, MarksStay DEF AutoInv
<1>9. CASE NextDrift
  <2>1. env'.destroyTask = env.destroyTask /\ env'.deployTask = env.deployTask
    BY <1>0, <1>9 DEF NextDrift, EnvRow
  <2> QED BY <1>3, <1>9, <2>1 DEF NextDrift
<1>10. CASE CreateFails
  BY <1>3, <1>10 DEF CreateFails
<1> QED BY <1>2, <1>4, <1>5, <1>6, <1>7, <1>8, <1>9, <1>10 DEF Round

(* The goroutine of a task.  It clears a mark only after its own task, the  *)
(* one the mark names, is over.                                             *)
LEMMA SavedMarks ==
  ASSUME TypeOK, WorkerInv, DestroyMarks, DeployMarks, SaveDestroy \/ SaveDeploy
  PROVE  WorkerInv' /\ DestroyMarks' /\ DeployMarks'
<1> DEFINE w == worker.task
<1>0. /\ env \in EnvRow /\ UNCHANGED <<tasks, loop>>
      /\ w \in DOMAIN tasks /\ tasks[w].status = "over"
      /\ DOMAIN tasks \subseteq Nat \ {0}
  BY TypeFacts DEF TypeOK, SaveDestroy, SaveDeploy, WorkerInv, Finishing, loopVars
<1>1. CASE SaveDestroy
  <2>1. /\ worker.phase = "saveDestroy"
        /\ worker'.phase = "deploy" /\ worker'.task = w
    BY <1>1 DEF SaveDestroy, NoWork
  <2>2. /\ env'.destroyTask = IF worker.clear THEN 0 ELSE env.destroyTask
        /\ env'.deployTask = env.deployTask
    BY <1>0, <1>1 DEF SaveDestroy, EnvRow
  <2>3. worker.clear => w = env.destroyTask
    BY <2>1 DEF WorkerInv, DestroyMarks, Marks
  <2> HIDE DEF w
  <2>4. WorkerInv'
    BY <1>0, <2>1 DEF WorkerInv, Finishing
  <2>5. DestroyMarks'
    BY <1>0, <2>1, <2>2, <2>3 DEF DestroyMarks, Marks
  <2>6. DeployMarks'
    BY <1>0, <2>1, <2>2 DEF DeployMarks, Marks, w
  <2> QED BY <2>4, <2>5, <2>6
<1>2. CASE SaveDeploy
  <2>1. worker.phase = "saveDeploy" /\ worker'.phase = "idle"
    BY <1>2 DEF SaveDeploy, NoWork
  <2>2. /\ env'.deployTask = IF worker.clear THEN 0 ELSE env.deployTask
        /\ env'.destroyTask = env.destroyTask
    BY <1>0, <1>2 DEF SaveDeploy, EnvRow
  <2>3. worker.clear => w = env.deployTask
    BY <2>1 DEF WorkerInv, DeployMarks, Marks
  <2> HIDE DEF w
  <2>4. WorkerInv'
    BY <1>0, <2>1 DEF WorkerInv, Finishing
  <2>5. DeployMarks'
    BY <1>0, <2>1, <2>2, <2>3 DEF DeployMarks, Marks
  <2>6. DestroyMarks'
    BY <1>0, <2>1, <2>2 DEF DestroyMarks, Marks
  <2> QED BY <2>4, <2>5, <2>6
<1> QED BY <1>1, <1>2

(* A step of the goroutine on the status of its task, or on what it means   *)
(* to write.                                                                *)
LEMMA OwnStep ==
  ASSUME TypeOK, AutoInv, UNCHANGED <<loop, at, mem, stale>>, worker.phase # "idle",
         env'.destroyTask = env.destroyTask, env'.deployTask = env.deployTask,
         DOMAIN tasks' = DOMAIN tasks,
         \A t \in DOMAIN tasks : tasks'[t].source = tasks[t].source,
         \A t \in DOMAIN tasks \ {worker.task} : tasks'[t] = tasks[t],
         worker'.phase = "idle" \/ worker'.task = worker.task,
         tasks[worker.task].status = "over" /\ tasks'[worker.task].status # "over" =>
           worker.phase \in {"enter", "run"},
         worker'.phase \in {"enter", "run", "destroy", "saveDestroy"} =>
           worker.phase \in {"enter", "run", "destroy", "saveDestroy"},
         WorkerInv'
  PROVE  AutoInv'
<1>1. HeldInv'
  BY DEF AutoInv, HeldInv
<1>2. ASSUME NEW source, NEW mark, NEW creating, NEW phases,
             {"enter", "run"} \subseteq phases, "idle" \notin phases,
             worker'.phase \in phases => worker.phase \in phases
      PROVE  Keeps(source, mark, creating, phases)
  <2>1. \A t \in DOMAIN tasks' : tasks'[t].status # "over" =>
          \/ tasks[t].status # "over"
          \/ worker.phase \in phases /\ t = worker.task
    BY <1>2
  <2>2. worker'.phase \in phases => worker.phase \in phases /\ worker'.task = worker.task
    BY <1>2
  <2> QED BY <2>1, <2>2 DEF Keeps
<1>3. worker.phase \in {"enter", "run", "destroy", "saveDestroy", "deploy", "saveDeploy"}
  BY DEF TypeOK
<1>4. /\ Keeps("autoDestroy", env.destroyTask, "createDestroy",
               {"enter", "run", "destroy", "saveDestroy"})
      /\ Keeps("autoDeploy", env.deployTask, "createDeploy",
               {"enter", "run", "destroy", "saveDestroy", "deploy", "saveDeploy"})
  BY <1>2, <1>3
<1> QED BY <1>1, <1>4, MarksStay DEF AutoInv

LEMMA AutoWork ==
  ASSUME TypeOK, AutoInv, Work \/ StartFails
  PROVE  AutoInv'
<1> USE DEF rowVars, loopVars, callVars, history, bounds
<1> DEFINE w == worker.task
           t == tasks[w]
<1>1. /\ worker.phase # "idle" /\ w \in DOMAIN tasks /\ t \in TaskRow /\ t.type \in TaskTypes
      /\ env \in EnvRow /\ worker \in Worker /\ WorkerInv
  <2>1. worker.phase # "idle"
    BY DEF Work, Enter, End, ReadDestroy, SaveDestroy, ReadDeploy, SaveDeploy, StartFails
  <2>2. w \in DOMAIN tasks /\ env \in EnvRow /\ WorkerInv
    BY <2>1 DEF TypeOK, AutoInv
  <2> QED BY <2>1, <2>2, TypeFacts DEF TaskRow
<1>2. UNCHANGED <<loop, at, mem, stale>>
  BY DEF Work, Enter, End, ReadDestroy, SaveDestroy, ReadDeploy, SaveDeploy, StartFails
<1>3. ASSUME NEW status \in {"running", "complete", "failed", "aborted", "rejected"},
             NEW touched \in BOOLEAN, env' = Follow(env, t.type, status, touched)
      PROVE  env'.destroyTask = env.destroyTask /\ env'.deployTask = env.deployTask
  <2> HIDE DEF t
  <2> QED BY <1>1, <1>3, FollowType, ZenonT(60)
<1>4. ASSUME NEW status \in {"running", "over"}, tasks' = [tasks EXCEPT ![w].status = status]
      PROVE  /\ DOMAIN tasks' = DOMAIN tasks
             /\ \A u \in DOMAIN tasks : tasks'[u].source = tasks[u].source
             /\ \A u \in DOMAIN tasks \ {w} : tasks'[u] = tasks[u]
             /\ tasks'[w].status = status
  BY <1>1, <1>4, TaskMoved
<1>5. CASE Enter
  <2>1. worker.phase = "enter" /\ worker'.phase = "run" /\ worker'.task = w
    BY <1>1, <1>5 DEF Enter, Worker
  <2>2. env'.destroyTask = env.destroyTask /\ env'.deployTask = env.deployTask
    BY <1>3, <1>5, Zenon DEF Enter
  <2>3. WorkerInv'
    BY <2>1 DEF WorkerInv, Finishing
  <2> QED BY <1>1, <1>2, <1>4, <1>5, <2>1, <2>2, <2>3, OwnStep DEF Enter
<1>6. CASE StartFails
  <2>1. worker.phase \in {"enter", "run"} /\ worker'.phase = "idle"
    BY <1>6 DEF StartFails, NoWork
  <2>2. env'.destroyTask = env.destroyTask /\ env'.deployTask = env.deployTask
    BY <1>3, <1>6, Zenon DEF StartFails
  <2>3. WorkerInv'
    BY <2>1 DEF WorkerInv, Finishing
  <2> QED BY <1>1, <1>2, <1>4, <1>6, <2>1, <2>2, <2>3, OwnStep DEF StartFails, OverTask
<1>7. CASE End
  <2>1. PICK status \in {"complete", "failed", "aborted", "rejected"}, touched \in BOOLEAN :
           /\ tasks' = OverTask(w)
           /\ env' = Follow(env, t.type, status, touched)
           /\ worker' \in {[worker EXCEPT !.phase = "destroy"], NoWork}
    BY <1>7 DEF End
  <2>2. status \in {"running", "complete", "failed", "aborted", "rejected"}
    OBVIOUS
  <2>3. env'.destroyTask = env.destroyTask /\ env'.deployTask = env.deployTask
    BY <1>3, <2>1, <2>2, Zenon
  <2>4. /\ worker.phase = "run"
        /\ \/ worker'.phase = "idle"
           \/ worker'.phase = "destroy" /\ worker'.task = w
    BY <1>1, <1>7, <2>1 DEF End, NoWork, Worker
  <2>5. /\ DOMAIN tasks' = DOMAIN tasks
        /\ \A u \in DOMAIN tasks : tasks'[u].source = tasks[u].source
        /\ \A u \in DOMAIN tasks \ {w} : tasks'[u] = tasks[u]
        /\ tasks'[w].status = "over"
    BY <1>4, <2>1 DEF OverTask
  <2>6. WorkerInv'
    BY <2>4, <2>5 DEF WorkerInv, Finishing
  <2> HIDE DEF t, w
  <2> QED BY <1>1, <1>2, <2>3, <2>4, <2>5, <2>6, OwnStep DEF w
<1>8. CASE ReadDestroy
  <2>1. /\ worker.phase = "destroy" /\ worker'.phase = "saveDestroy" /\ worker'.task = w
        /\ worker'.clear = (t.source = "autoDestroy")
    BY <1>1, <1>8 DEF ReadDestroy, Worker
  <2>2. UNCHANGED <<env, tasks>>
    BY <1>8 DEF ReadDestroy
  <2>3. WorkerInv'
    BY <1>1, <2>1, <2>2 DEF WorkerInv, Finishing
  <2> QED BY <1>1, <1>2, <2>1, <2>2, <2>3, OwnStep
<1>9. CASE ReadDeploy
  <2>1. /\ worker.phase = "deploy" /\ worker'.phase = "saveDeploy" /\ worker'.task = w
        /\ worker'.clear = (t.source = "autoDeploy")
    BY <1>1, <1>9 DEF ReadDeploy, Worker
  <2>2. UNCHANGED <<env, tasks>>
    BY <1>9 DEF ReadDeploy
  <2>3. WorkerInv'
    BY <1>1, <2>1, <2>2 DEF WorkerInv, Finishing
  <2> QED BY <1>1, <1>2, <2>1, <2>2, <2>3, OwnStep
<1>10. CASE SaveDestroy \/ SaveDeploy
  <2>1. HeldInv'
    BY <1>2 DEF AutoInv, HeldInv
  <2>2. WorkerInv'
    <3>1. /\ UNCHANGED tasks /\ worker'.phase \in {"idle", "deploy"}
          /\ worker'.phase = "deploy" => worker.phase = "saveDestroy" /\ worker'.task = w
      <4>1. CASE SaveDestroy
        BY <4>1 DEF SaveDestroy, NoWork
      <4>2. CASE SaveDeploy
        BY <4>2 DEF SaveDeploy, NoWork
      <4> QED BY <1>10, <4>1, <4>2
    <3> QED BY <1>1, <3>1 DEF WorkerInv, Finishing
  <2> QED BY <1>1, <1>2, <1>10, <2>1, <2>2, SavedMarks DEF AutoInv
<1> QED BY <1>5, <1>6, <1>7, <1>8, <1>9, <1>10 DEF Work

(* Time and the death of the portal.                                        *)
LEMMA AutoTick ==
  ASSUME TypeOK, AutoInv, NEW column \in {"destroyAt", "deployAt", "driftAt"}, Tick(column)
  PROVE  AutoInv'
<1>1. env' = Passed(env, column) /\ env \in EnvRow /\ UNCHANGED <<tasks, loop, worker, at, stale>>
  BY Zenon DEF Tick, TypeOK, loopVars, history
<1>2. env'.destroyTask = env.destroyTask /\ env'.deployTask = env.deployTask
  BY <1>1, PassedType
<1>3. Quiet
  BY <1>1 DEF Quiet
<1>4. HeldInv'
  <2> SUFFICES ASSUME NEW s \in Sessions, at[s] = "deploy"
               PROVE  /\ mem'[s].row.destroyTask = mem'[s].read.destroyTask
                      /\ mem'[s].row.deployTask = mem'[s].read.deployTask
    BY <1>1 DEF HeldInv
  <2>1. mem'[s] = [mem[s] EXCEPT !.read = Passed(@, column), !.row = Passed(@, column)]
    BY DEF Tick
  <2>2. mem[s] \in Memory /\ mem[s].read \in EnvRow /\ mem[s].row \in EnvRow
    BY TypeFacts DEF Memory
  <2>3. mem'[s].read = Passed(mem[s].read, column) /\ mem'[s].row = Passed(mem[s].row, column)
    BY <2>1, <2>2 DEF Memory
  <2> QED BY <2>2, <2>3, PassedType DEF AutoInv, HeldInv
<1> QED BY <1>1, <1>2, <1>3, <1>4, QuietStep

LEMMA AutoCrash ==
  ASSUME TypeOK, AutoInv, Crash
  PROVE  AutoInv'
<1>1. /\ UNCHANGED <<env, tasks, at, mem, stale>> /\ loop' = "destroy"
      /\ UNCHANGED worker \/ worker'.phase = "idle"
  BY DEF Crash, rowVars, callVars, NoWork
<1>2. HeldInv' /\ WorkerInv'
  BY <1>1 DEF AutoInv, HeldInv, WorkerInv, Finishing
<1>3. DestroyMarks /\ DeployMarks => DestroyMarks' /\ DeployMarks'
  BY <1>1 DEF DestroyMarks, DeployMarks, Marks
<1> QED BY <1>1, <1>2, <1>3 DEF AutoInv

(* No second destroy, and no second deploy, is queued by the portal behind  *)
(* one that is not over, as long as no deployment wrote back an old row.    *)
THEOREM AutoCorrect == Spec => []AutoOnce
<1>1. Init => AutoInv
  <2> SUFFICES ASSUME Init PROVE AutoInv
    OBVIOUS
  <2>1. PICK f \in Creations : env = Created(f) /\ tasks = <<NewTask(f.type, "user")>>
    BY DEF Init
  <2>2. \A t \in DOMAIN tasks : tasks[t].source = "user"
    BY <2>1 DEF NewTask
  <2>3. /\ \A s \in Sessions : at[s] = "idle"
        /\ worker.phase = "idle" /\ loop = "destroy"
    BY DEF Init, NoWork
  <2> QED BY <2>2, <2>3 DEF AutoInv, HeldInv, WorkerInv, Finishing, DestroyMarks, DeployMarks, Marks
<1>2. TypeOK /\ SeenSet /\ AutoInv /\ [Next]_vars => AutoInv'
  <2>1. UNCHANGED vars /\ AutoInv => AutoInv'
    BY DEF AutoInv, HeldInv, WorkerInv, DestroyMarks, DeployMarks, Marks,
           vars, rowVars, loopVars, callVars, history
  <2> QED BY <2>1, AutoCall, AutoRound, AutoWork, AutoTick, AutoCrash DEF Next
<1>3. TypeOK /\ AutoInv => AutoOnce
  BY DEF AutoOnce, AutoInv, DestroyMarks, DeployMarks, Marks, From, Active
<1>4. Init => SeenSet
  BY DEF Init, SeenSet
<1> QED BY <1>1, <1>2, <1>3, <1>4, TypeInit, TypeNext, PTL DEF Spec
=============================================================================
