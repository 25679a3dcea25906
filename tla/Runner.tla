------------------------------- MODULE Runner -------------------------------
(***************************************************************************)
(* The runner and one task of it: requests that start the commands of its  *)
(* steps in one container, the connections that wait for them, the request *)
(* that aborts the task, and the portal at the other end.  What they share *)
(* is the container engine and four kinds of files in the workspace: the   *)
(* info of each step, that of the latest step, the result of each step,    *)
(* and the abort mark.  No lock is held between two accesses.              *)
(***************************************************************************)
EXTENDS Naturals, Sequences, FiniteSets

CONSTANTS
    Tasks,      \* the tasks to look at, one of them at a time
    Handlers,   \* slots for requests to start a step, taken in order
    Conns       \* slots for connections that wait for a step, likewise

(* A task: its steps; those that scan, and whether their failure stops it;  *)
(* whether and how often a step is tried again; whether it ends with the    *)
(* hidden step that collects resources (of negative index in the code).     *)
(* aborts: somebody may abort it; views and faults bound the users who      *)
(* follow its log, and what is lost of answers, connections and the runner. *)
ASSUME RunnerAssumption ==
    /\ \A t \in Tasks : /\ t.steps \in Nat \ {0} /\ t.scans \subseteq 1..t.steps
                       /\ t.stopOnViolation \in BOOLEAN /\ t.collect \in BOOLEAN
                       /\ t.retryAble \in BOOLEAN /\ t.retries \in Nat
                       /\ t.aborts \in BOOLEAN /\ t.views \in Nat /\ t.faults \in Nat
    /\ Handlers \subseteq Nat /\ Conns \subseteq Nat

(* A scan that finds violations ends with an exit code of its own.          *)
Ended == {"ok", "bad", "violated"}
Outcomes == {"complete", "failed", "timeout", "aborted"}

VARIABLES
    task,                         \* the task
    latest, info, result, marked, \* files
    box, execs,                   \* container engine: container, commands
    handler, conn, abort,         \* goroutines of the runner
    portal, outcome,              \* the portal: where it is; how steps ended
    views, faults,
    afterMark                     \* history: commands started after the mark

files   == <<latest, info, result, marked>>
docker  == <<box, execs>>
portalVars == <<portal, outcome>>
bounds  == <<views, faults>>
vars == <<task, files, docker, handler, conn, abort, portalVars, bounds, afterMark>>

NoHandler == [pc |-> "off", step |-> 1, cid |-> FALSE, exec |-> 1, reply |-> "none"]
NoConn == [kind |-> "off", step |-> 1, exec |-> 1, main |-> "idle", send |-> "first",
           wait |-> "poll", seen |-> "none", got |-> "none"]

NSteps == task.steps
Hidden == NSteps + 1
Steps == 1..Hidden

(* Before the first step: an absent latest file reads as the first step.    *)
Init ==
    /\ task \in Tasks
    /\ latest = 1 /\ marked = FALSE
    /\ info = [k \in Steps |-> 0] /\ result = [k \in Steps |-> "none"]
    /\ box = "none" /\ execs = << >>
    /\ handler = [h \in Handlers |-> NoHandler]
    /\ conn = [c \in Conns |-> NoConn]
    /\ abort = [pc |-> "idle", step |-> 1]
    /\ portal = [phase |-> "send", step |-> 1, cid |-> FALSE, req |-> FALSE, tries |-> 0]
    /\ outcome = [k \in Steps |-> "none"]
    /\ views = 0 /\ faults = 0
    /\ afterMark = 0

Fault == faults < task.faults /\ faults' = faults + 1
Free(s, used) == used[s] = "off" /\ \A t \in DOMAIN used : t < s => used[t] # "off"

-----------------------------------------------------------------------------
(* The container engine.                                                    *)

RunningExecs == {e \in DOMAIN execs : execs[e].state = "running"}

(* late: it ended well, after the task was marked aborted.                  *)
Exit(e, s) == [execs[e] EXCEPT !.state = s, !.stopping = FALSE, !.late = marked /\ s = "ok"]

ExecEnds(e) ==
    /\ execs[e].state = "running"
    /\ \E s \in Ended :
         /\ s = "violated" => execs[e].step \in task.scans
         /\ execs' = [execs EXCEPT ![e] = Exit(e, s)]
    /\ UNCHANGED <<task, files, box, handler, conn, abort, portalVars, bounds, afterMark>>

(* The loop of kill and kill -9 that StopCommand leaves behind.             *)
Killed(e) ==
    /\ execs[e].stopping /\ execs[e].state = "running"
    /\ execs' = [execs EXCEPT ![e] = Exit(e, "bad")]
    /\ UNCHANGED <<task, files, box, handler, conn, abort, portalVars, bounds, afterMark>>

(* The deadline of a step passes, whether its command runs or has ended; it *)
(* matters once somebody waits.                                             *)
Overdue(e) ==
    /\ ~execs[e].overdue
    /\ \E c \in Conns : conn[c].kind # "off" /\ conn[c].wait = "poll" /\ conn[c].exec = e
    /\ execs' = [execs EXCEPT ![e].overdue = TRUE]
    /\ UNCHANGED <<task, files, box, handler, conn, abort, portalVars, bounds, afterMark>>

StopCommand(e) ==
    execs' = [execs EXCEPT ![e].stopping = @ \/ (box = "up" /\ execs[e].state = "running")]

-----------------------------------------------------------------------------
(* The portal: the steps in order, then the container.                      *)

(* The requests of a step carry the container id the row of the task has    *)
(* when the step begins (req), those that try the step again too.           *)
Begin(p, k) == [p EXCEPT !.phase = "send", !.step = k, !.req = p.cid, !.tries = 0]

Tolerated(k) == k \in task.scans /\ ~task.stopOnViolation

(* Where the portal goes when a step has ended so.                          *)
After(p, k, how) ==
    IF (how = "complete" \/ Tolerated(k)) /\ k < NSteps THEN Begin(p, k + 1)
    ELSE IF task.collect /\ k # Hidden THEN Begin(p, Hidden)
    ELSE [p EXCEPT !.phase = "stop"]

StepOver(how) ==
    /\ outcome' = [outcome EXCEPT ![portal.step] = how]
    /\ portal' = After(portal, portal.step, how)

(* The hidden step has no retries of its own.                               *)
CanRetry == task.retryAble /\ portal.step # Hidden /\ portal.tries < task.retries

(* waitTaskStepDone: a step that failed or timed out is pending again while *)
(* retries are left; violations are a failure that is not tried again.      *)
Settle(how) ==
    IF how \in {"failed", "timeout"} /\ CanRetry
    THEN portal' = [portal EXCEPT !.phase = "send", !.tries = @ + 1] /\ UNCHANGED outcome
    ELSE StepOver(IF how = "violated" THEN "failed" ELSE how)

(* StartTaskStep: the request.                                              *)
SendRun(h) ==
    /\ portal.phase = "send" /\ Free(h, [g \in Handlers |-> handler[g].pc])
    /\ handler' = [handler EXCEPT ![h] = [NoHandler EXCEPT !.pc = "start",
                                !.step = portal.step, !.cid = portal.req]]
    /\ portal' = [portal EXCEPT !.phase = "await"]
    /\ UNCHANGED <<task, files, docker, conn, abort, outcome, bounds, afterMark>>

(* The request a handler serves is the one the portal waits for: one it has *)
(* given up is marked so.                                                   *)
Answer(h) ==
    /\ handler[h].pc = "reply"
    /\ CASE handler[h].reply = "started" ->
              portal' = [portal EXCEPT !.phase = "watch", !.cid = TRUE] /\ UNCHANGED outcome
         [] handler[h].reply = "aborted" -> StepOver("aborted")
         [] handler[h].reply = "error"   -> StepOver("failed")
         [] handler[h].reply = "dropped" -> UNCHANGED portalVars
    /\ handler' = [handler EXCEPT ![h] = NoHandler]
    /\ UNCHANGED <<task, files, docker, conn, abort, bounds, afterMark>>

Served == {h \in Handlers : handler[h].pc # "off" /\ handler[h].reply # "dropped"}

(* The portal hears nothing: it asks again, which its count of retries does *)
(* not see, or waits for a step that it does not know to have started; a    *)
(* task without retries fails.                                              *)
NoAnswer ==
    IF CanRetry
    THEN portal' = [portal EXCEPT !.phase = "send"] /\ UNCHANGED outcome
    ELSE IF task.retryAble
    THEN portal' = [portal EXCEPT !.phase = "watch"] /\ UNCHANGED outcome
    ELSE StepOver("failed")

LoseAnswer ==
    /\ portal.phase = "await" /\ Fault
    /\ NoAnswer
    /\ handler' = [h \in Handlers |->
                     IF h \in Served THEN [handler[h] EXCEPT !.reply = "dropped"] ELSE handler[h]]
    /\ UNCHANGED <<task, files, docker, conn, abort, views, afterMark>>

Watching == {c \in Conns : conn[c].kind = "status"}

(* Variant: a file that another connection is about to fill is given up.    *)
GiveUpSoon ==
    /\ portal.phase = "watch" /\ Watching = {}
    /\ result[portal.step] = "empty"
    /\ StepOver("failed")
    /\ UNCHANGED <<task, files, docker, handler, conn, abort, bounds, afterMark>>

(* The connections are tried ten times, five seconds apart: longer than any *)
(* file takes to be written, so only what does not mend is given up.        *)
GiveUp ==
    /\ portal.phase = "watch" /\ Watching = {}
    /\ result[portal.step] = "empty"
    /\ \A c \in Conns : conn[c].step = portal.step => conn[c].wait # "fill"
    /\ StepOver("failed")
    /\ UNCHANGED <<task, files, docker, handler, conn, abort, bounds, afterMark>>

(* Variant: an aborted task is left to its abort.                           *)
StopTaskUnlessAborted ==
    /\ portal.phase = "stop"
    /\ portal' = [portal EXCEPT !.phase = "over"]
    /\ IF portal.cid /\ ~marked
       THEN /\ box' = "gone"
            /\ execs' = [e \in DOMAIN execs |->
                           IF execs[e].state = "running" THEN Exit(e, "bad") ELSE execs[e]]
       ELSE UNCHANGED docker
    /\ UNCHANGED <<task, files, handler, conn, abort, outcome, bounds, afterMark>>

(* StopTaskContainers, with the container id the portal knows.              *)
StopTask ==
    /\ portal.phase = "stop"
    /\ portal' = [portal EXCEPT !.phase = "over"]
    /\ IF portal.cid
       THEN /\ box' = "gone"
            /\ execs' = [e \in DOMAIN execs |->
                           IF execs[e].state = "running"
                           THEN Exit(e, "bad") ELSE execs[e]]
       ELSE UNCHANGED docker
    /\ UNCHANGED <<task, files, handler, conn, abort, outcome, bounds, afterMark>>

-----------------------------------------------------------------------------
(* RunTask: the container, the mark, the command, the two info files.       *)

RunStep(h, label) ==
    handler' = [handler EXCEPT ![h].pc = label]
Reply(h, what) ==
    handler' = [handler EXCEPT ![h].pc = "reply",
                               ![h].reply = IF @ = "dropped" THEN @ ELSE what]

(* Task.start: the result of an earlier attempt is removed before the       *)
(* container is created, whose name is the id of the task.                  *)
RunStart(h) ==
    /\ handler[h].pc = "start"
    /\ IF handler[h].cid
       THEN RunStep(h, "check") /\ UNCHANGED <<box, result>>
       ELSE /\ result' = [result EXCEPT ![handler[h].step] = "none"]
            /\ IF box = "none" THEN box' = "up" /\ RunStep(h, "check")
                               ELSE UNCHANGED box /\ Reply(h, "error")
    /\ UNCHANGED <<task, latest, info, marked, execs, conn, abort, portalVars, bounds, afterMark>>

(* Variant: the mark is not looked at.                                      *)
RunCheckNothing(h) ==
    /\ handler[h].pc = "check"
    /\ RunStep(h, "exec")
    /\ UNCHANGED <<task, files, docker, conn, abort, portalVars, bounds, afterMark>>

RunCheck(h) ==
    /\ handler[h].pc = "check"
    /\ IF marked /\ handler[h].step # Hidden THEN Reply(h, "aborted") ELSE RunStep(h, "exec")
    /\ UNCHANGED <<task, files, docker, conn, abort, portalVars, bounds, afterMark>>

RunExec(h) ==
    /\ handler[h].pc = "exec"
    /\ IF box = "up"
       THEN /\ execs' = Append(execs, [step |-> handler[h].step, state |-> "running",
                                       stopping |-> FALSE, overdue |-> FALSE, late |-> FALSE])
            /\ afterMark' = IF marked /\ handler[h].step # Hidden THEN afterMark + 1 ELSE afterMark
            /\ handler' = [handler EXCEPT ![h].pc = "latest", ![h].exec = Len(execs) + 1]
       ELSE Reply(h, "error") /\ UNCHANGED <<execs, afterMark>>
    /\ UNCHANGED <<task, files, box, conn, abort, portalVars, bounds>>

RunLatest(h) ==
    /\ handler[h].pc = "latest"
    /\ latest' = handler[h].step
    /\ RunStep(h, "info")
    /\ UNCHANGED <<task, info, result, marked, docker, conn, abort, portalVars, bounds, afterMark>>

RunInfo(h) ==
    /\ handler[h].pc = "info"
    /\ info' = [info EXCEPT ![handler[h].step] = handler[h].exec]
    /\ Reply(h, "started")
    /\ UNCHANGED <<task, latest, result, marked, docker, conn, abort, portalVars, bounds, afterMark>>

Run(h) == RunStart(h) \/ RunCheck(h) \/ RunExec(h) \/ RunLatest(h) \/ RunInfo(h)

-----------------------------------------------------------------------------
(* Connections: a goroutine that waits for the command (StartedTask.Wait)   *)
(* and, for the portal's, one that sends the status.                        *)

(* LoadStartedTask, and the first thing Wait does: a result that is there   *)
(* is the end of it.                                                        *)
Open(kind, k) ==
    [NoConn EXCEPT !.kind = kind, !.step = k, !.exec = info[k],
        !.wait = CASE result[k] = "none"  -> "poll"
                   [] result[k] = "empty" -> "error"
                   [] OTHER               -> "ended"]

(* pullTaskStepStatus: connect, and again after a connection that closed    *)
(* without a verdict; a step without info file has failed.                  *)
Connect(c) ==
    /\ portal.phase = "watch" /\ Watching = {} /\ Free(c, [d \in Conns |-> conn[d].kind])
    /\ IF info[portal.step] = 0
       THEN Settle("failed") /\ UNCHANGED conn
       ELSE /\ conn' = [conn EXCEPT ![c] = [Open("status", portal.step) EXCEPT !.main = "status"]]
            /\ UNCHANGED portalVars
    /\ UNCHANGED <<task, files, docker, handler, abort, bounds, afterMark>>

(* TaskLogFollow: the log ends when the wait does.                          *)
View(c, k) ==
    /\ views < task.views /\ Free(c, [d \in Conns |-> conn[d].kind]) /\ info[k] # 0
    /\ views' = views + 1
    /\ conn' = [conn EXCEPT ![c] = Open("log", k)]
    /\ UNCHANGED <<task, files, docker, handler, abort, portalVars, faults, afterMark>>

WaitStep(c, label) == conn' = [conn EXCEPT ![c].wait = label]

(* Status: the result file if there is one, else the command's own state;   *)
(* an empty file is an error, and so is a command whose container is gone.  *)
Status(k, e) == CASE result[k] # "none" -> result[k]
                  [] box = "gone"       -> "empty"
                  [] OTHER              -> execs[e].state

(* The command has ended: its status is asked for once more and recorded,   *)
(* if it can be had.                                                        *)
WaitRecords(c, status) ==
    conn' = [conn EXCEPT ![c].got = status,
                         ![c].wait = IF status = "empty" THEN "ended" ELSE "truncate"]

(* Variant: the wait has no deadline.                                       *)
WaitPollForever(c) ==
    LET e == conn[c].exec IN
    /\ conn[c].kind # "off" /\ conn[c].wait = "poll"
    /\ IF conn[c].kind = "closed" THEN WaitStep(c, "error")
       ELSE \/ box # "up" /\ WaitStep(c, "error")
            \/ box = "up" /\ execs[e].state # "running"
               /\ WaitRecords(c, Status(conn[c].step, e))
    /\ UNCHANGED <<task, files, docker, handler, abort, portalVars, bounds, afterMark>>

(* WaitCommandWithDeadline: the context, the container and the command are  *)
(* looked at in this order, once a second.                                  *)
WaitPoll(c) ==
    LET e == conn[c].exec IN
    /\ conn[c].kind # "off" /\ conn[c].wait = "poll"
    /\ IF conn[c].kind = "closed"
       THEN WaitStep(c, "error") /\ UNCHANGED execs
       ELSE IF execs[e].overdue
       THEN WaitStep(c, "late") /\ StopCommand(e)
       ELSE /\ \/ box # "up" /\ WaitStep(c, "error")
               \/ box = "up" /\ execs[e].state # "running"
                  /\ WaitRecords(c, Status(conn[c].step, e))
            /\ UNCHANGED execs
    /\ UNCHANGED <<task, files, box, handler, abort, portalVars, bounds, afterMark>>

(* writeContainerInfo empties the file, then fills it, to no effect when it *)
(* was removed in between; its lock belongs to the connection.              *)
WaitWrite(c) ==
    /\ \/ /\ conn[c].wait = "truncate"
          /\ result' = [result EXCEPT ![conn[c].step] = "empty"]
          /\ WaitStep(c, "fill")
       \/ /\ conn[c].wait = "fill"
          /\ result' = [result EXCEPT ![conn[c].step] = IF @ = "none" THEN @ ELSE conn[c].got]
          /\ WaitStep(c, "ended")
    /\ UNCHANGED <<task, latest, info, marked, docker, handler, abort, portalVars, bounds, afterMark>>

WaitOver == {"ended", "late", "error"}

(* A connection without reader is gone when its wait is over.               *)
WaitReturns(c) ==
    /\ conn[c].kind \in {"log", "closed"} /\ conn[c].wait \in WaitOver
    /\ conn' = [conn EXCEPT ![c] = NoConn]
    /\ UNCHANGED <<task, files, docker, handler, abort, portalVars, bounds, afterMark>>

Wait(c) == WaitPoll(c) \/ WaitWrite(c) \/ WaitReturns(c)

(* The context of a closed connection is cancelled; its wait goes on to its *)
(* next look at it.                                                         *)
Closed(c) == [conn EXCEPT ![c].kind = "closed", ![c].main = "idle",
                            ![c].send = "first", ![c].seen = "none"]

(* The portal takes the first message that says the step is over.           *)
Report(c, how) == Settle(how) /\ conn' = Closed(c)

(* doSendTaskStatus: the status first ...                                   *)
SendStatus(c) ==
    /\ conn[c].main = "status"
    /\ LET status == Status(conn[c].step, conn[c].exec) IN
       conn' = IF status # "empty"
               THEN [conn EXCEPT ![c].main = "mark", ![c].seen = status]
               ELSE IF conn[c].send = "beat"
               THEN [conn EXCEPT ![c].main = "idle"] ELSE Closed(c)
    /\ UNCHANGED <<task, files, docker, handler, abort, portalVars, bounds, afterMark>>

Verdict(c) == CASE conn[c].seen = "bad"      -> "failed"
                [] conn[c].seen = "violated" -> "violated"
                [] OTHER                     -> "complete"

(* Variant: a status that is not final is taken for the end of the step.    *)
SendMarkAny(c) ==
    /\ conn[c].main = "mark"
    /\ IF marked /\ conn[c].step # Hidden THEN Report(c, "aborted")
       ELSE Report(c, Verdict(c))
    /\ UNCHANGED <<task, files, docker, handler, abort, bounds, afterMark>>

(* ... then the mark, which says more than the status.                      *)
SendMark(c) ==
    /\ conn[c].main = "mark"
    /\ IF marked /\ conn[c].step # Hidden THEN Report(c, "aborted")
       ELSE IF conn[c].seen \in Ended THEN Report(c, Verdict(c))
       ELSE /\ conn' = IF conn[c].send = "final" THEN Closed(c)
                       ELSE [conn EXCEPT ![c].main = "idle", ![c].send = "beat", ![c].seen = "none"]
            /\ UNCHANGED portalVars
    /\ UNCHANGED <<task, files, docker, handler, abort, bounds, afterMark>>

Heartbeat(c) ==
    /\ conn[c].kind = "status" /\ conn[c].main = "idle" /\ conn[c].wait \notin WaitOver
    /\ conn' = [conn EXCEPT ![c].main = "status", ![c].send = "beat"]
    /\ UNCHANGED <<task, files, docker, handler, abort, portalVars, bounds, afterMark>>

(* The wait is over: the last status, or that the deadline has passed.      *)
SendFinal(c) ==
    /\ conn[c].kind = "status" /\ conn[c].main = "idle" /\ conn[c].wait \in WaitOver
    /\ CASE conn[c].wait = "ended" ->
              /\ conn' = [conn EXCEPT ![c].main = "status", ![c].send = "final"]
              /\ UNCHANGED portalVars
         [] conn[c].wait = "late"  -> Report(c, "timeout")
         [] conn[c].wait = "error" -> conn' = Closed(c) /\ UNCHANGED portalVars
    /\ UNCHANGED <<task, files, docker, handler, abort, bounds, afterMark>>

Send(c) == SendStatus(c) \/ SendMark(c) \/ SendFinal(c)

(* The portal's own deadline is twice the runner's and counts from the first*)
(* attempt: it passes before the runner's only when time went into retries  *)
(* or losses.  It closes the connection, which stops no command.            *)
PortalLate(c) ==
    /\ conn[c].kind = "status" /\ (portal.tries > 0 \/ faults > 0)
    /\ Report(c, "timeout")
    /\ UNCHANGED <<task, files, docker, handler, abort, bounds, afterMark>>

LoseConnection(c) ==
    /\ conn[c].kind = "status" /\ Fault
    /\ conn' = Closed(c)
    /\ UNCHANGED <<task, files, docker, handler, abort, portalVars, views, afterMark>>

-----------------------------------------------------------------------------
(* AbortTask: the latest step, the mark, the info of that step, the command.*)

AbortRead ==
    /\ abort.pc = "idle" /\ task.aborts
    /\ abort' = IF latest = Hidden \/ marked THEN [abort EXCEPT !.pc = "done"]
                ELSE [pc |-> "mark", step |-> latest]
    /\ UNCHANGED <<task, files, docker, handler, conn, portalVars, bounds, afterMark>>

AbortMark ==
    /\ abort.pc = "mark"
    /\ marked' = TRUE
    /\ abort' = [abort EXCEPT !.pc = "load"]
    /\ UNCHANGED <<task, latest, info, result, docker, handler, conn, portalVars, bounds, afterMark>>

(* A step without info has not started, as far as this request can tell.    *)
AbortStop ==
    /\ abort.pc = "load"
    /\ abort' = [abort EXCEPT !.pc = "done"]
    /\ IF info[abort.step] = 0 \/ box # "up" THEN UNCHANGED execs
       ELSE StopCommand(info[abort.step])
    /\ UNCHANGED <<task, files, box, handler, conn, portalVars, bounds, afterMark>>

Abort == AbortMark \/ AbortStop

-----------------------------------------------------------------------------
(* The runner dies and starts again: its goroutines are gone, the container *)
(* and the files are not.                                                   *)
Die ==
    /\ Fault
    /\ handler' = [h \in Handlers |-> NoHandler]
    /\ conn' = [c \in Conns |-> NoConn]
    /\ abort' = IF abort.pc = "idle" THEN abort ELSE [abort EXCEPT !.pc = "done"]
    /\ IF portal.phase = "await" THEN NoAnswer ELSE UNCHANGED portalVars
    /\ UNCHANGED <<task, files, docker, views, afterMark>>

Portal == (\E h \in Handlers : SendRun(h) \/ Answer(h))
          \/ (\E c \in Conns : Connect(c)) \/ GiveUp \/ StopTask

Next ==
    \/ \E e \in DOMAIN execs : ExecEnds(e) \/ Killed(e) \/ Overdue(e)
    \/ Portal \/ LoseAnswer
    \/ \E h \in Handlers : Run(h)
    \/ \E c \in Conns : \/ Wait(c) \/ Send(c) \/ Heartbeat(c) \/ PortalLate(c) \/ LoseConnection(c)
                       \/ \E k \in Steps : View(c, k)
    \/ AbortRead \/ Abort
    \/ Die

Spec == Init /\ [][Next]_vars

(* Goroutines and the portal go on, the tenth try is the last, kill -9      *)
(* kills, the deadline comes; that a command ends by itself is not assumed. *)
Commands == 1..6
FairSpec ==
    /\ Spec
    /\ WF_vars(Portal) /\ SF_vars(GiveUp) /\ WF_vars(Abort)
    /\ \A h \in Handlers : WF_vars(Run(h))
    /\ \A c \in Conns : WF_vars(Wait(c)) /\ WF_vars(Send(c))
    /\ \A e \in Commands :
         /\ WF_vars(e \in DOMAIN execs /\ Killed(e))
         /\ WF_vars(e \in DOMAIN execs /\ Overdue(e))

-----------------------------------------------------------------------------
(* Properties.                                                              *)

TypeOK ==
    /\ task \in Tasks
    /\ latest \in Steps /\ marked \in BOOLEAN
    /\ info \in [Steps -> Nat] /\ \A k \in Steps : info[k] <= Len(execs)
    /\ result \in [Steps -> {"none", "empty"} \cup Ended]
    /\ box \in {"none", "up", "gone"}
    /\ execs \in Seq([step : Steps, state : {"running"} \cup Ended, stopping : BOOLEAN,
                      overdue : BOOLEAN, late : BOOLEAN])
    /\ handler \in [Handlers ->
         [pc : {"off", "start", "check", "exec", "latest", "info", "reply"}, step : Steps,
          cid : BOOLEAN, exec : Nat, reply : {"none", "started", "aborted", "error", "dropped"}]]
    /\ conn \in [Conns ->
         [kind : {"off", "status", "log", "closed"}, step : Steps, exec : Nat,
          main : {"idle", "status", "mark"}, send : {"first", "beat", "final"},
          wait : {"poll", "truncate", "fill"} \cup WaitOver,
          seen : {"none", "running"} \cup Ended, got : {"none", "running", "empty"} \cup Ended]]
    /\ abort \in [pc : {"idle", "mark", "load", "done"}, step : Steps]
    /\ portal \in [phase : {"send", "await", "watch", "stop", "over"}, step : Steps,
                   cid : BOOLEAN, req : BOOLEAN, tries : 0..task.retries]
    /\ outcome \in [Steps -> {"none"} \cup Outcomes]
    /\ views \in Nat /\ faults \in Nat /\ afterMark \in Nat
    /\ Cardinality(Watching) <= 1

(* No answer and no connection was lost, and the runner did not die.        *)
Undisturbed == faults = 0

(* An attempt after the first of its step.                                  *)
Again(e) == \E f \in 1..(e - 1) : execs[f].step = execs[e].step

(* One command of a task at a time: apart from those being stopped, two run *)
(* together only after a loss, when the task was aborted, or when a step was*)
(* tried again, whose later attempts the portal may not wait for.           *)
OneCommand ==
    Undisturbed /\ ~marked =>
        Cardinality({e \in RunningExecs : ~execs[e].stopping /\ ~Again(e)}) <= 1

(* A step that the portal records as complete has a command that ended well,*)
(* and ended before the task was marked aborted: an abort is never missed   *)
(* because the status was sent at the same time.                            *)
CompleteIsTrue ==
    \A k \in Steps : outcome[k] = "complete" /\ Undisturbed =>
        \E e \in DOMAIN execs : /\ execs[e].step = k /\ execs[e].state = "ok"
                                /\ k # Hidden => ~execs[e].late

(* Once the task is marked, at most the command whose request had already   *)
(* passed the check is started; each loss may leave one more such request.  *)
AbortStopsStarts == afterMark <= 1 + faults

(* What is said of a step is true: its result file says how one of its      *)
(* attempts ended, whichever of the connections wrote it, and is empty only *)
(* while one is writing; and unless the task is aborted the portal records a*)
(* step as failed only when one of its attempts failed or passed its        *)
(* deadline: a half-written file or a request turned away is not enough.    *)
ResultIsTrue ==
    /\ \A k \in Steps : result[k] \in Ended =>
         \E e \in DOMAIN execs : execs[e].step = k /\ execs[e].state = result[k]
    /\ Undisturbed => \A k \in Steps :
         /\ result[k] = "empty" => \E c \in Conns : conn[c].step = k /\ conn[c].wait = "fill"
         /\ outcome[k] = "failed" /\ ~marked =>
              \E e \in DOMAIN execs : /\ execs[e].step = k
                                      /\ execs[e].state \in {"bad", "violated"} \/ execs[e].overdue

(* A retry is a new attempt: a step that the portal records as failed, with *)
(* nothing lost and nobody aborting it, has no attempt that still runs.  The*)
(* comment of Task.start says so; the code fails it.                        *)
RetryIsHeard ==
    Undisturbed /\ ~marked => \A e \in RunningExecs :
        outcome[execs[e].step] = "failed" => execs[e].stopping

(* The portal ends every task, whatever its commands do and whatever is     *)
(* lost, because each step has a deadline and each deadline a reader.       *)
TaskEnds == <>(portal.phase = "over")

(* And nothing of the task is left running, unless a loss has hidden a      *)
(* container from the portal.                                               *)
NothingLeft == <>[](RunningExecs = {} \/ ~Undisturbed)
=============================================================================
