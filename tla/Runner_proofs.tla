---------------------------- MODULE Runner_proofs ----------------------------
(***************************************************************************)
(* Theorems of Runner, for any tasks, with retries and without, and any    *)
(* request and connection slots: an abort lets at most one more command    *)
(* start, and one for each loss; a result file says how an attempt of its  *)
(* step ended; and while nothing is lost, one step runs at a time and what *)
(* is said of a step is true.                                              *)
(***************************************************************************)
EXTENDS Runner, SequenceTheorems, FiniteSetTheorems, TLAPS

USE RunnerAssumption

-----------------------------------------------------------------------------
(* Types.                                                                   *)
States == {"running"} \cup Ended
Results == {"none", "empty"} \cup Ended
ExecRow == [step : Steps, state : States, stopping : BOOLEAN, overdue : BOOLEAN, late : BOOLEAN]
HandlerPcs == {"off", "start", "check", "exec", "latest", "info", "reply"}
Replies == {"none", "started", "aborted", "error", "dropped"}
HandlerRow == [pc : HandlerPcs, step : Steps, cid : BOOLEAN, exec : Nat, reply : Replies]
Kinds == {"off", "status", "log", "closed"}
Mains == {"idle", "status", "mark"}
Sends == {"first", "beat", "final"}
Waits == {"poll", "truncate", "fill"} \cup WaitOver
Seen == {"none", "running"} \cup Ended
Gots == {"none", "running", "empty"} \cup Ended
ConnRow == [kind : Kinds, step : Steps, exec : Nat, main : Mains, send : Sends,
            wait : Waits, seen : Seen, got : Gots]
PortalRow == [phase : {"send", "await", "watch", "stop", "over"}, step : Steps,
              cid : BOOLEAN, req : BOOLEAN, tries : 0..task.retries]
AbortRow == [pc : {"idle", "mark", "load", "done"}, step : Steps]
Known == DOMAIN execs

FilesTyped ==
    /\ latest \in Steps /\ marked \in BOOLEAN
    /\ info \in [Steps -> Nat] /\ \A k \in Steps : info[k] # 0 => info[k] \in Known
    /\ result \in [Steps -> Results]

DockerTyped == box \in {"none", "up", "gone"} /\ execs \in Seq(ExecRow)

HandlerTyped ==
    /\ handler \in [Handlers -> HandlerRow]
    /\ \A h \in Handlers : /\ handler[h].pc \in {"latest", "info"} => handler[h].exec \in Known
                           /\ handler[h].pc = "reply" => handler[h].reply # "none"

(* A wait that writes has a verdict to write.                               *)
Sound(r) ==
    /\ IF r.kind = "off" THEN r = NoConn ELSE r.exec \in Known
    /\ r.wait \in {"truncate", "fill"} => r.got \in Ended

ConnTyped == conn \in [Conns -> ConnRow] /\ \A c \in Conns : Sound(conn[c])

PortalTyped ==
    /\ portal \in PortalRow /\ outcome \in [Steps -> {"none"} \cup Outcomes]
    /\ abort \in AbortRow

Typed ==
    /\ task \in Tasks
    /\ FilesTyped /\ DockerTyped /\ HandlerTyped /\ ConnTyped /\ PortalTyped
    /\ views \in Nat /\ faults \in Nat /\ afterMark \in Nat

(* The steps of the task.                                                   *)
LEMMA StepFacts ==
  ASSUME task \in Tasks
  PROVE  /\ NSteps \in Nat /\ Hidden \in Nat /\ NSteps >= 1 /\ Hidden = NSteps + 1
         /\ Steps = 1..Hidden /\ 1 \in Steps /\ Hidden \in Steps /\ Steps \subseteq Nat
         /\ \A k \in Steps : k < NSteps => k + 1 \in Steps
<1>1. NSteps \in Nat \ {0}
  BY DEF NSteps
<1> QED BY <1>1 DEF Hidden, Steps

LEMMA SameTask ==
  ASSUME UNCHANGED task
  PROVE  /\ NSteps' = NSteps /\ Hidden' = Hidden /\ Steps' = Steps
         /\ ExecRow' = ExecRow /\ HandlerRow' = HandlerRow /\ ConnRow' = ConnRow
         /\ PortalRow' = PortalRow /\ AbortRow' = AbortRow /\ task' = task
<1>1. NSteps' = NSteps /\ Hidden' = Hidden /\ Steps' = Steps
  BY DEF NSteps, Hidden, Steps
<1> QED BY <1>1, Zenon DEF ExecRow, HandlerRow, ConnRow, PortalRow, AbortRow

LEMMA ExecFacts ==
  ASSUME DockerTyped
  PROVE  /\ Known = 1..Len(execs) /\ Len(execs) \in Nat
         /\ \A e \in Known : execs[e] \in ExecRow
<1> HIDE DEF ExecRow
<1> QED BY LenProperties DEF DockerTyped, Known

LEMMA Rows ==
  ASSUME task \in Tasks
  PROVE  NoHandler \in HandlerRow /\ NoConn \in ConnRow
<1>1. 1 \in Steps
  BY StepFacts
<1> QED BY <1>1 DEF NoHandler, HandlerRow, HandlerPcs, Replies, NoConn, ConnRow, Kinds, Mains, Sends,
                    Waits, WaitOver, Seen, Gots, Ended

LEMMA TypedInit == Init => Typed
<1> SUFFICES ASSUME Init PROVE Typed
  OBVIOUS
<1>1. task \in Tasks
  BY Zenon DEF Init
<1>2. /\ 1 \in Steps /\ NoHandler \in HandlerRow /\ NoConn \in ConnRow
  BY <1>1, StepFacts, Rows
<1>3. execs = <<>> /\ Known = {}
  BY DEF Init, Known
<1>4. FilesTyped
  <2>1. latest = 1 /\ marked = FALSE /\ info = [k \in Steps |-> 0] /\ result = [k \in Steps |-> "none"]
    BY DEF Init
  <2>2. marked \in BOOLEAN
    BY <2>1, Zenon
  <2> QED BY <1>2, <2>1, <2>2 DEF FilesTyped, Results
<1>5. DockerTyped
  BY <1>3, EmptySeq DEF Init, DockerTyped
<1>6. HandlerTyped
  <2>1. handler = [h \in Handlers |-> NoHandler] /\ NoHandler.pc = "off"
    BY DEF Init, NoHandler
  <2> HIDE DEF HandlerRow, NoHandler
  <2> QED BY <1>2, <2>1 DEF HandlerTyped
<1>7. ConnTyped
  <2>1. conn = [c \in Conns |-> NoConn] /\ NoConn.kind = "off" /\ NoConn.wait = "poll"
    BY DEF Init, NoConn
  <2> HIDE DEF ConnRow, NoConn
  <2> QED BY <1>2, <2>1 DEF ConnTyped, Sound
<1>8. PortalTyped
  <2>1. 0 \in 0..task.retries
    BY <1>1
  <2>2. portal \in PortalRow
    BY <1>2, <2>1 DEF Init, PortalRow
  <2> QED BY <1>2, <2>2 DEF Init, PortalTyped, AbortRow
<1> QED BY <1>1, <1>4, <1>5, <1>6, <1>7, <1>8 DEF Typed, Init

(* What stays typed when the commands known only grow.                      *)
LEMMA Stays ==
  ASSUME Typed, UNCHANGED task, Known \subseteq Known'
  PROVE  /\ UNCHANGED files => FilesTyped'
         /\ UNCHANGED handler => HandlerTyped'
         /\ UNCHANGED conn => ConnTyped'
         /\ UNCHANGED <<portalVars, abort>> => PortalTyped'
         /\ UNCHANGED docker => DockerTyped'
<1>1. /\ Steps' = Steps /\ ExecRow' = ExecRow /\ HandlerRow' = HandlerRow /\ ConnRow' = ConnRow
      /\ PortalRow' = PortalRow /\ AbortRow' = AbortRow
  BY SameTask
<1>2. UNCHANGED files => FilesTyped'
  <2>1. FilesTyped
    BY DEF Typed
  <2> SUFFICES ASSUME latest' = latest, info' = info, result' = result, marked' = marked
               PROVE  FilesTyped'
    BY DEF files
  <2>2. marked' \in BOOLEAN
    BY <2>1, Zenon DEF FilesTyped
  <2> QED BY <1>1, <2>1, <2>2 DEF FilesTyped
<1>3. UNCHANGED handler => HandlerTyped'
  BY <1>1, Zenon DEF Typed, HandlerTyped
<1>4. UNCHANGED conn => ConnTyped'
  BY <1>1 DEF Typed, ConnTyped, Sound
<1>5. UNCHANGED <<portalVars, abort>> => PortalTyped'
  BY <1>1, Zenon DEF Typed, PortalTyped, portalVars
<1>6. UNCHANGED docker => DockerTyped'
  BY <1>1, Zenon DEF Typed, DockerTyped, docker
<1> QED BY <1>2, <1>3, <1>4, <1>5, <1>6

(* One command changes, or one is added.                                    *)
LEMMA ExecSet ==
  ASSUME Typed, UNCHANGED <<task, box>>, NEW e \in Known, NEW r \in ExecRow,
         execs' = [execs EXCEPT ![e] = r]
  PROVE  /\ DockerTyped' /\ Known' = Known /\ execs'[e] = r
         /\ \A f \in Known \ {e} : execs'[f] = execs[f]
<1>1. ExecRow' = ExecRow /\ DockerTyped /\ Known = 1..Len(execs)
  BY SameTask, ExecFacts DEF Typed
<1>2. execs \in Seq(ExecRow)
  BY <1>1 DEF DockerTyped
<1> HIDE DEF ExecRow
<1>3. execs' \in Seq(ExecRow) /\ execs'[e] = r /\ \A f \in Known \ {e} : execs'[f] = execs[f]
  BY <1>1, <1>2, ExceptSeq DEF Known
<1>4. Known' = Known
  BY DEF Known
<1> QED BY <1>1, <1>3, <1>4 DEF DockerTyped

LEMMA ExitRow ==
  ASSUME Typed, NEW e \in Known, NEW s \in Ended
  PROVE  /\ Exit(e, s) \in ExecRow /\ Exit(e, s).step = execs[e].step /\ Exit(e, s).state = s
         /\ Exit(e, s).overdue = execs[e].overdue
         /\ Exit(e, s).late => marked
<1>1. execs[e] \in ExecRow
  BY ExecFacts DEF Typed
<1>2. ASSUME NEW b \in BOOLEAN
      PROVE  LET r == [execs[e] EXCEPT !.state = s, !.stopping = FALSE, !.late = b]
             IN  /\ r \in ExecRow /\ r.step = execs[e].step /\ r.state = s /\ r.late = b
                 /\ r.overdue = execs[e].overdue
  BY <1>1 DEF ExecRow, States, Ended
<1>3. (marked /\ s = "ok") \in BOOLEAN
  BY Zenon
<1> HIDE DEF ExecRow
<1> QED BY <1>2, <1>3, Zenon DEF Exit

(* The commands, and nothing else, change.                                  *)
LEMMA DockerOnly ==
  ASSUME Typed, DockerTyped', Known' = Known,
         UNCHANGED <<task, files, handler, conn, abort, portalVars, bounds, afterMark>>
  PROVE  Typed'
<1>1. FilesTyped' /\ HandlerTyped' /\ ConnTyped' /\ PortalTyped'
  BY Stays, Zenon
<1> QED BY <1>1 DEF Typed, bounds

LEMMA StopRow ==
  ASSUME Typed, NEW e \in Known, StopCommand(e), UNCHANGED <<task, box>>
  PROVE  /\ DockerTyped' /\ Known' = Known
         /\ \A f \in Known : /\ execs'[f].step = execs[f].step /\ execs'[f].state = execs[f].state
                             /\ execs'[f].late = execs[f].late
                             /\ execs'[f].overdue = execs[f].overdue
         /\ \A f \in Known : execs[f].stopping => execs'[f].stopping
         /\ box = "up" /\ execs[e].state = "running" => execs'[e].stopping
<1>1. execs[e] \in ExecRow
  BY ExecFacts DEF Typed
<1> DEFINE b == execs[e].stopping \/ (box = "up" /\ execs[e].state = "running")
           r == [execs[e] EXCEPT !.stopping = b]
<1>2. execs' = [execs EXCEPT ![e] = r]
  BY DEF StopCommand
<1>3. b \in BOOLEAN /\ (execs[e].stopping => b) /\ (box = "up" /\ execs[e].state = "running" => b)
  BY Zenon
<1> HIDE DEF b
<1>4. /\ r \in ExecRow /\ r.step = execs[e].step /\ r.state = execs[e].state /\ r.stopping = b
      /\ r.late = execs[e].late /\ r.overdue = execs[e].overdue
  BY <1>1, <1>3 DEF ExecRow
<1> HIDE DEF r, ExecRow
<1>5. /\ DockerTyped' /\ Known' = Known /\ execs'[e] = r
      /\ \A f \in Known \ {e} : execs'[f] = execs[f]
  BY <1>2, <1>4, ExecSet
<1>6. \A f \in Known : /\ execs'[f].step = execs[f].step /\ execs'[f].state = execs[f].state
                       /\ execs'[f].late = execs[f].late
                       /\ execs'[f].overdue = execs[f].overdue
  BY <1>4, <1>5
<1>7. \A f \in Known : execs[f].stopping => execs'[f].stopping
  BY <1>3, <1>4, <1>5, Zenon
<1>8. box = "up" /\ execs[e].state = "running" => execs'[e].stopping
  BY <1>3, <1>4, <1>5, Zenon
<1> QED BY <1>5, <1>6, <1>7, <1>8

(* What a step of the engine does to the commands: they keep their step,    *)
(* one that has ended stays as it ended, one being stopped stays so or ends,*)
(* one past its deadline stays past it.                                     *)
Grown ==
    /\ Known \subseteq Known'
    /\ \A f \in Known :
         /\ execs'[f].step = execs[f].step
         /\ execs[f].state \in Ended => /\ execs'[f].state = execs[f].state
                                        /\ execs'[f].late => execs[f].late
         /\ execs[f].stopping => execs'[f].stopping \/ execs'[f].state \in Ended
         /\ execs[f].overdue => execs'[f].overdue
         /\ execs'[f].late => execs[f].late \/ marked
Kept == Grown /\ Known' = Known

LEMMA EngineTyped ==
  ASSUME Typed, NEW e \in Known, ExecEnds(e) \/ Killed(e) \/ Overdue(e)
  PROVE  Typed' /\ Kept
<1>1. UNCHANGED <<task, files, box, handler, conn, abort, portalVars, bounds, afterMark>>
  BY Zenon DEF ExecEnds, Killed, Overdue
<1>2. execs[e] \in ExecRow
  BY ExecFacts DEF Typed
<1>3. ASSUME NEW s \in Ended, execs[e].state = "running", execs' = [execs EXCEPT ![e] = Exit(e, s)]
      PROVE  Typed' /\ Kept
  <2> DEFINE r == Exit(e, s)
  <2>1. /\ r \in ExecRow /\ r.step = execs[e].step /\ r.state = s /\ (r.late => marked)
        /\ r.overdue = execs[e].overdue
    BY ExitRow
  <2> HIDE DEF r, ExecRow
  <2>2. /\ DockerTyped' /\ Known' = Known /\ execs'[e] = r
        /\ \A f \in Known \ {e} : execs'[f] = execs[f]
    BY <1>1, <1>3, <2>1, ExecSet DEF r
  <2>3. Kept
    <3>1. execs[e].state \notin Ended
      BY <1>3 DEF Ended
    <3> QED BY <2>1, <2>2, <3>1, Zenon DEF Kept, Grown
  <2> QED BY <1>1, <2>2, <2>3, DockerOnly
<1>4. CASE Overdue(e)
  <2> DEFINE r == [execs[e] EXCEPT !.overdue = TRUE]
  <2>1. /\ r \in ExecRow /\ r.step = execs[e].step /\ r.state = execs[e].state
        /\ r.stopping = execs[e].stopping /\ r.late = execs[e].late /\ r.overdue
    BY <1>2 DEF ExecRow
  <2>2. execs' = [execs EXCEPT ![e] = r]
    BY <1>4 DEF Overdue
  <2> HIDE DEF r, ExecRow
  <2>3. /\ DockerTyped' /\ Known' = Known /\ execs'[e] = r
        /\ \A f \in Known \ {e} : execs'[f] = execs[f]
    BY <1>1, <2>1, <2>2, ExecSet
  <2>4. Kept
    BY <2>1, <2>3, Zenon DEF Kept, Grown
  <2> QED BY <1>1, <2>3, <2>4, DockerOnly
<1>5. "bad" \in Ended
  BY DEF Ended
<1> QED BY <1>3, <1>4, <1>5 DEF ExecEnds, Killed

(* A step is over: the portal goes on to a later one, or stops.             *)
LEMMA OverTyped ==
  ASSUME Typed, UNCHANGED <<task, abort>>, NEW how \in Outcomes, StepOver(how)
  PROVE  /\ PortalTyped' /\ outcome' = [outcome EXCEPT ![portal.step] = how]
         /\ portal'.cid = portal.cid /\ portal.step \in Steps /\ portal'.step \in Steps
         /\ \/ /\ portal'.phase = "send" /\ portal'.step > portal.step
               /\ portal'.tries = 0 /\ portal'.req = portal.cid
            \/ /\ portal'.phase = "stop" /\ portal'.step = portal.step
               /\ portal'.tries = portal.tries /\ portal'.req = portal.req
<1>1. portal \in PortalRow /\ PortalTyped /\ portal.step \in Steps /\ task \in Tasks
  BY DEF Typed, PortalTyped, PortalRow
<1>2. outcome' = [outcome EXCEPT ![portal.step] = how] /\ portal' = After(portal, portal.step, how)
  BY DEF StepOver
<1>3. outcome' \in [Steps -> {"none"} \cup Outcomes]
  BY <1>1, <1>2 DEF PortalTyped
<1> DEFINE k == portal.step
<1>4. 0 \in 0..task.retries /\ portal.cid \in BOOLEAN
  BY <1>1 DEF PortalRow
<1>5. /\ portal' \in PortalRow /\ portal'.cid = portal.cid /\ portal'.step \in Steps
      /\ \/ /\ portal'.phase = "send" /\ portal'.step > portal.step
            /\ portal'.tries = 0 /\ portal'.req = portal.cid
         \/ /\ portal'.phase = "stop" /\ portal'.step = portal.step
            /\ portal'.tries = portal.tries /\ portal'.req = portal.req
  <2>1. CASE portal' = Begin(portal, k + 1) /\ k < NSteps
    <3>1. k + 1 \in Steps /\ k + 1 > k
      BY <1>1, <2>1, StepFacts
    <3> QED BY <1>1, <1>4, <2>1, <3>1 DEF PortalRow, Begin
  <2>2. CASE portal' = Begin(portal, Hidden) /\ k # Hidden
    <3>1. Hidden \in Steps /\ Hidden > k
      BY <1>1, <2>2, StepFacts
    <3> QED BY <1>1, <1>4, <2>2, <3>1 DEF PortalRow, Begin
  <2>3. CASE portal' = [portal EXCEPT !.phase = "stop"]
    BY <1>1, <2>3 DEF PortalRow
  <2> QED BY <1>2, <2>1, <2>2, <2>3 DEF After
<1> QED BY <1>1, <1>2, <1>3, <1>5, SameTask DEF PortalTyped

(* A step that is not over is sent again.                                   *)
Ends == Outcomes \cup {"violated"}
As(how) == IF how = "violated" THEN "failed" ELSE how
Repeats ==
    portal' = [portal EXCEPT !.phase = "send", !.tries = @ + 1] /\ UNCHANGED outcome

LEMMA SettleTyped ==
  ASSUME Typed, UNCHANGED <<task, abort>>, NEW how \in Ends, Settle(how)
  PROVE  /\ PortalTyped' /\ portal'.phase # "await"
         /\ \/ Repeats /\ how \in {"failed", "timeout"}
            \/ As(how) \in Outcomes /\ StepOver(As(how))
<1>1. /\ portal \in PortalRow /\ PortalTyped /\ task \in Tasks
  BY DEF Typed, PortalTyped
<1>2. CASE how \in {"failed", "timeout"} /\ CanRetry
  <2>1. Repeats
    BY <1>2 DEF Settle, Repeats
  <2>2. portal.tries + 1 \in 0..task.retries
    BY <1>1, <1>2 DEF CanRetry, PortalRow
  <2>3. portal' \in PortalRow /\ portal'.phase # "await"
    BY <1>1, <2>1, <2>2 DEF PortalRow, Repeats
  <2> QED BY <1>1, <1>2, <2>1, <2>3, SameTask DEF PortalTyped, Repeats
<1>3. CASE ~(how \in {"failed", "timeout"} /\ CanRetry)
  <2>1. StepOver(As(how)) /\ As(how) \in Outcomes
    BY <1>3 DEF Settle, As, Ends, Outcomes
  <2>2. PortalTyped' /\ portal'.phase # "await"
    <3> DEFINE o == As(how)
    <3>1. o \in Outcomes /\ StepOver(o)
      BY <2>1
    <3> HIDE DEF o
    <3> QED BY <3>1, OverTyped
  <2> QED BY <2>1, <2>2
<1> QED BY <1>2, <1>3

LEMMA NoAnswerTyped ==
  ASSUME Typed, UNCHANGED task, NoAnswer,
         abort' = abort \/ abort' = [abort EXCEPT !.pc = "done"]
  PROVE  /\ PortalTyped' /\ portal'.phase # "await"
<1>1. portal \in PortalRow /\ PortalTyped /\ portal.step \in Steps /\ task \in Tasks
  BY DEF Typed, PortalTyped, PortalRow
<1>2. abort' \in AbortRow
  BY <1>1 DEF PortalTyped, AbortRow
<1>3. CASE UNCHANGED outcome /\ \E p \in {"send", "watch"} : portal' = [portal EXCEPT !.phase = p]
  <2>1. portal' \in PortalRow /\ portal'.phase # "await"
    BY <1>1, <1>3 DEF PortalRow
  <2> QED BY <1>1, <1>2, <1>3, <2>1, SameTask DEF PortalTyped
<1>4. CASE StepOver("failed")
  <2>1. outcome' \in [Steps -> {"none"} \cup Outcomes]
    BY <1>1, <1>4 DEF PortalTyped, StepOver, Outcomes
  <2>2. portal' \in PortalRow /\ portal'.phase # "await"
    <3>1. portal' = After(portal, portal.step, "failed")
      BY <1>4 DEF StepOver
    <3>2. 0 \in 0..task.retries /\ Hidden \in Steps /\ portal.cid \in BOOLEAN
      BY <1>1, StepFacts DEF PortalRow
    <3>3. portal.step < NSteps => portal.step + 1 \in Steps
      BY <1>1, StepFacts
    <3> QED BY <1>1, <3>1, <3>2, <3>3 DEF After, Begin, PortalRow
  <2> QED BY <1>1, <1>2, <2>1, <2>2, SameTask DEF PortalTyped
<1> QED BY <1>3, <1>4 DEF NoAnswer

(* A request handler, or a connection, changes.                             *)
LEMMA HandlerSet ==
  ASSUME Typed, UNCHANGED task, NEW h \in Handlers, NEW r \in HandlerRow,
         Known \subseteq Known', r.pc \in {"latest", "info"} => r.exec \in Known',
         r.pc = "reply" => r.reply # "none",
         handler' = [handler EXCEPT ![h] = r]
  PROVE  HandlerTyped' /\ handler'[h] = r /\ \A g \in Handlers \ {h} : handler'[g] = handler[g]
<1>1. HandlerTyped /\ HandlerRow' = HandlerRow
  BY SameTask DEF Typed
<1> HIDE DEF HandlerRow
<1> QED BY <1>1 DEF HandlerTyped

LEMMA ConnSet ==
  ASSUME Typed, UNCHANGED task, NEW c \in Conns, NEW r \in ConnRow, Known \subseteq Known',
         Sound(r),
         conn' = [conn EXCEPT ![c] = r]
  PROVE  ConnTyped' /\ conn'[c] = r /\ \A d \in Conns \ {c} : conn'[d] = conn[d]
<1>1. ConnTyped /\ ConnRow' = ConnRow
  BY SameTask DEF Typed
<1> HIDE DEF ConnRow, NoConn
<1> QED BY <1>1 DEF ConnTyped, Sound

LEMMA SendRunTyped ==
  ASSUME Typed, NEW h \in Handlers, SendRun(h)
  PROVE  /\ Typed' /\ UNCHANGED docker /\ portal.phase = "send" /\ handler[h].pc = "off"
         /\ handler'[h] = [NoHandler EXCEPT !.pc = "start", !.step = portal.step, !.cid = portal.req]
         /\ \A g \in Handlers \ {h} : handler'[g] = handler[g]
         /\ portal' = [portal EXCEPT !.phase = "await"]
<1>1. /\ UNCHANGED <<task, files, docker, conn, abort, outcome, bounds, afterMark>>
      /\ portal.phase = "send" /\ portal' = [portal EXCEPT !.phase = "await"]
      /\ handler' = [handler EXCEPT ![h] = [NoHandler EXCEPT !.pc = "start",
                                               !.step = portal.step, !.cid = portal.req]]
  BY DEF SendRun
<1>2. handler[h].pc = "off"
  BY DEF SendRun, Free
<1>3. portal \in PortalRow /\ PortalTyped /\ task \in Tasks /\ NoHandler \in HandlerRow
  BY Rows DEF Typed, PortalTyped
<1> DEFINE r == [NoHandler EXCEPT !.pc = "start", !.step = portal.step, !.cid = portal.req]
<1>4. r \in HandlerRow /\ r.pc = "start"
  <2>1. portal.step \in Steps /\ portal.req \in BOOLEAN
    BY <1>3 DEF PortalRow
  <2> QED BY <1>3, <2>1 DEF HandlerRow, HandlerPcs
<1>5. UNCHANGED task /\ Known' = Known
  BY <1>1 DEF Known, docker
<1> HIDE DEF r
<1>6. HandlerTyped' /\ handler'[h] = r /\ \A g \in Handlers \ {h} : handler'[g] = handler[g]
  BY <1>1, <1>4, <1>5, HandlerSet DEF r
<1>7. portal' \in PortalRow
  BY <1>1, <1>3 DEF PortalRow
<1>8. PortalTyped'
  BY <1>1, <1>3, <1>5, <1>7, SameTask DEF PortalTyped
<1>9. FilesTyped' /\ ConnTyped' /\ DockerTyped'
  BY <1>1, <1>5, Stays
<1>10. Typed'
  BY <1>1, <1>6, <1>8, <1>9 DEF Typed, bounds
<1> QED BY <1>1, <1>2, <1>6, <1>10 DEF r

LEMMA AnswerTyped ==
  ASSUME Typed, NEW h \in Handlers, Answer(h)
  PROVE  /\ Typed' /\ UNCHANGED docker /\ handler[h].pc = "reply"
         /\ handler'[h] = NoHandler /\ \A g \in Handlers \ {h} : handler'[g] = handler[g]
<1>1. /\ UNCHANGED <<task, files, docker, conn, abort, bounds, afterMark>>
      /\ handler[h].pc = "reply" /\ handler' = [handler EXCEPT ![h] = NoHandler]
  BY Zenon DEF Answer
<1>2. /\ PortalTyped /\ portal \in PortalRow /\ task \in Tasks /\ NoHandler \in HandlerRow
      /\ NoHandler.pc = "off"
  BY Rows DEF Typed, PortalTyped, NoHandler
<1>3. UNCHANGED task /\ Known' = Known
  BY <1>1 DEF Known, docker
<1>4. HandlerTyped' /\ handler'[h] = NoHandler /\ \A g \in Handlers \ {h} : handler'[g] = handler[g]
  <2> HIDE DEF NoHandler
  <2> QED BY <1>1, <1>2, <1>3, HandlerSet
<1>5. PortalTyped'
  <2>1. handler[h].reply \in {"started", "aborted", "error", "dropped"}
    BY <1>1 DEF Typed, HandlerTyped, HandlerRow, Replies
  <2>2. \/ portal' = [portal EXCEPT !.phase = "watch", !.cid = TRUE] /\ UNCHANGED outcome
        \/ StepOver("aborted") \/ StepOver("failed") \/ UNCHANGED portalVars
    BY <2>1 DEF Answer
  <2>3. CASE portal' = [portal EXCEPT !.phase = "watch", !.cid = TRUE] /\ UNCHANGED outcome
    <3>1. portal' \in PortalRow
      BY <1>2, <2>3 DEF PortalRow
    <3> QED BY <1>1, <1>2, <2>3, <3>1, SameTask DEF PortalTyped
  <2>4. "aborted" \in Outcomes /\ "failed" \in Outcomes
    BY DEF Outcomes
  <2>5. CASE UNCHANGED portalVars
    BY <1>1, <1>3, <2>5, Stays
  <2> QED BY <1>1, <2>2, <2>3, <2>4, <2>5, OverTyped
<1>6. FilesTyped' /\ ConnTyped' /\ DockerTyped'
  BY <1>1, <1>3, Stays
<1>7. Typed'
  BY <1>1, <1>4, <1>5, <1>6 DEF Typed, bounds
<1> QED BY <1>1, <1>4, <1>7

(* A loss is counted.                                                       *)
LEMMA FaultTyped ==
  ASSUME Typed, Fault
  PROVE  faults \in Nat /\ faults' = faults + 1 /\ faults' \in Nat /\ faults' # 0
BY DEF Typed, Fault

LEMMA LoseAnswerTyped ==
  ASSUME Typed, LoseAnswer
  PROVE  /\ Typed' /\ UNCHANGED docker /\ portal.phase = "await" /\ portal'.phase # "await"
         /\ \A h \in Handlers : /\ handler'[h].pc = handler[h].pc
                                /\ handler'[h].step = handler[h].step
                                /\ handler'[h].exec = handler[h].exec
                                /\ handler[h].pc # "off" => handler'[h].reply = "dropped"
<1>1. /\ UNCHANGED <<task, files, docker, conn, abort, views, afterMark>>
      /\ portal.phase = "await" /\ Fault /\ NoAnswer
      /\ handler' = [h \in Handlers |->
                     IF h \in Served THEN [handler[h] EXCEPT !.reply = "dropped"] ELSE handler[h]]
  BY DEF LoseAnswer
<1>2. UNCHANGED task /\ Known' = Known
  BY <1>1 DEF Known, docker
<1>3. HandlerRow' = HandlerRow /\ HandlerTyped
  BY <1>2, SameTask DEF Typed
<1>4. ASSUME NEW h \in Handlers
      PROVE  /\ handler'[h] \in HandlerRow /\ handler'[h].pc = handler[h].pc
             /\ handler'[h].step = handler[h].step /\ handler'[h].exec = handler[h].exec
             /\ handler[h].pc # "off" => handler'[h].reply = "dropped"
             /\ handler'[h].reply = handler[h].reply \/ handler'[h].reply = "dropped"
  <2>1. handler[h] \in HandlerRow
    BY <1>3 DEF HandlerTyped
  <2>2. [handler[h] EXCEPT !.reply = "dropped"] \in HandlerRow
    BY <2>1 DEF HandlerRow, Replies
  <2> QED BY <1>1, <2>1, <2>2 DEF HandlerRow, Served
<1>5. HandlerTyped'
  <2> HIDE DEF HandlerRow
  <2>1. handler' \in [Handlers -> HandlerRow]
    BY <1>1, <1>4
  <2> QED BY <1>2, <1>3, <1>4, <2>1 DEF HandlerTyped
<1>6. PortalTyped' /\ portal'.phase # "await"
  BY <1>1, NoAnswerTyped
<1>7. FilesTyped' /\ ConnTyped' /\ DockerTyped'
  BY <1>1, <1>2, Stays
<1>8. Typed'
  BY <1>1, <1>5, <1>6, <1>7, FaultTyped DEF Typed
<1> QED BY <1>1, <1>4, <1>6, <1>8

LEMMA GiveUpTyped ==
  ASSUME Typed, GiveUp
  PROVE  /\ Typed' /\ Known' = Known
<1>1. /\ UNCHANGED <<task, files, docker, handler, conn, abort, bounds, afterMark>>
      /\ StepOver("failed")
  BY DEF GiveUp
<1>2. UNCHANGED task /\ Known' = Known
  BY <1>1 DEF Known, docker
<1>3. PortalTyped'
  BY <1>1, OverTyped DEF Outcomes
<1>4. FilesTyped' /\ ConnTyped' /\ DockerTyped' /\ HandlerTyped'
  BY <1>1, <1>2, Stays
<1> QED BY <1>1, <1>2, <1>3, <1>4 DEF Typed, bounds

(* The container and what runs in it ends.                                  *)
LEMMA StopTaskTyped ==
  ASSUME Typed, StopTask
  PROVE  /\ Typed' /\ Kept
         /\ portal.cid => box' = "gone" /\ \A e \in Known : execs'[e].state # "running"
         /\ ~portal.cid => UNCHANGED docker
<1>1. /\ UNCHANGED <<task, files, handler, conn, abort, outcome, bounds, afterMark>>
      /\ portal' = [portal EXCEPT !.phase = "over"]
      /\ IF portal.cid
         THEN /\ box' = "gone"
              /\ execs' = [e \in DOMAIN execs |->
                             IF execs[e].state = "running" THEN Exit(e, "bad") ELSE execs[e]]
         ELSE UNCHANGED docker
  BY DEF StopTask
<1>2. /\ PortalTyped /\ portal \in PortalRow /\ task \in Tasks /\ ExecRow' = ExecRow
      /\ Known = 1..Len(execs) /\ Len(execs) \in Nat /\ \A e \in Known : execs[e] \in ExecRow
  BY <1>1, SameTask, ExecFacts DEF Typed, PortalTyped
<1>3. PortalTyped'
  <2>1. portal' \in PortalRow
    BY <1>1, <1>2 DEF PortalRow
  <2> QED BY <1>1, <1>2, <2>1, SameTask DEF PortalTyped
<1>4. CASE portal.cid
  <2>1. ASSUME NEW e \in Known
        PROVE  /\ execs'[e] \in ExecRow /\ execs'[e].step = execs[e].step
               /\ execs'[e].state # "running"
               /\ execs[e].state \in Ended => /\ execs'[e].state = execs[e].state
                                              /\ execs'[e].late => execs[e].late
               /\ execs[e].stopping => execs'[e].stopping \/ execs'[e].state \in Ended
               /\ execs[e].overdue => execs'[e].overdue
               /\ execs'[e].late => execs[e].late \/ marked
    <3>1. execs'[e] = IF execs[e].state = "running" THEN Exit(e, "bad") ELSE execs[e]
      BY <1>1, <1>4 DEF Known
    <3>2. /\ Exit(e, "bad") \in ExecRow /\ Exit(e, "bad").step = execs[e].step
          /\ Exit(e, "bad").state = "bad" /\ (Exit(e, "bad").late => marked)
          /\ Exit(e, "bad").overdue = execs[e].overdue
      BY ExitRow DEF Ended
    <3>3. execs[e] \in ExecRow
      BY <1>2
    <3>4. "running" \notin Ended /\ "bad" \in Ended
      BY DEF Ended
    <3> HIDE DEF ExecRow
    <3> QED BY <3>1, <3>2, <3>3, <3>4, Zenon
  <2> HIDE DEF ExecRow
  <2>2. Known' = Known /\ execs' = [e \in 1..Len(execs) |-> execs'[e]]
    BY <1>1, <1>2, <1>4 DEF Known
  <2>3. execs' \in Seq(ExecRow)
    <3>1. execs' \in [1..Len(execs) -> ExecRow]
      BY <1>2, <2>1, <2>2
    <3> QED BY <1>2, <3>1, SeqDef
  <2>4. DockerTyped'
    BY <1>1, <1>2, <1>4, <2>3 DEF DockerTyped
  <2>5. FilesTyped' /\ ConnTyped' /\ HandlerTyped'
    BY <1>1, <2>2, Stays
  <2>6. Typed'
    BY <1>1, <1>3, <2>4, <2>5 DEF Typed, bounds
  <2>7. Kept
    BY <2>1, <2>2 DEF Kept, Grown
  <2> QED BY <1>1, <1>4, <2>1, <2>6, <2>7
<1>5. CASE ~portal.cid
  <2>1. UNCHANGED docker
    BY <1>1, <1>5
  <2>2. UNCHANGED task /\ Known' = Known /\ execs' = execs
    BY <1>1, <2>1 DEF Known, docker
  <2>3. FilesTyped' /\ ConnTyped' /\ HandlerTyped' /\ DockerTyped'
    BY <1>1, <2>1, <2>2, Stays
  <2>4. Typed'
    BY <1>1, <1>3, <2>3 DEF Typed, bounds
  <2>5. Kept
    BY <2>2 DEF Kept, Grown
  <2> QED BY <1>5, <2>1, <2>4, <2>5
<1> QED BY <1>4, <1>5

(* A connection, and nothing else, changes.                                 *)
LEMMA OpenRow ==
  ASSUME Typed, NEW k \in Steps, info[k] # 0, NEW kind \in {"status", "log"}
  PROVE  /\ Open(kind, k) \in ConnRow /\ Open(kind, k).kind = kind /\ Open(kind, k).step = k
         /\ Open(kind, k).exec = info[k] /\ info[k] \in Known /\ Open(kind, k).main = "idle"
         /\ Open(kind, k).seen = "none" /\ Open(kind, k).wait \in {"poll", "error", "ended"}
         /\ [Open(kind, k) EXCEPT !.main = "status"] \in ConnRow
<1>1. /\ NoConn \in ConnRow /\ info[k] \in Nat /\ info[k] \in Known /\ Steps = Steps
      /\ result[k] \in Results
  BY Rows DEF Typed, FilesTyped
<1> DEFINE w == CASE result[k] = "none"  -> "poll"
                  [] result[k] = "empty" -> "error"
                  [] OTHER               -> "ended"
<1>2. w \in {"poll", "error", "ended"}
  OBVIOUS
<1>3. Open(kind, k) = [NoConn EXCEPT !.kind = kind, !.step = k, !.exec = info[k], !.wait = w]
  BY DEF Open
<1> HIDE DEF w
<1> QED BY <1>1, <1>2, <1>3, ZenonT(60) DEF ConnRow, Kinds, Mains, Waits, WaitOver, NoConn

LEMMA ConnOnly ==
  ASSUME Typed, NEW c \in Conns, NEW r \in ConnRow,
         Sound(r),
         conn' = [conn EXCEPT ![c] = r],
         UNCHANGED <<task, files, docker, handler, abort, portalVars, faults, afterMark>>,
         views' \in Nat
  PROVE  /\ Typed' /\ Known' = Known /\ conn'[c] = r
         /\ \A d \in Conns \ {c} : conn'[d] = conn[d]
<1>1. UNCHANGED task /\ Known' = Known
  BY DEF Known, docker
<1>2. ConnTyped' /\ conn'[c] = r /\ \A d \in Conns \ {c} : conn'[d] = conn[d]
  <2> HIDE DEF ConnRow, NoConn
  <2> QED BY <1>1, ConnSet
<1>3. FilesTyped' /\ HandlerTyped' /\ DockerTyped' /\ PortalTyped'
  BY <1>1, Stays
<1>4. Typed'
  BY <1>2, <1>3 DEF Typed
<1> QED BY <1>1, <1>2, <1>4

LEMMA ConnFacts ==
  ASSUME Typed, NEW c \in Conns
  PROVE  /\ conn[c] \in ConnRow
         /\ conn[c].kind = "off" => conn[c] = NoConn
         /\ conn[c].kind # "off" => conn[c].exec \in Known
         /\ conn[c].wait \in {"truncate", "fill"} => conn[c].got \in Ended
BY DEF Typed, ConnTyped, Sound

LEMMA NoConnFacts ==
  /\ NoConn.kind = "off" /\ NoConn.main = "idle" /\ NoConn.wait = "poll" /\ NoConn.seen = "none"
  /\ NoConn.got = "none" /\ NoConn.send = "first" /\ NoConn.step = 1
BY DEF NoConn

ClosedRow(c) ==
    [conn[c] EXCEPT !.kind = "closed", !.main = "idle", !.send = "first", !.seen = "none"]

LEMMA ClosedFacts ==
  ASSUME Typed, NEW c \in Conns, conn[c].kind # "off"
  PROVE  /\ ClosedRow(c) \in ConnRow /\ ClosedRow(c).kind = "closed" /\ ClosedRow(c).main = "idle"
         /\ ClosedRow(c).exec = conn[c].exec /\ ClosedRow(c).step = conn[c].step
         /\ ClosedRow(c).wait = conn[c].wait /\ ClosedRow(c).got = conn[c].got
         /\ ClosedRow(c).seen = "none" /\ conn[c].exec \in Known /\ Sound(ClosedRow(c))
         /\ Closed(c) = [conn EXCEPT ![c] = ClosedRow(c)]
BY ConnFacts DEF Sound, ClosedRow, Closed, ConnRow, Kinds, Mains, Sends, Seen

LEMMA ViewTyped ==
  ASSUME Typed, NEW c \in Conns, NEW k \in Steps, View(c, k)
  PROVE  /\ Typed' /\ Known' = Known /\ conn[c].kind = "off" /\ conn'[c] = Open("log", k)
         /\ \A d \in Conns \ {c} : conn'[d] = conn[d]
<1>1. /\ conn' = [conn EXCEPT ![c] = Open("log", k)] /\ info[k] # 0 /\ views' = views + 1
      /\ UNCHANGED <<task, files, docker, handler, abort, portalVars, faults, afterMark>>
  BY DEF View
<1>2. conn[c].kind = "off"
  BY DEF View, Free
<1> DEFINE r == Open("log", k)
<1>3. r \in ConnRow /\ Sound(r)
  BY <1>1, OpenRow DEF Sound
<1>4. views' \in Nat
  BY <1>1 DEF Typed
<1>5. conn' = [conn EXCEPT ![c] = r]
  BY <1>1
<1> HIDE DEF r, ConnRow
<1>6. Typed' /\ Known' = Known /\ conn'[c] = r /\ \A d \in Conns \ {c} : conn'[d] = conn[d]
  BY <1>1, <1>3, <1>4, <1>5, ConnOnly
<1> QED BY <1>2, <1>6 DEF r

(* The portal, and a connection if any, change.                             *)
LEMMA PortalConn ==
  ASSUME Typed, PortalTyped', ConnTyped',
         UNCHANGED <<task, files, docker, handler, abort, bounds, afterMark>>
  PROVE  Typed' /\ Known' = Known
<1>1. UNCHANGED task /\ Known' = Known
  BY DEF Known, docker
<1>2. FilesTyped' /\ HandlerTyped' /\ DockerTyped'
  BY <1>1, Stays
<1> QED BY <1>1, <1>2 DEF Typed, bounds

LEMMA ConnectTyped ==
  ASSUME Typed, NEW c \in Conns, Connect(c)
  PROVE  /\ Typed' /\ Known' = Known /\ conn[c].kind = "off"
         /\ \/ UNCHANGED conn /\ Settle("failed") /\ info[portal.step] = 0
            \/ /\ UNCHANGED portalVars /\ info[portal.step] # 0
               /\ conn'[c] = [Open("status", portal.step) EXCEPT !.main = "status"]
               /\ \A d \in Conns \ {c} : conn'[d] = conn[d]
<1>1. /\ UNCHANGED <<task, files, docker, handler, abort, bounds, afterMark>>
      /\ IF info[portal.step] = 0
         THEN Settle("failed") /\ UNCHANGED conn
         ELSE /\ conn' = [conn EXCEPT ![c] = [Open("status", portal.step) EXCEPT !.main = "status"]]
              /\ UNCHANGED portalVars
  BY DEF Connect
<1>2. conn[c].kind = "off"
  BY DEF Connect, Free
<1>3. UNCHANGED task /\ Known' = Known
  BY <1>1 DEF Known, docker
<1>4. portal.step \in Steps
  BY DEF Typed, PortalTyped, PortalRow
<1>5. CASE info[portal.step] = 0
  <2>1. UNCHANGED conn /\ Settle("failed")
    BY <1>1, <1>5
  <2>2. ConnTyped' /\ PortalTyped'
    BY <1>1, <1>3, <2>1, Stays, SettleTyped DEF Ends, Outcomes
  <2>3. Typed'
    BY <1>1, <2>2, PortalConn
  <2> QED BY <1>2, <1>3, <1>5, <2>1, <2>3
<1>6. CASE info[portal.step] # 0
  <2> DEFINE r == [Open("status", portal.step) EXCEPT !.main = "status"]
  <2>1. r \in ConnRow
    BY <1>4, <1>6, OpenRow
  <2>2. Sound(r)
    <3> DEFINE o == Open("status", portal.step)
    <3>1. o \in ConnRow /\ o.kind = "status" /\ o.exec \in Known /\ o.wait \in {"poll", "error", "ended"}
      BY <1>4, <1>6, OpenRow, ZenonT(60)
    <3> HIDE DEF o
    <3>2. /\ [o EXCEPT !.main = "status"].kind = o.kind /\ [o EXCEPT !.main = "status"].exec = o.exec
          /\ [o EXCEPT !.main = "status"].wait = o.wait
      BY <3>1 DEF ConnRow
    <3> QED BY <3>1, <3>2 DEF o, Sound
  <2>3. UNCHANGED portalVars /\ conn' = [conn EXCEPT ![c] = r] /\ views' \in Nat /\ faults' = faults
    BY <1>1, <1>6 DEF bounds, Typed
  <2> HIDE DEF r, ConnRow
  <2>4. Typed' /\ conn'[c] = r /\ \A d \in Conns \ {c} : conn'[d] = conn[d]
    BY <1>1, <2>1, <2>2, <2>3, ConnOnly
  <2> QED BY <1>2, <1>3, <1>6, <2>3, <2>4 DEF r
<1> QED BY <1>5, <1>6

(* A wait goes on, with what it got.                                        *)
WaitRow(c, w, g) == [conn[c] EXCEPT !.got = g, !.wait = w]

LEMMA WaitFacts ==
  ASSUME Typed, NEW c \in Conns
  PROVE  \A w \in Waits, g \in Gots :
           /\ WaitRow(c, w, g) \in ConnRow /\ WaitRow(c, w, g).wait = w
           /\ WaitRow(c, w, g).got = g
           /\ WaitRow(c, w, g).kind = conn[c].kind /\ WaitRow(c, w, g).main = conn[c].main
           /\ WaitRow(c, w, g).step = conn[c].step /\ WaitRow(c, w, g).exec = conn[c].exec
           /\ WaitRow(c, w, g).seen = conn[c].seen /\ WaitRow(c, w, g).send = conn[c].send
<1>1. conn[c] \in ConnRow
  BY ConnFacts
<1> QED BY <1>1 DEF WaitRow, ConnRow

(* What a step of the waiting leaves of its connection.                     *)
LEMMA WaitMoves ==
  ASSUME Typed, NEW c \in Conns, NEW w \in Waits, conn'[c] = WaitRow(c, w, conn[c].got)
  PROVE  /\ conn'[c].step = conn[c].step /\ conn'[c].exec = conn[c].exec
         /\ conn'[c].kind = conn[c].kind /\ conn'[c].got = conn[c].got /\ conn'[c].seen = conn[c].seen
         /\ conn'[c].wait = w
<1>1. conn[c].got \in Gots
  BY ConnFacts DEF ConnRow
<1> QED BY <1>1, WaitFacts

LEMMA SoundWait ==
  ASSUME Typed, NEW c \in Conns, conn[c].kind # "off"
  PROVE  \A w \in Waits, g \in Gots :
           /\ WaitRow(c, w, g) \in ConnRow
           /\ (w \in {"truncate", "fill"} => g \in Ended) => Sound(WaitRow(c, w, g))
<1> SUFFICES ASSUME NEW w \in Waits, NEW g \in Gots
             PROVE  /\ WaitRow(c, w, g) \in ConnRow
                    /\ (w \in {"truncate", "fill"} => g \in Ended) => Sound(WaitRow(c, w, g))
  OBVIOUS
<1> DEFINE r == WaitRow(c, w, g)
<1>1. /\ r \in ConnRow /\ r.wait = w /\ r.got = g /\ r.kind = conn[c].kind
      /\ r.exec = conn[c].exec
  BY WaitFacts
<1>2. conn[c].exec \in Known
  BY ConnFacts
<1> HIDE DEF r
<1>3. (w \in {"truncate", "fill"} => g \in Ended) => Sound(r)
  BY <1>1, <1>2 DEF Sound
<1> QED BY <1>1, <1>3 DEF r

LEMMA WaitStepIs ==
  ASSUME Typed, NEW c \in Conns, NEW w \in Waits, WaitStep(c, w)
  PROVE  conn' = [conn EXCEPT ![c] = WaitRow(c, w, conn[c].got)] /\ conn[c].got \in Gots
<1>1. conn[c] \in ConnRow
  BY ConnFacts
<1>2. [conn[c] EXCEPT !.wait = w] = WaitRow(c, w, conn[c].got)
  BY <1>1 DEF WaitRow, ConnRow
<1>3. conn' = [conn EXCEPT ![c] = [conn[c] EXCEPT !.wait = w]]
  BY DEF WaitStep
<1>4. conn[c].got \in Gots
  BY <1>1 DEF ConnRow
<1> QED BY <1>2, <1>3, <1>4

LEMMA StatusFacts ==
  ASSUME Typed, NEW k \in Steps, NEW e \in Known
  PROVE  /\ Status(k, e) \in {"running", "empty"} \cup Ended
         /\ Status(k, e) = "running" => result[k] = "none" /\ execs[e].state = "running"
         /\ Status(k, e) = "empty" => result[k] = "empty" \/ box = "gone"
         /\ Status(k, e) \in Ended => \/ result[k] = Status(k, e)
                                      \/ execs[e].state = Status(k, e)
<1>1. result[k] \in Results /\ execs[e] \in ExecRow
  BY ExecFacts DEF Typed, FilesTyped
<1>2. execs[e].state \in States
  BY <1>1 DEF ExecRow
<1> QED BY <1>1, <1>2 DEF Status, Results, States, Ended

LEMMA WaitPollTyped ==
  ASSUME Typed, NEW c \in Conns, WaitPoll(c)
  PROVE  /\ Typed' /\ Kept /\ conn[c].kind # "off" /\ conn[c].wait = "poll"
         /\ conn[c].exec \in Known
         /\ \A d \in Conns \ {c} : conn'[d] = conn[d]
         /\ \/ conn'[c] = WaitRow(c, "error", conn[c].got) /\ UNCHANGED execs
            \/ /\ conn'[c] = WaitRow(c, "late", conn[c].got) /\ StopCommand(conn[c].exec)
               /\ execs[conn[c].exec].overdue
            \/ /\ UNCHANGED execs /\ box = "up" /\ execs[conn[c].exec].state # "running"
               /\ LET s == Status(conn[c].step, conn[c].exec) IN
                  conn'[c] = WaitRow(c, IF s = "empty" THEN "ended" ELSE "truncate", s)
<1> DEFINE e == conn[c].exec
           s == Status(conn[c].step, e)
           w == IF s = "empty" THEN "ended" ELSE "truncate"
<1>1. /\ UNCHANGED <<task, files, box, handler, abort, portalVars, bounds, afterMark>>
      /\ conn[c].kind # "off" /\ conn[c].wait = "poll"
      /\ \/ WaitStep(c, "error") /\ UNCHANGED execs
         \/ WaitStep(c, "late") /\ StopCommand(e) /\ execs[e].overdue
         \/ /\ box = "up" /\ execs[e].state # "running" /\ UNCHANGED execs
            /\ WaitRecords(c, s)
  BY Zenon DEF WaitPoll
<1>2. conn[c] \in ConnRow /\ e \in Known
  BY <1>1, ConnFacts
<1>3. conn[c].step \in Steps
  BY <1>2 DEF ConnRow
<1>4. s \in Gots /\ w \in Waits /\ "error" \in Waits /\ "late" \in Waits
  BY <1>2, <1>3, StatusFacts DEF Gots, Waits, WaitOver, Ended
<1>5. ASSUME NEW r \in ConnRow, Sound(r), conn' = [conn EXCEPT ![c] = r],
             DockerTyped', Kept
      PROVE  Typed' /\ conn'[c] = r /\ \A d \in Conns \ {c} : conn'[d] = conn[d]
  <2>1. UNCHANGED task /\ Known' = Known
    BY <1>1, <1>5 DEF Kept, Grown
  <2>2. ConnTyped' /\ conn'[c] = r /\ \A d \in Conns \ {c} : conn'[d] = conn[d]
    <3> HIDE DEF ConnRow
    <3> QED BY <1>2, <1>5, <2>1, ConnSet
  <2>3. FilesTyped' /\ HandlerTyped' /\ PortalTyped'
    BY <1>1, <2>1, Stays
  <2> QED BY <1>1, <1>5, <2>2, <2>3 DEF Typed, bounds
<1>6. UNCHANGED execs => DockerTyped' /\ Kept
  <2> SUFFICES ASSUME UNCHANGED execs PROVE DockerTyped' /\ Kept
    OBVIOUS
  <2>1. UNCHANGED task /\ Known' = Known /\ UNCHANGED docker
    BY <1>1 DEF Known, docker
  <2>2. DockerTyped'
    BY <2>1, Stays
  <2> QED BY <2>1, <2>2 DEF Kept, Grown
<1>7. CASE WaitStep(c, "error") /\ UNCHANGED execs
  <2> DEFINE r == WaitRow(c, "error", conn[c].got)
  <2>1. conn' = [conn EXCEPT ![c] = r] /\ conn[c].got \in Gots
    BY <1>4, <1>7, WaitStepIs
  <2>2. r \in ConnRow /\ Sound(r)
    BY <1>1, <1>2, <1>4, <2>1, SoundWait
  <2> HIDE DEF r
  <2>3. Typed' /\ conn'[c] = r /\ \A d \in Conns \ {c} : conn'[d] = conn[d]
    BY <1>5, <1>6, <1>7, <2>1, <2>2
  <2> QED BY <1>1, <1>2, <1>6, <1>7, <2>3 DEF r
<1>8. CASE WaitStep(c, "late") /\ StopCommand(e) /\ execs[e].overdue
  <2> DEFINE r == WaitRow(c, "late", conn[c].got)
  <2>1. conn' = [conn EXCEPT ![c] = r] /\ conn[c].got \in Gots
    BY <1>4, <1>8, WaitStepIs
  <2>2. r \in ConnRow /\ Sound(r)
    BY <1>1, <1>2, <1>4, <2>1, SoundWait
  <2>3. DockerTyped' /\ Kept
    BY <1>1, <1>2, <1>8, StopRow DEF Kept, Grown
  <2> HIDE DEF r
  <2>4. Typed' /\ conn'[c] = r /\ \A d \in Conns \ {c} : conn'[d] = conn[d]
    BY <1>5, <2>1, <2>2, <2>3
  <2> QED BY <1>1, <1>2, <1>8, <2>3, <2>4 DEF r
<1>9. CASE box = "up" /\ execs[e].state # "running" /\ UNCHANGED execs /\ WaitRecords(c, s)
  <2> DEFINE r == WaitRow(c, w, s)
  <2>1. conn' = [conn EXCEPT ![c] = r]
    BY <1>9 DEF WaitRecords, WaitRow
  <2>2. r \in ConnRow /\ Sound(r)
    <3>1. w # "ended" => s \in Ended
      BY <1>2, <1>3, <1>9, StatusFacts
    <3> HIDE DEF s, w
    <3> QED BY <1>1, <1>2, <1>4, <3>1, SoundWait
  <2> HIDE DEF r
  <2>3. Typed' /\ conn'[c] = r /\ \A d \in Conns \ {c} : conn'[d] = conn[d]
    BY <1>5, <1>6, <1>9, <2>1, <2>2
  <2> QED BY <1>1, <1>2, <1>6, <1>9, <2>3 DEF r
<1> QED BY <1>1, <1>7, <1>8, <1>9

LEMMA WaitWriteTyped ==
  ASSUME Typed, NEW c \in Conns, WaitWrite(c)
  PROVE  /\ Typed' /\ Known' = Known /\ conn[c].kind # "off" /\ conn[c].step \in Steps
         /\ \A d \in Conns \ {c} : conn'[d] = conn[d]
         /\ \/ /\ conn[c].wait = "truncate" /\ conn'[c] = WaitRow(c, "fill", conn[c].got)
               /\ result' = [result EXCEPT ![conn[c].step] = "empty"]
            \/ /\ conn[c].wait = "fill" /\ conn'[c] = WaitRow(c, "ended", conn[c].got)
               /\ result' = [result EXCEPT ![conn[c].step] =
                               IF @ = "none" THEN @ ELSE conn[c].got]
<1> DEFINE k == conn[c].step
<1>1. PICK w \in {"fill", "ended"} :
        /\ WaitStep(c, w)
        /\ conn[c].wait = IF w = "fill" THEN "truncate" ELSE "fill"
        /\ result' = [result EXCEPT ![k] = IF w = "fill" THEN "empty"
                                          ELSE IF @ = "none" THEN @ ELSE conn[c].got]
  BY DEF WaitWrite
<1>2. /\ UNCHANGED <<task, latest, info, marked, docker, handler, abort, portalVars, bounds,
                     afterMark>>
  BY Zenon DEF WaitWrite
<1>3. conn[c].kind # "off" /\ conn[c] \in ConnRow /\ conn[c].exec \in Known
  BY <1>1, ConnFacts, NoConnFacts
<1>4. k \in Steps /\ conn[c].got \in Gots
  BY <1>3 DEF ConnRow
<1>5. UNCHANGED task /\ Known' = Known /\ Steps' = Steps
  BY <1>2, SameTask DEF Known, docker
<1>6. FilesTyped'
  <2>1. FilesTyped
    BY DEF Typed
  <2>2. result' \in [Steps -> Results]
    <3>1. \A r \in Results : (IF w = "fill" THEN "empty"
                               ELSE IF r = "none" THEN r ELSE conn[c].got) \in Results
      <4>1. ASSUME w # "fill" PROVE conn[c].got \in Results
        BY <1>1, <4>1, ConnFacts DEF Results
      <4> QED BY <4>1 DEF Results
    <3> QED BY <1>1, <1>4, <2>1, <3>1 DEF FilesTyped
  <2>3. marked' \in BOOLEAN
    BY <1>2, <2>1, Zenon DEF FilesTyped
  <2> QED BY <1>2, <1>5, <2>1, <2>2, <2>3 DEF FilesTyped
<1>7. w \in Waits
  BY DEF Waits, WaitOver
<1> DEFINE r == WaitRow(c, w, conn[c].got)
<1>8. conn' = [conn EXCEPT ![c] = r]
  BY <1>1, <1>7, WaitStepIs
<1>9. r \in ConnRow /\ Sound(r)
  BY <1>1, <1>3, <1>4, <1>7, ConnFacts, SoundWait
<1> HIDE DEF r, ConnRow
<1>10. ConnTyped' /\ conn'[c] = r /\ \A d \in Conns \ {c} : conn'[d] = conn[d]
  BY <1>5, <1>8, <1>9, ConnSet
<1>11. HandlerTyped' /\ PortalTyped' /\ DockerTyped'
  BY <1>2, <1>5, Stays
<1>12. Typed'
  BY <1>2, <1>6, <1>10, <1>11 DEF Typed, bounds
<1> QED BY <1>1, <1>3, <1>4, <1>5, <1>10, <1>12 DEF r

LEMMA WaitReturnsTyped ==
  ASSUME Typed, NEW c \in Conns, WaitReturns(c)
  PROVE  /\ Typed' /\ Known' = Known /\ conn'[c] = NoConn
         /\ conn[c].kind \in {"log", "closed"} /\ conn[c].wait \in WaitOver
         /\ \A d \in Conns \ {c} : conn'[d] = conn[d]
<1>1. /\ UNCHANGED <<task, files, docker, handler, abort, portalVars, bounds, afterMark>>
      /\ conn' = [conn EXCEPT ![c] = NoConn]
      /\ conn[c].kind \in {"log", "closed"} /\ conn[c].wait \in WaitOver
  BY DEF WaitReturns
<1>2. NoConn \in ConnRow /\ Sound(NoConn)
  BY Rows, NoConnFacts DEF Typed, Sound
<1>3. views' \in Nat /\ UNCHANGED faults
  BY <1>1 DEF Typed, bounds
<1> DEFINE r == NoConn
<1> HIDE DEF ConnRow, NoConn
<1> QED BY <1>1, <1>2, <1>3, ConnOnly

(* A connection of the portal is closed, with or without a verdict.         *)
LEMMA Closes ==
  ASSUME Typed, NEW c \in Conns, conn[c].kind # "off", conn' = Closed(c), PortalTyped',
         UNCHANGED <<task, files, docker, handler, abort, bounds, afterMark>>
  PROVE  /\ Typed' /\ Known' = Known /\ conn'[c] = ClosedRow(c)
         /\ \A d \in Conns \ {c} : conn'[d] = conn[d]
<1> DEFINE r == ClosedRow(c)
<1>1. r \in ConnRow /\ Sound(r) /\ conn' = [conn EXCEPT ![c] = r]
  BY ClosedFacts
<1>2. UNCHANGED task /\ Known' = Known
  BY DEF Known, docker
<1> HIDE DEF r, ConnRow
<1>3. ConnTyped' /\ conn'[c] = r /\ \A d \in Conns \ {c} : conn'[d] = conn[d]
  BY <1>1, <1>2, ConnSet
<1>4. Typed'
  BY <1>3, PortalConn
<1> QED BY <1>2, <1>3, <1>4 DEF r

(* What the status says, and the mark, and the end of the wait.             *)
Reported(c, how) ==
    \/ how = "aborted" /\ marked /\ conn[c].step # Hidden
    \/ how = Verdict(c) /\ conn[c].main = "mark" /\ conn[c].seen \in Ended
         /\ (~marked \/ conn[c].step = Hidden)
    \/ how = "timeout" /\ (conn[c].wait = "late" \/ portal.tries > 0 \/ faults > 0)

(* A message changes no more of a connection than this.                     *)
Sent(c) ==
    LET x == conn[c] y == conn'[c] IN
    /\ y.kind = x.kind /\ y.step = x.step /\ y.exec = x.exec /\ y.wait = x.wait /\ y.got = x.got
    /\ y.main # "idle" => x.main # "idle" \/ x.kind = "status"
    /\ y.seen = x.seen \/ y.seen = "none"
         \/ (y.seen = Status(x.step, x.exec) /\ y.seen # "empty")

LEMMA SendTyped ==
  ASSUME Typed, NEW c \in Conns, Send(c) \/ Heartbeat(c) \/ PortalLate(c)
  PROVE  /\ Typed' /\ Known' = Known /\ conn[c].kind # "off"
         /\ conn[c].main # "idle" \/ conn[c].kind = "status"
         /\ UNCHANGED <<task, files, docker, handler, abort, bounds, afterMark>>
         /\ \A d \in Conns \ {c} : conn'[d] = conn[d]
         /\ \/ Sent(c) /\ UNCHANGED portalVars
            \/ conn'[c] = ClosedRow(c) /\ UNCHANGED portalVars
            \/ conn'[c] = ClosedRow(c) /\ \E how \in Ends : Reported(c, how) /\ Settle(how)
<1>1. UNCHANGED <<task, files, docker, handler, abort, bounds, afterMark>>
  BY Zenon DEF Send, SendStatus, SendMark, SendFinal, Heartbeat, PortalLate, Report
<1>2. conn[c].kind # "off" /\ (conn[c].main # "idle" \/ conn[c].kind = "status")
  <2>1. conn[c].main # "idle" \/ conn[c].kind = "status"
    BY DEF Send, SendStatus, SendMark, SendFinal, Heartbeat, PortalLate
  <2> QED BY <2>1, ConnFacts, NoConnFacts
<1>3. /\ conn[c] \in ConnRow /\ conn[c].exec \in Known /\ conn[c].step \in Steps
      /\ conn[c].wait \in {"truncate", "fill"} => conn[c].got \in Ended
  BY <1>2, ConnFacts DEF ConnRow
<1>4. UNCHANGED task /\ Known' = Known /\ views' \in Nat /\ UNCHANGED faults
  BY <1>1 DEF Known, docker, bounds, Typed
<1>5. ASSUME conn' = Closed(c), UNCHANGED portalVars
      PROVE  /\ Typed' /\ conn'[c] = ClosedRow(c) /\ \A d \in Conns \ {c} : conn'[d] = conn[d]
  <2>1. PortalTyped'
    BY <1>1, <1>4, <1>5, Stays
  <2> QED BY <1>1, <1>2, <1>5, <2>1, Closes
<1>6. ASSUME NEW how \in Ends, Report(c, how), Reported(c, how)
      PROVE  /\ Typed' /\ conn'[c] = ClosedRow(c) /\ \A d \in Conns \ {c} : conn'[d] = conn[d]
             /\ \E h \in Ends : Reported(c, h) /\ Settle(h)
  <2>1. PortalTyped' /\ conn' = Closed(c) /\ Settle(how)
    BY <1>1, <1>6, SettleTyped DEF Report
  <2> QED BY <1>1, <1>2, <1>6, <2>1, Closes
<1>7. ASSUME NEW m \in Mains, NEW s \in Sends, NEW v \in Seen, UNCHANGED portalVars,
             conn' = [conn EXCEPT ![c].main = m, ![c].send = s, ![c].seen = v],
             m # "idle" => conn[c].main # "idle" \/ conn[c].kind = "status",
             v = conn[c].seen \/ v = "none" \/ (v = Status(conn[c].step, conn[c].exec) /\ v # "empty")
      PROVE  /\ Typed' /\ Sent(c) /\ \A d \in Conns \ {c} : conn'[d] = conn[d]
  <2> DEFINE r == [conn[c] EXCEPT !.main = m, !.send = s, !.seen = v]
  <2>1. conn' = [conn EXCEPT ![c] = r]
    BY <1>7
  <2>2. /\ r \in ConnRow /\ r.kind = conn[c].kind /\ r.step = conn[c].step /\ r.exec = conn[c].exec
        /\ r.wait = conn[c].wait /\ r.got = conn[c].got /\ r.main = m /\ r.seen = v
    BY <1>3 DEF ConnRow
  <2> HIDE DEF r, ConnRow
  <2>3. Sound(r)
    BY <1>2, <1>3, <2>2 DEF Sound
  <2>4. Typed' /\ conn'[c] = r /\ \A d \in Conns \ {c} : conn'[d] = conn[d]
    BY <1>1, <1>4, <1>7, <2>1, <2>2, <2>3, ConnOnly
  <2>5. Sent(c)
    BY <1>7, <2>2, <2>4, Zenon DEF Sent
  <2> QED BY <2>4, <2>5
<1> DEFINE st == Status(conn[c].step, conn[c].exec)
<1>8. CASE SendStatus(c)
  <2>1. /\ UNCHANGED portalVars /\ conn[c].main = "status"
        /\ \/ st # "empty" /\ conn' = [conn EXCEPT ![c].main = "mark", ![c].seen = st]
           \/ conn' = [conn EXCEPT ![c].main = "idle"]
           \/ conn' = Closed(c)
    BY <1>8 DEF SendStatus
  <2>2. st \in {"running", "empty"} \cup Ended
    BY <1>3, StatusFacts
  <2>3. /\ conn[c].send \in Sends /\ conn[c].seen \in Seen /\ "mark" \in Mains /\ "idle" \in Mains
        /\ st # "empty" => st \in Seen
    BY <1>3, <2>2 DEF ConnRow, Mains, Seen
  <2>4. CASE st # "empty" /\ conn' = [conn EXCEPT ![c].main = "mark", ![c].seen = st]
    <3>1. conn' = [conn EXCEPT ![c].main = "mark", ![c].send = conn[c].send, ![c].seen = st]
      BY <1>3, <2>4 DEF ConnRow, Typed, ConnTyped
    <3>2. PICK v \in Seen : /\ v = st /\ v # "empty"
                            /\ conn' = [conn EXCEPT ![c].main = "mark", ![c].send = conn[c].send,
                                                   ![c].seen = v]
      BY <2>3, <2>4, <3>1
    <3>3. Typed' /\ Sent(c) /\ \A d \in Conns \ {c} : conn'[d] = conn[d]
      BY <1>7, <2>1, <2>3, <3>2
    <3> QED BY <1>1, <1>2, <1>4, <2>1, <3>3
  <2>5. CASE conn' = [conn EXCEPT ![c].main = "idle"]
    <3>1. conn' = [conn EXCEPT ![c].main = "idle", ![c].send = conn[c].send, ![c].seen = conn[c].seen]
      BY <1>3, <2>5 DEF ConnRow, Typed, ConnTyped
    <3> QED BY <1>1, <1>2, <1>4, <1>7, <2>1, <2>3, <3>1
  <2> QED BY <1>1, <1>2, <1>4, <1>5, <2>1, <2>4, <2>5
<1>9. CASE SendMark(c)
  <2>1. \/ marked /\ conn[c].step # Hidden /\ Report(c, "aborted")
        \/ /\ ~(marked /\ conn[c].step # Hidden) /\ conn[c].main = "mark" /\ conn[c].seen \in Ended
           /\ Report(c, Verdict(c))
        \/ UNCHANGED portalVars /\ conn' = Closed(c)
        \/ UNCHANGED portalVars
             /\ conn' = [conn EXCEPT ![c].main = "idle", ![c].send = "beat", ![c].seen = "none"]
    BY <1>9 DEF SendMark
  <2>2. CASE marked /\ conn[c].step # Hidden /\ Report(c, "aborted")
    <3>1. Reported(c, "aborted") /\ "aborted" \in Ends
      BY <2>2 DEF Reported, Ends, Outcomes
    <3> QED BY <1>1, <1>2, <1>4, <1>6, <2>2, <3>1
  <2>3. CASE /\ ~(marked /\ conn[c].step # Hidden) /\ conn[c].main = "mark" /\ conn[c].seen \in Ended
             /\ Report(c, Verdict(c))
    <3>1. Verdict(c) \in Ends
      BY DEF Verdict, Ends, Outcomes
    <3>2. Reported(c, Verdict(c))
      BY <2>3, Zenon DEF Reported
    <3> QED BY <1>1, <1>2, <1>4, <1>6, <2>3, <3>1, <3>2
  <2>4. CASE UNCHANGED portalVars
               /\ conn' = [conn EXCEPT ![c].main = "idle", ![c].send = "beat", ![c].seen = "none"]
    <3>1. "idle" \in Mains /\ "beat" \in Sends /\ "none" \in Seen
      BY DEF Mains, Sends, Seen
    <3> QED BY <1>1, <1>2, <1>4, <1>7, <2>4, <3>1
  <2> QED BY <1>1, <1>2, <1>4, <1>5, <2>1, <2>2, <2>3, <2>4
<1>10. CASE SendFinal(c) \/ Heartbeat(c)
  <2>1. \/ conn[c].wait = "late" /\ Report(c, "timeout")
        \/ UNCHANGED portalVars /\ conn' = Closed(c)
        \/ /\ UNCHANGED portalVars /\ conn[c].kind = "status"
           /\ \E s \in {"beat", "final"} : conn' = [conn EXCEPT ![c].main = "status", ![c].send = s]
    BY <1>10 DEF SendFinal, Heartbeat, WaitOver
  <2>2. CASE conn[c].wait = "late" /\ Report(c, "timeout")
    <3>1. Reported(c, "timeout") /\ "timeout" \in Ends
      BY <2>2 DEF Reported, Ends, Outcomes
    <3> QED BY <1>1, <1>2, <1>4, <1>6, <2>2, <3>1
  <2>3. CASE /\ UNCHANGED portalVars /\ conn[c].kind = "status"
             /\ \E s \in {"beat", "final"} : conn' = [conn EXCEPT ![c].main = "status", ![c].send = s]
    <3>1. PICK s \in {"beat", "final"} : conn' = [conn EXCEPT ![c].main = "status", ![c].send = s]
      BY <2>3
    <3>2. /\ conn' = [conn EXCEPT ![c].main = "status", ![c].send = s, ![c].seen = conn[c].seen]
          /\ conn[c].seen \in Seen /\ s \in Sends /\ "status" \in Mains
      BY <1>3, <3>1 DEF ConnRow, Typed, ConnTyped, Sends, Mains
    <3> QED BY <1>1, <1>2, <1>4, <1>7, <2>3, <3>2
  <2> QED BY <1>1, <1>2, <1>4, <1>5, <2>1, <2>2, <2>3
<1>11. CASE PortalLate(c)
  <2>1. Report(c, "timeout") /\ (portal.tries > 0 \/ faults > 0)
    BY <1>11 DEF PortalLate
  <2>2. Reported(c, "timeout") /\ "timeout" \in Ends
    BY <2>1 DEF Reported, Ends, Outcomes
  <2> QED BY <1>1, <1>2, <1>4, <1>6, <2>1, <2>2
<1> QED BY <1>8, <1>9, <1>10, <1>11 DEF Send

LEMMA LoseConnectionTyped ==
  ASSUME Typed, NEW c \in Conns, LoseConnection(c)
  PROVE  /\ Typed' /\ Known' = Known /\ conn[c].kind = "status" /\ conn'[c] = ClosedRow(c)
         /\ \A d \in Conns \ {c} : conn'[d] = conn[d]
<1>1. /\ UNCHANGED <<task, files, docker, handler, abort, portalVars, views, afterMark>>
      /\ conn[c].kind = "status" /\ Fault /\ conn' = Closed(c)
  BY DEF LoseConnection
<1> DEFINE r == ClosedRow(c)
<1>2. r \in ConnRow /\ Sound(r) /\ conn' = [conn EXCEPT ![c] = r]
  BY <1>1, ClosedFacts
<1>3. UNCHANGED task /\ Known' = Known
  BY <1>1 DEF Known, docker
<1> HIDE DEF r, ConnRow
<1>4. ConnTyped' /\ conn'[c] = r /\ \A d \in Conns \ {c} : conn'[d] = conn[d]
  BY <1>2, <1>3, ConnSet
<1>5. FilesTyped' /\ HandlerTyped' /\ DockerTyped' /\ PortalTyped'
  BY <1>1, <1>3, Stays
<1>6. Typed'
  BY <1>1, <1>4, <1>5, FaultTyped DEF Typed
<1> QED BY <1>1, <1>3, <1>4, <1>6 DEF r

(* A request goes on, or is answered.                                       *)
ReplyRow(h, what) ==
    [handler[h] EXCEPT !.pc = "reply", !.reply = IF @ = "dropped" THEN @ ELSE what]

LEMMA HandlerFacts ==
  ASSUME Typed, NEW h \in Handlers
  PROVE  /\ handler[h] \in HandlerRow /\ handler[h].step \in Steps /\ handler[h].exec \in Nat
         /\ handler[h].pc \in {"latest", "info"} => handler[h].exec \in Known
         /\ handler[h].pc = "reply" => handler[h].reply # "none"
<1>1. /\ handler[h] \in HandlerRow
      /\ handler[h].pc \in {"latest", "info"} => handler[h].exec \in Known
      /\ handler[h].pc = "reply" => handler[h].reply # "none"
  <2>1. HandlerTyped
    BY DEF Typed
  <2> HIDE DEF HandlerRow
  <2>2. handler[h] \in HandlerRow
    BY <2>1 DEF HandlerTyped
  <2>3. handler[h].pc \in {"latest", "info"} => handler[h].exec \in Known
    BY <2>1, Zenon DEF HandlerTyped
  <2>4. handler[h].pc = "reply" => handler[h].reply # "none"
    BY <2>1, Zenon DEF HandlerTyped
  <2> QED BY <2>2, <2>3, <2>4
<1> QED BY <1>1 DEF HandlerRow

LEMMA RunStepIs ==
  ASSUME Typed, NEW h \in Handlers, NEW l \in HandlerPcs, RunStep(h, l)
  PROVE  \E r \in HandlerRow : /\ handler' = [handler EXCEPT ![h] = r] /\ r.pc = l
                               /\ r.step = handler[h].step /\ r.cid = handler[h].cid
                               /\ r.exec = handler[h].exec /\ r.reply = handler[h].reply
<1> DEFINE r == [handler[h] EXCEPT !.pc = l]
<1>1. handler[h] \in HandlerRow
  BY HandlerFacts
<1>2. /\ r \in HandlerRow /\ r.pc = l /\ r.step = handler[h].step /\ r.cid = handler[h].cid
      /\ r.exec = handler[h].exec /\ r.reply = handler[h].reply
  BY <1>1 DEF HandlerRow
<1>3. handler' = [handler EXCEPT ![h] = r]
  BY DEF RunStep
<1> HIDE DEF r, HandlerRow
<1> QED BY <1>2, <1>3

LEMMA ReplyIs ==
  ASSUME Typed, NEW h \in Handlers, NEW what \in {"started", "aborted", "error"}, Reply(h, what)
  PROVE  \E r \in HandlerRow : /\ handler' = [handler EXCEPT ![h] = r] /\ r.pc = "reply"
                               /\ r.step = handler[h].step /\ r.cid = handler[h].cid
                               /\ r.exec = handler[h].exec
                               /\ r.reply = IF handler[h].reply = "dropped" THEN "dropped" ELSE what
<1> DEFINE r == ReplyRow(h, what)
<1>1. handler[h] \in HandlerRow
  BY HandlerFacts
<1>2. /\ r \in HandlerRow /\ r.pc = "reply" /\ r.step = handler[h].step /\ r.cid = handler[h].cid
      /\ r.exec = handler[h].exec
      /\ r.reply = IF handler[h].reply = "dropped" THEN "dropped" ELSE what
  BY <1>1 DEF ReplyRow, HandlerRow, HandlerPcs, Replies
<1>3. handler' = [handler EXCEPT ![h] = r]
  BY DEF Reply, ReplyRow
<1> HIDE DEF r, HandlerRow
<1> QED BY <1>2, <1>3

(* What no step of a request changes of it, and what it leaves of others.   *)
SameRequest(h) ==
    LET x == handler[h] y == handler'[h] IN
    /\ x.pc \in {"start", "check", "exec", "latest", "info"}
    /\ y.pc \in {"check", "exec", "latest", "info", "reply"}
    /\ y.step = x.step /\ y.cid = x.cid /\ (y.reply = "dropped" <=> x.reply = "dropped")
    /\ \A g \in Handlers \ {h} : handler'[g] = handler[g]

LEMMA Request ==
  ASSUME Typed, NEW h \in Handlers, NEW r \in HandlerRow, UNCHANGED task, Known \subseteq Known',
         handler[h].pc \in {"start", "check", "exec", "latest", "info"},
         handler' = [handler EXCEPT ![h] = r],
         r.pc \in {"check", "exec", "latest", "info", "reply"},
         r.pc \in {"latest", "info"} => r.exec \in Known',
         r.pc = "reply" => r.reply # "none",
         r.step = handler[h].step, r.cid = handler[h].cid,
         r.reply = "dropped" <=> handler[h].reply = "dropped"
  PROVE  HandlerTyped' /\ SameRequest(h) /\ handler'[h] = r
<1> HIDE DEF HandlerRow
<1>1. HandlerTyped' /\ handler'[h] = r /\ \A g \in Handlers \ {h} : handler'[g] = handler[g]
  BY HandlerSet
<1> QED BY <1>1 DEF SameRequest

LEMMA RunStartTyped ==
  ASSUME Typed, NEW h \in Handlers, RunStart(h)
  PROVE  /\ Typed' /\ Known' = Known /\ SameRequest(h)
         /\ \/ handler'[h].pc = "check"
            \/ handler'[h].pc = "reply" /\ handler[h].cid = FALSE /\ box # "none"
                 /\ (handler[h].reply # "dropped" => handler'[h].reply = "error")
<1>1. /\ UNCHANGED <<task, latest, info, marked, execs, conn, abort, portalVars, bounds, afterMark>>
      /\ handler[h].pc = "start"
      /\ RunStep(h, "check") \/ (Reply(h, "error") /\ ~handler[h].cid /\ box # "none")
      /\ box' = box \/ box' = "up"
      /\ result' = result \/ result' = [result EXCEPT ![handler[h].step] = "none"]
  BY DEF RunStart
<1>2. UNCHANGED task /\ Known' = Known /\ Steps' = Steps /\ ExecRow' = ExecRow
  BY <1>1, SameTask DEF Known
<1>3. HandlerTyped' /\ SameRequest(h)
      /\ \/ handler'[h].pc = "check"
         \/ handler'[h].pc = "reply" /\ handler[h].cid = FALSE /\ box # "none"
              /\ (handler[h].reply # "dropped" => handler'[h].reply = "error")
  <2>1. CASE RunStep(h, "check")
    <3>1. PICK r \in HandlerRow : /\ handler' = [handler EXCEPT ![h] = r] /\ r.pc = "check"
                                  /\ r.step = handler[h].step /\ r.cid = handler[h].cid
                                  /\ r.exec = handler[h].exec /\ r.reply = handler[h].reply
      BY <2>1, RunStepIs DEF HandlerPcs
    <3>2. /\ r.reply = "dropped" <=> handler[h].reply = "dropped"
          /\ r.pc \notin {"latest", "info", "reply"}
      BY <3>1
    <3> HIDE DEF HandlerRow
    <3>3. HandlerTyped' /\ SameRequest(h) /\ handler'[h] = r
      BY <1>1, <1>2, <3>1, <3>2, Request
    <3> QED BY <1>1, <1>2, <3>1, <3>3
  <2>2. CASE Reply(h, "error") /\ ~handler[h].cid /\ box # "none"
    <3>1. PICK r \in HandlerRow :
            /\ handler' = [handler EXCEPT ![h] = r] /\ r.pc = "reply"
            /\ r.step = handler[h].step /\ r.cid = handler[h].cid
            /\ r.exec = handler[h].exec
            /\ r.reply = IF handler[h].reply = "dropped" THEN "dropped" ELSE "error"
      BY <2>2, ReplyIs
    <3>2. handler[h].cid = FALSE
      BY <2>2, HandlerFacts DEF HandlerRow
    <3> HIDE DEF HandlerRow
    <3> QED BY <1>1, <1>2, <2>2, <3>1, <3>2, Request
  <2> QED BY <1>1, <2>1, <2>2
<1>4. FilesTyped'
  <2>1. FilesTyped /\ handler[h].step \in Steps
    BY HandlerFacts DEF Typed
  <2>2. result' \in [Steps -> Results]
    BY <1>1, <2>1 DEF FilesTyped, Results
  <2>3. marked' \in BOOLEAN
    BY <1>1, <2>1, Zenon DEF FilesTyped
  <2> QED BY <1>1, <1>2, <2>1, <2>2, <2>3 DEF FilesTyped
<1>5. DockerTyped'
  <2> HIDE DEF ExecRow
  <2> QED BY <1>1, <1>2 DEF DockerTyped, Typed
<1>6. ConnTyped' /\ PortalTyped'
  BY <1>1, <1>2, Stays
<1> QED BY <1>1, <1>2, <1>3, <1>4, <1>5, <1>6 DEF Typed, bounds

LEMMA RunCheckTyped ==
  ASSUME Typed, NEW h \in Handlers, RunCheck(h)
  PROVE  /\ Typed' /\ Known' = Known /\ SameRequest(h) /\ handler[h].pc = "check"
         /\ \/ handler'[h].pc = "exec" /\ (~marked \/ handler[h].step = Hidden)
            \/ handler'[h].pc = "reply" /\ marked
                 /\ (handler[h].reply # "dropped" => handler'[h].reply = "aborted")
<1>1. /\ UNCHANGED <<task, files, docker, conn, abort, portalVars, bounds, afterMark>>
      /\ handler[h].pc = "check"
      /\ \/ RunStep(h, "exec") /\ (~marked \/ handler[h].step = Hidden)
         \/ Reply(h, "aborted") /\ marked
  BY DEF RunCheck
<1>2. UNCHANGED task /\ Known' = Known
  BY <1>1 DEF Known, docker
<1>3. HandlerTyped' /\ SameRequest(h)
      /\ \/ handler'[h].pc = "exec" /\ (~marked \/ handler[h].step = Hidden)
         \/ handler'[h].pc = "reply" /\ marked
              /\ (handler[h].reply # "dropped" => handler'[h].reply = "aborted")
  <2>1. CASE RunStep(h, "exec") /\ (~marked \/ handler[h].step = Hidden)
    <3>1. PICK r \in HandlerRow : /\ handler' = [handler EXCEPT ![h] = r] /\ r.pc = "exec"
                                  /\ r.step = handler[h].step /\ r.cid = handler[h].cid
                                  /\ r.exec = handler[h].exec /\ r.reply = handler[h].reply
      BY <2>1, RunStepIs DEF HandlerPcs
    <3>2. /\ r.reply = "dropped" <=> handler[h].reply = "dropped"
          /\ r.pc \notin {"latest", "info", "reply"}
      BY <3>1
    <3> HIDE DEF HandlerRow
    <3>3. HandlerTyped' /\ SameRequest(h) /\ handler'[h] = r
      BY <1>1, <1>2, <3>1, <3>2, Request
    <3> QED BY <1>1, <1>2, <2>1, <3>1, <3>3
  <2>2. CASE Reply(h, "aborted") /\ marked
    <3>1. PICK r \in HandlerRow :
            /\ handler' = [handler EXCEPT ![h] = r] /\ r.pc = "reply"
            /\ r.step = handler[h].step /\ r.cid = handler[h].cid
            /\ r.exec = handler[h].exec
            /\ r.reply = IF handler[h].reply = "dropped" THEN "dropped" ELSE "aborted"
      BY <2>2, ReplyIs
    <3> HIDE DEF HandlerRow
    <3> QED BY <1>1, <1>2, <2>2, <3>1, Request
  <2> QED BY <1>1, <2>1, <2>2
<1>4. FilesTyped' /\ DockerTyped' /\ ConnTyped' /\ PortalTyped'
  BY <1>1, <1>2, Stays
<1> QED BY <1>1, <1>2, <1>3, <1>4 DEF Typed, bounds

LEMMA RunExecTyped ==
  ASSUME Typed, NEW h \in Handlers, RunExec(h)
  PROVE  /\ Typed' /\ Known \subseteq Known' /\ SameRequest(h) /\ handler[h].pc = "exec"
         /\ \A e \in Known : execs'[e] = execs[e]
         /\ \/ /\ box = "up" /\ handler'[h].pc = "latest" /\ handler'[h].exec = Len(execs) + 1
               /\ Known' = Known \cup {Len(execs) + 1} /\ handler'[h].reply = handler[h].reply
               /\ execs'[Len(execs) + 1] = [step |-> handler[h].step, state |-> "running",
                                            stopping |-> FALSE, overdue |-> FALSE, late |-> FALSE]
            \/ /\ box # "up" /\ handler'[h].pc = "reply" /\ UNCHANGED <<execs, afterMark>>
               /\ handler[h].reply # "dropped" => handler'[h].reply = "error"
<1> DEFINE x == [step |-> handler[h].step, state |-> "running", stopping |-> FALSE,
                 overdue |-> FALSE, late |-> FALSE]
           n == Len(execs) + 1
<1>1. /\ UNCHANGED <<task, files, box, conn, abort, portalVars, bounds>>
      /\ handler[h].pc = "exec"
      /\ \/ /\ box = "up" /\ execs' = Append(execs, x)
            /\ handler' = [handler EXCEPT ![h].pc = "latest", ![h].exec = n]
         \/ box # "up" /\ Reply(h, "error") /\ UNCHANGED <<execs, afterMark>>
  BY DEF RunExec
<1>2. /\ Known = 1..Len(execs) /\ Len(execs) \in Nat /\ execs \in Seq(ExecRow)
      /\ ExecRow' = ExecRow /\ UNCHANGED task
  BY <1>1, ExecFacts, SameTask DEF Typed, DockerTyped
<1>3. afterMark' \in Nat
  BY DEF RunExec, Typed
<1>4. CASE /\ box = "up" /\ execs' = Append(execs, x)
           /\ handler' = [handler EXCEPT ![h].pc = "latest", ![h].exec = n]
  <2>1. x \in ExecRow
    BY HandlerFacts DEF ExecRow, States
  <2> DEFINE r == [handler[h] EXCEPT !.pc = "latest", !.exec = n]
  <2>2. /\ r \in HandlerRow /\ r.pc = "latest" /\ r.exec = n /\ r.step = handler[h].step
        /\ r.cid = handler[h].cid /\ r.reply = handler[h].reply
    <3>1. handler[h] \in HandlerRow /\ n \in Nat
      BY <1>2, HandlerFacts
    <3> HIDE DEF n, x
    <3> QED BY <3>1 DEF HandlerRow, HandlerPcs
  <2>3. handler' = [handler EXCEPT ![h] = r]
    BY <1>4
  <2>4. execs' \in Seq(ExecRow) /\ Len(execs') = n /\ execs'[n] = x /\ \A e \in Known : execs'[e] = execs[e]
    <3> HIDE DEF ExecRow, x
    <3>1. x \in ExecRow
      BY <2>1 DEF x
    <3> QED BY <1>2, <1>4, <3>1, AppendProperties
  <2>5. Known' = Known \cup {n}
    <3>1. Known' = 1..n
      <4> HIDE DEF ExecRow
      <4> QED BY <1>2, <2>4, LenProperties DEF Known
    <3> QED BY <1>2, <3>1
  <2>6. DockerTyped'
    BY <1>1, <1>2, <2>4 DEF DockerTyped, Typed
  <2> HIDE DEF r, HandlerRow
  <2>7. r.reply = "dropped" <=> handler[h].reply = "dropped"
    BY <2>2
  <2>8. HandlerTyped' /\ SameRequest(h) /\ handler'[h] = r
    BY <1>1, <1>2, <2>2, <2>3, <2>5, <2>7, Request
  <2>9. FilesTyped' /\ ConnTyped' /\ PortalTyped'
    BY <1>1, <1>2, <2>5, Stays
  <2>10. Typed'
    BY <1>1, <1>3, <2>6, <2>8, <2>9 DEF Typed, bounds
  <2> QED BY <1>1, <1>4, <2>2, <2>4, <2>5, <2>8, <2>10
<1>5. CASE box # "up" /\ Reply(h, "error") /\ UNCHANGED <<execs, afterMark>>
  <2>1. PICK r \in HandlerRow :
          /\ handler' = [handler EXCEPT ![h] = r] /\ r.pc = "reply"
          /\ r.step = handler[h].step /\ r.cid = handler[h].cid
          /\ r.exec = handler[h].exec
          /\ r.reply = IF handler[h].reply = "dropped" THEN "dropped" ELSE "error"
    BY <1>5, ReplyIs
  <2>2. Known' = Known /\ UNCHANGED docker
    BY <1>1, <1>5 DEF Known, docker
  <2> HIDE DEF HandlerRow
  <2>3. HandlerTyped' /\ SameRequest(h) /\ handler'[h] = r
    BY <1>1, <1>2, <2>1, <2>2, Request
  <2>4. FilesTyped' /\ DockerTyped' /\ ConnTyped' /\ PortalTyped'
    BY <1>1, <1>2, <2>2, Stays
  <2>5. Typed'
    BY <1>1, <1>3, <2>3, <2>4 DEF Typed, bounds
  <2> QED BY <1>1, <1>5, <2>1, <2>2, <2>3, <2>5
<1> QED BY <1>1, <1>4, <1>5

LEMMA RunLatestTyped ==
  ASSUME Typed, NEW h \in Handlers, RunLatest(h)
  PROVE  /\ Typed' /\ Known' = Known /\ SameRequest(h) /\ handler[h].pc = "latest"
         /\ handler'[h].pc = "info" /\ handler'[h].exec = handler[h].exec
         /\ handler'[h].reply = handler[h].reply
<1>1. /\ UNCHANGED <<task, info, result, marked, docker, conn, abort, portalVars, bounds, afterMark>>
      /\ handler[h].pc = "latest" /\ latest' = handler[h].step /\ RunStep(h, "info")
  BY DEF RunLatest
<1>2. UNCHANGED task /\ Known' = Known /\ Steps' = Steps
  BY <1>1, SameTask DEF Known, docker
<1>3. PICK r \in HandlerRow : /\ handler' = [handler EXCEPT ![h] = r] /\ r.pc = "info"
                              /\ r.step = handler[h].step /\ r.cid = handler[h].cid
                              /\ r.exec = handler[h].exec /\ r.reply = handler[h].reply
  BY <1>1, RunStepIs DEF HandlerPcs
<1>4. handler[h].exec \in Known /\ handler[h].step \in Steps
  BY <1>1, HandlerFacts
<1> HIDE DEF HandlerRow
<1>5. r.reply = "dropped" <=> handler[h].reply = "dropped"
  BY <1>3
<1>6. HandlerTyped' /\ SameRequest(h) /\ handler'[h] = r
  BY <1>1, <1>2, <1>3, <1>4, <1>5, Request
<1>7. FilesTyped'
  <2>1. FilesTyped
    BY DEF Typed
  <2>2. marked' \in BOOLEAN
    BY <1>1, <2>1, Zenon DEF FilesTyped
  <2> QED BY <1>1, <1>2, <1>4, <2>1, <2>2 DEF FilesTyped
<1>8. DockerTyped' /\ ConnTyped' /\ PortalTyped'
  BY <1>1, <1>2, Stays
<1>9. Typed'
  BY <1>1, <1>6, <1>7, <1>8 DEF Typed, bounds
<1> QED BY <1>1, <1>2, <1>3, <1>6, <1>9

LEMMA RunInfoTyped ==
  ASSUME Typed, NEW h \in Handlers, RunInfo(h)
  PROVE  /\ Typed' /\ Known' = Known /\ SameRequest(h) /\ handler[h].pc = "info"
         /\ handler'[h].pc = "reply" /\ (handler[h].reply # "dropped" => handler'[h].reply = "started")
<1>1. /\ UNCHANGED <<task, latest, result, marked, docker, conn, abort, portalVars, bounds, afterMark>>
      /\ handler[h].pc = "info" /\ info' = [info EXCEPT ![handler[h].step] = handler[h].exec]
      /\ Reply(h, "started")
  BY DEF RunInfo
<1>2. UNCHANGED task /\ Known' = Known /\ Steps' = Steps
  BY <1>1, SameTask DEF Known, docker
<1>3. PICK r \in HandlerRow :
        /\ handler' = [handler EXCEPT ![h] = r] /\ r.pc = "reply"
        /\ r.step = handler[h].step /\ r.cid = handler[h].cid
        /\ r.exec = handler[h].exec
        /\ r.reply = IF handler[h].reply = "dropped" THEN "dropped" ELSE "started"
  BY <1>1, ReplyIs
<1>4. handler[h].exec \in Known /\ handler[h].step \in Steps /\ handler[h].exec \in Nat
  BY <1>1, HandlerFacts
<1> HIDE DEF HandlerRow
<1>5. HandlerTyped' /\ SameRequest(h) /\ handler'[h] = r
  BY <1>1, <1>2, <1>3, Request
<1>6. FilesTyped'
  <2>1. FilesTyped
    BY DEF Typed
  <2>2. marked' \in BOOLEAN
    BY <1>1, <2>1, Zenon DEF FilesTyped
  <2> QED BY <1>1, <1>2, <1>4, <2>1, <2>2 DEF FilesTyped
<1>7. DockerTyped' /\ ConnTyped' /\ PortalTyped'
  BY <1>1, <1>2, Stays
<1>8. Typed'
  BY <1>1, <1>5, <1>6, <1>7 DEF Typed, bounds
<1> QED BY <1>1, <1>2, <1>3, <1>5, <1>8

LEMMA RunTyped ==
  ASSUME Typed, NEW h \in Handlers, Run(h)
  PROVE  /\ Typed' /\ SameRequest(h)
         /\ UNCHANGED <<task, marked, conn, abort, portalVars, bounds>>
<1>1. UNCHANGED <<task, marked, conn, abort, portalVars, bounds>>
  BY Zenon DEF Run, RunStart, RunCheck, RunExec, RunLatest, RunInfo, files
<1> QED BY <1>1, RunStartTyped, RunCheckTyped, RunExecTyped, RunLatestTyped, RunInfoTyped DEF Run

LEMMA AbortTyped ==
  ASSUME Typed, AbortRead \/ Abort
  PROVE  /\ Typed' /\ Kept
         /\ UNCHANGED <<task, latest, info, result, box, handler, conn, portalVars, bounds, afterMark>>
         /\ AbortRead => UNCHANGED <<execs, marked>>
         /\ AbortMark => marked' = TRUE /\ UNCHANGED execs
         /\ AbortStop => UNCHANGED marked
<1>1. UNCHANGED <<task, latest, info, result, box, handler, conn, portalVars, bounds, afterMark>>
  BY Zenon DEF AbortRead, Abort, AbortMark, AbortStop, files, docker
<1>2. /\ UNCHANGED task /\ Steps' = Steps /\ AbortRow' = AbortRow /\ FilesTyped /\ PortalTyped
      /\ PortalRow' = PortalRow
  BY <1>1, SameTask DEF Typed
<1>3. AbortRead => UNCHANGED <<execs, marked>>
  BY Zenon DEF AbortRead, files, docker
<1>4. AbortMark => marked' = TRUE /\ UNCHANGED execs
  BY Zenon DEF AbortMark, docker
<1>5. AbortStop => UNCHANGED marked
  BY Zenon DEF AbortStop, files
<1>6. abort' \in AbortRow
  BY <1>2 DEF AbortRead, Abort, AbortMark, AbortStop, AbortRow, PortalTyped, FilesTyped
<1>7. DockerTyped' /\ Kept
  <2>1. ASSUME UNCHANGED execs PROVE DockerTyped' /\ Kept
    <3>1. Known' = Known /\ UNCHANGED docker
      BY <1>1, <2>1 DEF Known, docker
    <3>2. DockerTyped'
      BY <1>2, <3>1, Stays
    <3> QED BY <2>1, <3>1, <3>2 DEF Kept, Grown
  <2>2. ASSUME NEW e \in Known, StopCommand(e) PROVE DockerTyped' /\ Kept
    BY <1>1, <2>2, StopRow DEF Kept, Grown
  <2>3. AbortStop => UNCHANGED execs \/ \E e \in Known : StopCommand(e)
    <3> SUFFICES ASSUME AbortStop, ~(UNCHANGED execs) PROVE \E e \in Known : StopCommand(e)
      OBVIOUS
    <3>1. info[abort.step] # 0 /\ StopCommand(info[abort.step])
      BY DEF AbortStop
    <3>2. info[abort.step] \in Known
      BY <1>2, <3>1 DEF FilesTyped, PortalTyped, AbortRow
    <3> QED BY <3>1, <3>2
  <2> QED BY <1>3, <1>4, <2>1, <2>2, <2>3 DEF Abort
<1>8. Known' = Known
  BY <1>7 DEF Kept, Grown
<1>9. FilesTyped'
  <2>1. marked' \in BOOLEAN
    <3>1. CASE UNCHANGED marked
      BY <1>2, <3>1, Zenon DEF FilesTyped
    <3>2. CASE marked' = TRUE
      BY <3>2, Zenon
    <3> QED BY <1>3, <1>4, <1>5, <3>1, <3>2 DEF Abort
  <2> QED BY <1>1, <1>2, <1>8, <2>1 DEF FilesTyped
<1>10. HandlerTyped' /\ ConnTyped'
  BY <1>1, <1>2, <1>8, Stays
<1>11. PortalTyped'
  BY <1>1, <1>2, <1>6 DEF PortalTyped, portalVars
<1>12. Typed'
  BY <1>1, <1>7, <1>9, <1>10, <1>11 DEF Typed, bounds
<1> QED BY <1>1, <1>3, <1>4, <1>5, <1>7, <1>12

LEMMA DieTyped ==
  ASSUME Typed, Die
  PROVE  /\ Typed' /\ Known' = Known /\ portal'.phase # "await"
         /\ \A h \in Handlers : handler'[h] = NoHandler
         /\ \A c \in Conns : conn'[c] = NoConn
<1>1. /\ UNCHANGED <<task, files, docker, views, afterMark>> /\ Fault
      /\ handler' = [h \in Handlers |-> NoHandler] /\ conn' = [c \in Conns |-> NoConn]
      /\ abort' = abort \/ abort' = [abort EXCEPT !.pc = "done"]
      /\ IF portal.phase = "await" THEN NoAnswer ELSE UNCHANGED portalVars
  BY DEF Die
<1>2. /\ UNCHANGED task /\ Known' = Known /\ HandlerRow' = HandlerRow /\ ConnRow' = ConnRow
      /\ task \in Tasks
  BY <1>1, SameTask DEF Known, docker, Typed
<1>3. HandlerTyped' /\ ConnTyped'
  <2>1. NoHandler \in HandlerRow /\ NoConn \in ConnRow /\ NoHandler.pc = "off"
        /\ NoConn.kind = "off" /\ NoConn.wait = "poll"
    BY <1>2, Rows, NoConnFacts DEF NoHandler
  <2> HIDE DEF HandlerRow, ConnRow, NoHandler, NoConn
  <2> QED BY <1>1, <1>2, <2>1 DEF HandlerTyped, ConnTyped, Sound
<1>4. PortalTyped' /\ portal'.phase # "await"
  <2>1. CASE NoAnswer
    BY <1>1, <2>1, NoAnswerTyped
  <2>2. CASE UNCHANGED portalVars /\ portal.phase # "await"
    <3>1. abort' \in AbortRow /\ PortalTyped
      BY <1>1 DEF Typed, PortalTyped, AbortRow
    <3> QED BY <1>1, <2>2, <3>1, SameTask DEF PortalTyped, portalVars
  <2> QED BY <1>1, <2>1, <2>2
<1>5. FilesTyped' /\ DockerTyped'
  BY <1>1, <1>2, Stays
<1>6. Typed'
  BY <1>1, <1>3, <1>4, <1>5, FaultTyped DEF Typed
<1> QED BY <1>1, <1>2, <1>4, <1>6

LEMMA StutterTyped ==
  ASSUME Typed, UNCHANGED vars
  PROVE  Typed'
<1>1. UNCHANGED task /\ Known' = Known
  BY DEF Known, vars, docker
<1>2. FilesTyped' /\ HandlerTyped' /\ DockerTyped' /\ ConnTyped' /\ PortalTyped'
  BY <1>1, Stays DEF vars
<1> QED BY <1>2 DEF Typed, vars, bounds

LEMMA TypedNext == Typed /\ [Next]_vars => Typed'
<1> SUFFICES ASSUME Typed, [Next]_vars PROVE Typed'
  OBVIOUS
<1>1. ASSUME NEW e \in DOMAIN execs, ExecEnds(e) \/ Killed(e) \/ Overdue(e) PROVE Typed'
  BY <1>1, EngineTyped DEF Known
<1>2. ASSUME Portal PROVE Typed'
  BY <1>2, SendRunTyped, AnswerTyped, ConnectTyped, GiveUpTyped, StopTaskTyped, Zenon DEF Portal
<1>3. ASSUME LoseAnswer PROVE Typed'
  BY <1>3, LoseAnswerTyped
<1>4. ASSUME NEW h \in Handlers, Run(h) PROVE Typed'
  BY <1>4, RunTyped
<1>5. ASSUME NEW c \in Conns, Wait(c) PROVE Typed'
  BY <1>5, WaitPollTyped, WaitWriteTyped, WaitReturnsTyped DEF Wait
<1>6. ASSUME NEW c \in Conns, Send(c) \/ Heartbeat(c) \/ PortalLate(c) \/ LoseConnection(c)
      PROVE  Typed'
  BY <1>6, SendTyped, LoseConnectionTyped
<1>7. ASSUME NEW c \in Conns, NEW k \in Steps, View(c, k) PROVE Typed'
  BY <1>7, ViewTyped
<1>8. ASSUME AbortRead \/ Abort PROVE Typed'
  BY <1>8, AbortTyped
<1>9. ASSUME Die PROVE Typed'
  BY <1>9, DieTyped
<1>10. ASSUME UNCHANGED vars PROVE Typed'
  BY <1>10, StutterTyped
<1> QED BY <1>1, <1>2, <1>3, <1>4, <1>5, <1>6, <1>7, <1>8, <1>9, <1>10, Zenon DEF Next

-----------------------------------------------------------------------------
(* Who talks to the portal: at most one request that it waits for, at most  *)
(* one connection that it reads, and only while it says so.                 *)
Talk ==
    /\ \A g, h \in Served : g = h
    /\ Served # {} => portal.phase = "await"
    /\ \A c, d \in Watching : c = d
    /\ Watching # {} => portal.phase = "watch"
    /\ \A c \in Conns : conn[c].main # "idle" => conn[c].kind = "status"

LEMMA TalkInit == Init => Talk
<1> SUFFICES ASSUME Init PROVE Talk
  OBVIOUS
<1>1. Served = {}
  BY DEF Init, Served, NoHandler
<1>2. Watching = {} /\ \A c \in Conns : conn[c].main = "idle"
  BY NoConnFacts DEF Init, Watching
<1> QED BY <1>1, <1>2 DEF Talk

LEMMA TalkKeeps ==
  ASSUME Talk, Served' \subseteq Served, Watching' \subseteq Watching, UNCHANGED portal,
         \A c \in Conns : conn'[c].main # "idle" => conn'[c].kind = "status"
  PROVE  Talk'
BY DEF Talk

LEMMA TalkQuiet ==
  ASSUME Served' = {}, Watching' = {},
         \A c \in Conns : conn'[c].main # "idle" => conn'[c].kind = "status"
  PROVE  Talk'
BY DEF Talk

LEMMA SameTalkers ==
  ASSUME Talk, UNCHANGED conn
  PROVE  Watching' = Watching /\ \A c \in Conns : conn'[c].main # "idle" => conn'[c].kind = "status"
BY DEF Talk, Watching

LEMMA SameServed ==
  ASSUME UNCHANGED handler
  PROVE  Served' = Served
BY DEF Served

LEMMA TalkPortal ==
  ASSUME Typed, Talk, Portal \/ LoseAnswer
  PROVE  Talk'
<1>1. ASSUME NEW h \in Handlers, SendRun(h) PROVE Talk'
  <2>1. /\ UNCHANGED conn /\ portal.phase = "send" /\ handler[h].pc = "off"
        /\ portal' = [portal EXCEPT !.phase = "await"]
        /\ \A g \in Handlers \ {h} : handler'[g] = handler[g]
    BY <1>1, SendRunTyped DEF SendRun
  <2>2. Served = {} /\ Watching = {}
    BY <2>1 DEF Talk
  <2>3. Served' \subseteq {h}
    BY <2>1, <2>2 DEF Served
  <2>4. portal'.phase = "await"
    BY <2>1 DEF Typed, PortalTyped, PortalRow
  <2> QED BY <2>1, <2>2, <2>3, <2>4, SameTalkers DEF Talk
<1>2. ASSUME NEW h \in Handlers, Answer(h) PROVE Talk'
  <2>1. /\ UNCHANGED conn /\ handler[h].pc = "reply" /\ handler'[h] = NoHandler
        /\ \A g \in Handlers \ {h} : handler'[g] = handler[g]
        /\ handler[h].reply = "dropped" => UNCHANGED portal
    BY <1>2, AnswerTyped DEF Answer, portalVars
  <2>2. Served' = Served \ {h}
    <3>1. NoHandler.pc = "off"
      BY DEF NoHandler
    <3>2. \A g \in Handlers : g \in Served' <=> g \in Served /\ g # h
      <4> HIDE DEF NoHandler
      <4> QED BY <2>1, <3>1 DEF Served
    <3> QED BY <3>2 DEF Served
  <2>3. CASE handler[h].reply = "dropped"
    BY <2>1, <2>2, <2>3, SameTalkers, TalkKeeps
  <2>4. CASE handler[h].reply # "dropped"
    <3>1. h \in Served
      BY <2>1, <2>4 DEF Served
    <3>2. Served' = {} /\ Watching = {}
      BY <2>2, <3>1 DEF Talk
    <3> QED BY <2>1, <3>2, SameTalkers, TalkQuiet
  <2> QED BY <2>3, <2>4
<1>3. ASSUME LoseAnswer PROVE Talk'
  <2>1. /\ UNCHANGED conn /\ portal.phase = "await"
        /\ \A h \in Handlers : /\ handler'[h].pc = handler[h].pc
                               /\ handler[h].pc # "off" => handler'[h].reply = "dropped"
    BY <1>3, LoseAnswerTyped DEF LoseAnswer
  <2>2. Served' = {} /\ Watching = {}
    BY <2>1 DEF Served, Talk
  <2> QED BY <2>1, <2>2, SameTalkers, TalkQuiet
<1>4. ASSUME NEW c \in Conns, Connect(c) PROVE Talk'
  <2>1. UNCHANGED handler /\ portal.phase = "watch" /\ Watching = {}
    BY <1>4 DEF Connect
  <2>2. Served' = {}
    BY <2>1, SameServed DEF Talk
  <2>3. CASE UNCHANGED conn
    BY <2>1, <2>2, <2>3, SameTalkers, TalkQuiet
  <2>4. CASE /\ UNCHANGED portalVars /\ info[portal.step] # 0
             /\ conn'[c] = [Open("status", portal.step) EXCEPT !.main = "status"]
             /\ \A d \in Conns \ {c} : conn'[d] = conn[d]
    <3>1. Watching' \subseteq {c}
      BY <2>1, <2>4 DEF Watching
    <3> DEFINE o == Open("status", portal.step)
    <3>2. o \in ConnRow /\ o.kind = "status"
      BY <2>4, OpenRow, ZenonT(60) DEF Typed, PortalTyped, PortalRow
    <3>3. conn'[c].kind = "status"
      <4>1. conn'[c] = [o EXCEPT !.main = "status"]
        BY <2>4
      <4> HIDE DEF o
      <4> QED BY <3>2, <4>1 DEF ConnRow
    <3>4. portal'.phase = "watch"
      BY <2>1, <2>4 DEF portalVars
    <3> QED BY <2>2, <2>4, <3>1, <3>3, <3>4 DEF Talk
  <2> QED BY <1>4, <2>3, <2>4, ConnectTyped
<1>5. ASSUME GiveUp \/ StopTask PROVE Talk'
  <2>1. UNCHANGED <<handler, conn>> /\ Watching = {} /\ Served = {}
    BY <1>5 DEF GiveUp, StopTask, Talk
  <2> QED BY <2>1, SameServed, SameTalkers, TalkQuiet
<1> QED BY <1>1, <1>2, <1>3, <1>4, <1>5 DEF Portal

LEMMA TalkRunner ==
  ASSUME Typed, Talk, [Next]_vars, ~(Portal \/ LoseAnswer)
  PROVE  Talk'
<1>1. ASSUME UNCHANGED <<handler, conn, portal>> PROVE Talk'
  BY <1>1, SameServed, SameTalkers, TalkKeeps
<1>2. ASSUME NEW h \in Handlers, Run(h) PROVE Talk'
  <2>1. SameRequest(h) /\ UNCHANGED <<conn, portal>>
    BY <1>2, RunTyped DEF portalVars
  <2>2. Served' = Served
    BY <2>1 DEF SameRequest, Served
  <2> QED BY <2>1, <2>2, SameTalkers, TalkKeeps
<1>3. ASSUME NEW c \in Conns, UNCHANGED handler,
             \A d \in Conns \ {c} : conn'[d] = conn[d],
             conn'[c].main # "idle" => conn'[c].kind = "status",
             conn'[c].kind = "status" => conn[c].kind = "status"
      PROVE  /\ Watching' \subseteq Watching /\ Served' = Served
             /\ \A d \in Conns : conn'[d].main # "idle" => conn'[d].kind = "status"
  BY <1>3, SameServed DEF Talk, Watching
<1>4. ASSUME NEW c \in Conns, Wait(c) PROVE Talk'
  <2>1. UNCHANGED <<handler, portal>>
    BY <1>4, Zenon DEF Wait, WaitPoll, WaitWrite, WaitReturns, portalVars
  <2>2. /\ \A d \in Conns \ {c} : conn'[d] = conn[d]
        /\ \/ conn'[c] = NoConn
           \/ conn'[c].kind = conn[c].kind /\ conn'[c].main = conn[c].main
    <3>1. ASSUME NEW w \in Waits, NEW g \in Gots, conn'[c] = WaitRow(c, w, g)
          PROVE  conn'[c].kind = conn[c].kind /\ conn'[c].main = conn[c].main
      BY <3>1, WaitFacts
    <3>2. conn[c].kind # "off" => conn[c].got \in Gots /\ conn[c].step \in Steps
      BY ConnFacts DEF ConnRow
    <3>3. \A s \in {"fill", "truncate", "ended", "late", "error"} : s \in Waits
      BY DEF Waits, WaitOver
    <3>4. CASE WaitPoll(c)
      <4> DEFINE s == Status(conn[c].step, conn[c].exec)
      <4>1. s \in Gots
        BY <3>2, <3>4, WaitPollTyped, StatusFacts DEF Gots
      <4>2. (IF s = "empty" THEN "ended" ELSE "truncate") \in Waits
        BY <3>3
      <4> HIDE DEF s
      <4>3. /\ \A d \in Conns \ {c} : conn'[d] = conn[d]
            /\ conn[c].kind # "off"
            /\ \/ conn'[c] = WaitRow(c, "error", conn[c].got)
               \/ conn'[c] = WaitRow(c, "late", conn[c].got)
               \/ conn'[c] = WaitRow(c, IF s = "empty" THEN "ended" ELSE "truncate", s)
        BY <3>4, WaitPollTyped, Zenon DEF s
      <4> QED BY <3>1, <3>2, <3>3, <4>1, <4>2, <4>3
    <3>5. CASE WaitWrite(c)
      BY <3>1, <3>2, <3>3, <3>5, WaitWriteTyped
    <3>6. CASE WaitReturns(c)
      BY <3>6, WaitReturnsTyped
    <3> QED BY <1>4, <3>4, <3>5, <3>6 DEF Wait
  <2>3. /\ conn'[c].main # "idle" => conn'[c].kind = "status"
        /\ conn'[c].kind = "status" => conn[c].kind = "status"
    BY <2>2, NoConnFacts DEF Talk
  <2> QED BY <1>3, <2>1, <2>2, <2>3, TalkKeeps
<1>5. ASSUME NEW c \in Conns, Send(c) \/ Heartbeat(c) \/ PortalLate(c) PROVE Talk'
  <2>1. /\ UNCHANGED handler /\ \A d \in Conns \ {c} : conn'[d] = conn[d]
        /\ conn[c].kind # "off" /\ (conn[c].main # "idle" \/ conn[c].kind = "status")
        /\ \/ Sent(c) /\ UNCHANGED portal
           \/ conn'[c] = ClosedRow(c)
    BY <1>5, SendTyped, Zenon DEF portalVars
  <2>2. conn[c].kind = "status"
    BY <2>1 DEF Talk
  <2>3. CASE Sent(c) /\ UNCHANGED portal
    <3>1. conn'[c].kind = "status"
      BY <2>2, <2>3 DEF Sent
    <3> QED BY <1>3, <2>1, <2>2, <2>3, <3>1, TalkKeeps
  <2>4. CASE conn'[c] = ClosedRow(c)
    <3>1. conn'[c].kind = "closed" /\ conn'[c].main = "idle"
      BY <2>1, <2>4, ClosedFacts
    <3>2. c \in Watching /\ c \notin Watching'
      BY <2>2, <3>1 DEF Watching
    <3>3. Served = {} /\ Watching \subseteq {c}
      BY <3>2 DEF Talk
    <3>4. /\ Watching' \subseteq Watching /\ Served' = Served
          /\ \A d \in Conns : conn'[d].main # "idle" => conn'[d].kind = "status"
      BY <1>3, <2>1, <3>1
    <3> QED BY <3>2, <3>3, <3>4, TalkQuiet
  <2> QED BY <2>1, <2>3, <2>4
<1>6. ASSUME NEW c \in Conns, LoseConnection(c) PROVE Talk'
  <2>1. /\ UNCHANGED <<handler, portal>> /\ conn[c].kind = "status" /\ conn'[c] = ClosedRow(c)
        /\ \A d \in Conns \ {c} : conn'[d] = conn[d]
    BY <1>6, LoseConnectionTyped DEF LoseConnection, portalVars
  <2>2. conn'[c].kind = "closed" /\ conn'[c].main = "idle"
    BY <2>1, ClosedFacts
  <2> QED BY <1>3, <2>1, <2>2, TalkKeeps
<1>7. ASSUME NEW c \in Conns, NEW k \in Steps, View(c, k) PROVE Talk'
  <2>1. /\ UNCHANGED <<handler, portal>> /\ conn'[c] = Open("log", k) /\ info[k] # 0
        /\ \A d \in Conns \ {c} : conn'[d] = conn[d]
    BY <1>7, ViewTyped DEF View, portalVars
  <2>2. conn'[c].kind = "log" /\ conn'[c].main = "idle"
    <3> DEFINE o == Open("log", k)
    <3>1. o.kind = "log" /\ o.main = "idle"
      BY <2>1, OpenRow
    <3> HIDE DEF o
    <3> QED BY <2>1, <3>1 DEF o
  <2> QED BY <1>3, <2>1, <2>2, TalkKeeps
<1>8. ASSUME Die PROVE Talk'
  <2>1. /\ \A h \in Handlers : handler'[h] = NoHandler
        /\ \A c \in Conns : conn'[c] = NoConn
    BY <1>8, DieTyped
  <2>2. Served' = {} /\ Watching' = {} /\ \A c \in Conns : conn'[c].main = "idle"
    <3>1. NoHandler.pc = "off"
      BY DEF NoHandler
    <3> HIDE DEF NoHandler, NoConn
    <3> QED BY <2>1, <3>1, NoConnFacts DEF Served, Watching
  <2> QED BY <2>2, TalkQuiet
<1>9. ASSUME NEW e \in DOMAIN execs, ExecEnds(e) \/ Killed(e) \/ Overdue(e)
      PROVE  UNCHANGED <<handler, conn, portal>>
  BY <1>9, Zenon DEF ExecEnds, Killed, Overdue, portalVars
<1>10. AbortRead \/ Abort => UNCHANGED <<handler, conn, portal>>
  BY AbortTyped DEF portalVars
<1>11. UNCHANGED vars => UNCHANGED <<handler, conn, portal>>
  BY Zenon DEF vars, portalVars
<1> QED BY <1>1, <1>2, <1>4, <1>5, <1>6, <1>7, <1>8, <1>9, <1>10, <1>11, Zenon DEF Next

-----------------------------------------------------------------------------
(* How many requests are at work: the one the portal waits for, and one for *)
(* each loss; and of these, those that have passed the look at the mark.    *)
Active == {h \in Handlers : handler[h].pc # "off"}
Passed == {h \in Handlers : handler[h].pc = "exec" /\ handler[h].step # Hidden}

Counted ==
    /\ IsFiniteSet(Active)
    /\ Cardinality(Active) <= faults + (IF portal.phase = "await" THEN 1 ELSE 0)
    /\ ~marked => afterMark = 0
    /\ marked => afterMark + Cardinality(Passed) <= 1 + faults

LEMMA PassedFacts ==
  ASSUME Counted
  PROVE  /\ IsFiniteSet(Passed) /\ Cardinality(Passed) \in Nat /\ Cardinality(Active) \in Nat
         /\ Cardinality(Passed) <= Cardinality(Active)
<1>1. Passed \subseteq Active
  BY DEF Passed, Active
<1> QED BY <1>1, FS_Subset, FS_CardinalityType DEF Counted

LEMMA CountedInit == Init => Counted
<1> SUFFICES ASSUME Init PROVE Counted
  OBVIOUS
<1>1. Active = {} /\ faults = 0 /\ afterMark = 0 /\ portal.phase = "send"
  BY DEF Init, Active, NoHandler
<1>2. IsFiniteSet(Active) /\ Cardinality(Active) = 0
  BY <1>1, FS_EmptySet
<1>3. marked = FALSE
  BY Zenon DEF Init
<1> QED BY <1>1, <1>2, <1>3 DEF Counted

(* The requests are the same ones, or fewer.                                *)
LEMMA CountedKeeps ==
  ASSUME Typed, Typed', Counted, Active' \subseteq Active, Passed' \subseteq Passed,
         UNCHANGED <<marked, afterMark>>, faults <= faults',
         \/ faults < faults'
         \/ portal.phase = "await" => portal'.phase = "await"
  PROVE  Counted'
<1>1. /\ IsFiniteSet(Active') /\ IsFiniteSet(Active) /\ Cardinality(Active') <= Cardinality(Active)
      /\ Cardinality(Active') \in Nat
      /\ Cardinality(Active) \in Nat
  BY FS_Subset, FS_CardinalityType DEF Counted
<1>2. /\ Cardinality(Passed') <= Cardinality(Passed) /\ Cardinality(Passed) \in Nat
      /\ Cardinality(Passed') \in Nat
  BY PassedFacts, FS_Subset, FS_CardinalityType
<1>3. faults \in Nat /\ faults' \in Nat /\ afterMark \in Nat
  BY DEF Typed
<1>4. Cardinality(Active') <= faults' + (IF portal'.phase = "await" THEN 1 ELSE 0)
  BY <1>1, <1>3 DEF Counted
<1>5. /\ ~marked' => afterMark' = 0
      /\ marked' => afterMark' + Cardinality(Passed') <= 1 + faults'
  BY <1>2, <1>3 DEF Counted
<1> QED BY <1>1, <1>4, <1>5 DEF Counted

LEMMA SameRequests ==
  ASSUME UNCHANGED <<task, handler>>
  PROVE  Active' = Active /\ Passed' = Passed
BY SameTask DEF Active, Passed

LEMMA CountedPortal ==
  ASSUME Typed, Typed', Talk, Counted, Portal \/ LoseAnswer
  PROVE  Counted'
<1>1. ASSUME NEW h \in Handlers, SendRun(h) PROVE Counted'
  <2>1. /\ UNCHANGED <<task, marked, afterMark, faults>> /\ portal.phase = "send"
        /\ portal' = [portal EXCEPT !.phase = "await"] /\ handler[h].pc = "off"
        /\ handler'[h] = [NoHandler EXCEPT !.pc = "start", !.step = portal.step, !.cid = portal.req]
        /\ \A g \in Handlers \ {h} : handler'[g] = handler[g]
    BY <1>1, SendRunTyped DEF SendRun, files, bounds
  <2>2. portal'.phase = "await" /\ handler'[h].pc = "start"
    BY <2>1 DEF Typed, PortalTyped, PortalRow, NoHandler
  <2>3. Active' = Active \cup {h} /\ h \notin Active /\ Passed' = Passed
    <3>1. \A g \in Handlers : /\ g \in Active' <=> g \in Active \/ g = h
                              /\ g \in Passed' <=> g \in Passed
      <4>1. Hidden' = Hidden
        BY <2>1, SameTask
      <4>2. /\ handler'[h].pc = "start" /\ handler[h].pc = "off"
            /\ \A g \in Handlers \ {h} : handler'[g] = handler[g]
        BY <2>1, <2>2
      <4> QED BY <4>1, <4>2 DEF Active, Passed
    <3>2. h \notin Active
      BY <2>1 DEF Active
    <3> QED BY <3>1, <3>2 DEF Active, Passed
  <2>4. IsFiniteSet(Active') /\ Cardinality(Active') = Cardinality(Active) + 1
    BY <2>3, FS_AddElement DEF Counted
  <2>5. Cardinality(Active) <= faults /\ faults \in Nat /\ Cardinality(Active) \in Nat
    BY <2>1, PassedFacts DEF Counted, Typed
  <2> QED BY <2>1, <2>2, <2>3, <2>4, <2>5 DEF Counted
<1>2. ASSUME NEW h \in Handlers, Answer(h) PROVE Counted'
  <2>1. /\ UNCHANGED <<task, marked, afterMark, faults>>
        /\ handler[h].pc = "reply" /\ handler'[h] = NoHandler
        /\ \A g \in Handlers \ {h} : handler'[g] = handler[g]
        /\ handler[h].reply = "dropped" => UNCHANGED portal
    BY <1>2, AnswerTyped DEF Answer, portalVars, files, bounds
  <2>2. Active' = Active \ {h} /\ h \in Active /\ Passed' = Passed
    <3>1. NoHandler.pc = "off"
      BY DEF NoHandler
    <3>2. \A g \in Handlers : /\ g \in Active' <=> g \in Active /\ g # h
                              /\ g \in Passed' <=> g \in Passed
      <4> HIDE DEF NoHandler
      <4> QED BY <2>1, <3>1, SameTask DEF Active, Passed
    <3>3. h \in Active
      BY <2>1 DEF Active
    <3> QED BY <3>2, <3>3 DEF Active, Passed
  <2>3. CASE handler[h].reply = "dropped"
    <3>1. Active' \subseteq Active /\ Passed' \subseteq Passed /\ faults <= faults'
      BY <2>1, <2>2 DEF Typed
    <3> QED BY <2>1, <2>3, <3>1, CountedKeeps
  <2>4. CASE handler[h].reply # "dropped"
    <3>1. portal.phase = "await"
      BY <2>1, <2>4 DEF Served, Talk
    <3>2. /\ IsFiniteSet(Active') /\ Cardinality(Active') = Cardinality(Active) - 1
          /\ Cardinality(Active) \in Nat
      BY <2>2, PassedFacts, FS_RemoveElement DEF Counted
    <3>3. Cardinality(Active') <= faults /\ faults \in Nat
      BY <3>1, <3>2 DEF Counted, Typed
    <3>4. Cardinality(Active') <= faults' + (IF portal'.phase = "await" THEN 1 ELSE 0)
      BY <2>1, <3>2, <3>3
    <3> QED BY <2>1, <2>2, <3>2, <3>4 DEF Counted
  <2> QED BY <2>3, <2>4
<1>3. ASSUME LoseAnswer PROVE Counted'
  <2>1. /\ UNCHANGED <<task, marked, afterMark>> /\ faults' = faults + 1 /\ faults \in Nat
        /\ \A h \in Handlers : /\ handler'[h].pc = handler[h].pc
                               /\ handler'[h].step = handler[h].step
    BY <1>3, LoseAnswerTyped, FaultTyped DEF LoseAnswer, files
  <2>2. Active' = Active /\ Passed' = Passed /\ faults < faults' /\ faults <= faults'
    <3>1. Hidden' = Hidden
      BY <2>1, SameTask
    <3>2. Active' = Active
      BY <2>1 DEF Active
    <3>3. Passed' = Passed
      BY <2>1, <3>1 DEF Passed
    <3> QED BY <2>1, <3>2, <3>3
  <2> QED BY <2>1, <2>2, CountedKeeps
<1>4. ASSUME (\E c \in Conns : Connect(c)) \/ GiveUp \/ StopTask PROVE Counted'
  <2>1. UNCHANGED <<task, marked, afterMark, faults, handler>> /\ portal.phase # "await"
    BY <1>4, Zenon DEF Connect, GiveUp, StopTask, files, bounds
  <2>2. Active' = Active /\ Passed' = Passed /\ faults <= faults'
    BY <2>1, SameRequests DEF Typed
  <2> QED BY <2>1, <2>2, CountedKeeps
<1> QED BY <1>1, <1>2, <1>3, <1>4 DEF Portal

LEMMA CountedRun ==
  ASSUME Typed, Typed', Counted, NEW h \in Handlers, Run(h)
  PROVE  Counted'
<1>1. /\ SameRequest(h) /\ UNCHANGED <<task, marked, portal, faults>>
      /\ faults \in Nat /\ afterMark \in Nat
  BY RunTyped DEF portalVars, bounds, Typed
<1>2. Active' = Active /\ Hidden' = Hidden
  BY <1>1, SameTask DEF SameRequest, Active
<1>3. /\ Cardinality(Passed) \in Nat /\ IsFiniteSet(Passed) /\ Cardinality(Active) \in Nat
      /\ Cardinality(Passed) <= Cardinality(Active)
  BY PassedFacts
<1>4. ASSUME ~RunExec(h) PROVE UNCHANGED afterMark
  BY <1>4, Zenon DEF Run, RunStart, RunCheck, RunLatest, RunInfo
<1>5. CASE ~RunExec(h) /\ ~RunCheck(h)
  <2>1. handler'[h].pc # "exec"
    BY <1>5, RunStartTyped, RunLatestTyped, RunInfoTyped DEF Run
  <2>2. Passed' \subseteq Passed
    BY <1>1, <1>2, <2>1 DEF SameRequest, Passed
  <2> QED BY <1>1, <1>2, <1>4, <1>5, <2>2, CountedKeeps
<1>6. CASE RunCheck(h)
  <2>1. ~RunExec(h)
    BY <1>6 DEF RunCheck, RunExec
  <2>2. CASE marked
    <3>1. Passed' \subseteq Passed
      BY <1>1, <1>2, <1>6, <2>2, RunCheckTyped, ZenonT(60) DEF SameRequest, Passed
    <3> QED BY <1>1, <1>2, <1>4, <2>1, <3>1, CountedKeeps
  <2>3. CASE ~marked
    BY <1>1, <1>2, <1>4, <2>1, <2>3 DEF Counted
  <2> QED BY <2>2, <2>3
<1>7. CASE RunExec(h)
  <2>1. /\ handler[h].pc = "exec" /\ handler'[h].pc # "exec"
        /\ UNCHANGED afterMark \/ afterMark' = IF marked /\ handler[h].step # Hidden
                                               THEN afterMark + 1 ELSE afterMark
    BY <1>7, RunExecTyped DEF RunExec
  <2>2. Passed' = Passed \ {h}
    BY <1>1, <1>2, <2>1 DEF SameRequest, Passed
  <2>3. CASE marked /\ handler[h].step # Hidden /\ afterMark' = afterMark + 1
    <3>1. h \in Passed
      BY <2>1, <2>3 DEF Passed
    <3>2. Cardinality(Passed') = Cardinality(Passed) - 1
      BY <1>3, <2>2, <3>1, FS_RemoveElement
    <3>3. marked' => afterMark' + Cardinality(Passed') <= 1 + faults'
      BY <1>1, <1>3, <2>3, <3>2 DEF Counted
    <3>4. marked'
      BY <1>1, <2>3
    <3> QED BY <1>1, <1>2, <3>3, <3>4 DEF Counted
  <2>4. CASE UNCHANGED afterMark
    <3>1. Passed' \subseteq Passed
      BY <2>2
    <3> QED BY <1>1, <1>2, <2>4, <3>1, CountedKeeps
  <2> QED BY <2>1, <2>3, <2>4
<1> QED BY <1>5, <1>6, <1>7

LEMMA CountedNext ==
  ASSUME Typed, Typed', Talk, Counted, [Next]_vars
  PROVE  Counted'
<1>1. CASE Portal \/ LoseAnswer
  BY <1>1, CountedPortal
<1>2. ASSUME NEW h \in Handlers, Run(h) PROVE Counted'
  BY <1>2, CountedRun
<1>3. ASSUME UNCHANGED <<task, handler, marked, afterMark, faults, portal>> PROVE Counted'
  <2>1. faults <= faults'
    BY <1>3 DEF Typed
  <2> QED BY <1>3, <2>1, SameRequests, CountedKeeps
<1>4. ASSUME NEW c \in Conns, Send(c) \/ Heartbeat(c) \/ PortalLate(c) PROVE Counted'
  <2>1. UNCHANGED <<task, handler, marked, afterMark, faults>> /\ faults <= faults'
    BY <1>4, SendTyped DEF files, bounds, Typed
  <2>2. portal.phase = "watch" \/ UNCHANGED portal
    <3>1. conn[c].kind = "status"
      BY <1>4, SendTyped DEF Talk
    <3> QED BY <3>1 DEF Watching, Talk
  <2> QED BY <2>1, <2>2, SameRequests, CountedKeeps
<1>5. ASSUME NEW c \in Conns, LoseConnection(c) PROVE Counted'
  <2>1. UNCHANGED <<task, handler, marked, afterMark>> /\ faults < faults' /\ faults <= faults'
    BY <1>5, FaultTyped DEF LoseConnection, files
  <2> QED BY <2>1, SameRequests, CountedKeeps
<1>6. CASE AbortRead \/ Abort
  <2>1. UNCHANGED <<task, handler, portal, faults, afterMark>>
    BY <1>6, AbortTyped DEF portalVars, bounds
  <2>2. CASE UNCHANGED marked
    BY <1>3, <2>1, <2>2
  <2>3. CASE marked' = TRUE /\ marked = FALSE
    <3>1. Active' = Active /\ Passed' = Passed
      BY <2>1, SameRequests
    <3>2. afterMark' = 0
      BY <2>1, <2>3 DEF Counted
    <3>3. Cardinality(Passed) <= 1 + faults
      <4>1. Cardinality(Active) <= 1 + faults /\ faults \in Nat
        BY PassedFacts DEF Counted, Typed
      <4> QED BY <4>1, PassedFacts
    <3> QED BY <2>1, <2>3, <3>1, <3>2, <3>3, PassedFacts DEF Counted
  <2>4. marked' = TRUE \/ UNCHANGED marked
    BY <1>6, AbortTyped DEF Abort
  <2>5. marked = TRUE \/ marked = FALSE
    BY Zenon DEF Typed, FilesTyped
  <2> QED BY <2>2, <2>3, <2>4, <2>5
<1>7. CASE Die
  <2>1. /\ UNCHANGED <<task, marked, afterMark>> /\ faults < faults' /\ faults <= faults'
        /\ \A h \in Handlers : handler'[h] = NoHandler
    BY <1>7, FaultTyped, DieTyped DEF Die, files
  <2>2. Active' = {} /\ Passed' = {}
    <3>1. NoHandler.pc = "off"
      BY DEF NoHandler
    <3> HIDE DEF NoHandler
    <3> QED BY <2>1, <3>1 DEF Active, Passed
  <2> QED BY <2>1, <2>2, CountedKeeps
<1>8. ASSUME NEW e \in DOMAIN execs, ExecEnds(e) \/ Killed(e) \/ Overdue(e) PROVE Counted'
  BY <1>3, <1>8, Zenon DEF ExecEnds, Killed, Overdue, files, bounds, portalVars
<1>9. ASSUME NEW c \in Conns, Wait(c) PROVE Counted'
  BY <1>3, <1>9, Zenon DEF Wait, WaitPoll, WaitWrite, WaitReturns, files, bounds, portalVars
<1>10. ASSUME NEW c \in Conns, NEW k \in Steps, View(c, k) PROVE Counted'
  BY <1>3, <1>10, Zenon DEF View, files, portalVars
<1>11. ASSUME UNCHANGED vars PROVE Counted'
  BY <1>3, <1>11, Zenon DEF vars, files, bounds, portalVars
<1> QED BY <1>1, <1>2, <1>4, <1>5, <1>6, <1>7, <1>8, <1>9, <1>10, <1>11, Zenon DEF Next

LEMMA TalkNext == Typed /\ Talk /\ [Next]_vars => Talk'
BY TalkPortal, TalkRunner

LEMMA TypeStep == Typed /\ Talk => TypeOK
<1> SUFFICES ASSUME Typed, Talk PROVE TypeOK
  OBVIOUS
<1>1. Cardinality(Watching) <= 1
  <2>1. CASE Watching = {}
    BY <2>1, FS_EmptySet
  <2>2. ASSUME NEW c \in Watching PROVE Cardinality(Watching) <= 1
    <3>1. Watching = {c}
      BY DEF Talk
    <3>2. Cardinality({c}) = 1
      BY FS_Singleton
    <3> QED BY <3>1, <3>2
  <2> QED BY <2>1, <2>2
<1>2. \A k \in Steps : info[k] <= Len(execs)
  <2>1. Known = 1..Len(execs) /\ Len(execs) \in Nat
    BY ExecFacts DEF Typed
  <2> QED BY <2>1 DEF Typed, FilesTyped
<1>3. /\ task \in Tasks /\ latest \in Steps /\ marked \in BOOLEAN /\ info \in [Steps -> Nat]
      /\ result \in [Steps -> {"none", "empty"} \cup Ended] /\ box \in {"none", "up", "gone"}
      /\ outcome \in [Steps -> {"none"} \cup Outcomes]
      /\ views \in Nat /\ faults \in Nat /\ afterMark \in Nat
  <2>1. marked \in BOOLEAN
    BY Zenon DEF Typed, FilesTyped
  <2> QED BY <2>1 DEF Typed, FilesTyped, DockerTyped, PortalTyped, Results
<1>4. execs \in Seq([step : Steps, state : {"running"} \cup Ended, stopping : BOOLEAN,
                     overdue : BOOLEAN, late : BOOLEAN])
  BY Zenon DEF Typed, DockerTyped, ExecRow, States
<1>5. handler \in [Handlers ->
        [pc : {"off", "start", "check", "exec", "latest", "info", "reply"}, step : Steps,
         cid : BOOLEAN, exec : Nat, reply : {"none", "started", "aborted", "error", "dropped"}]]
  BY Zenon DEF Typed, HandlerTyped, HandlerRow, HandlerPcs, Replies
<1>6. conn \in [Conns ->
        [kind : {"off", "status", "log", "closed"}, step : Steps, exec : Nat,
         main : {"idle", "status", "mark"}, send : {"first", "beat", "final"},
         wait : {"poll", "truncate", "fill"} \cup WaitOver,
         seen : {"none", "running"} \cup Ended, got : {"none", "running", "empty"} \cup Ended]]
  BY Zenon DEF Typed, ConnTyped, ConnRow, Kinds, Mains, Sends, Waits, Seen, Gots
<1>7. /\ abort \in [pc : {"idle", "mark", "load", "done"}, step : Steps]
      /\ portal \in [phase : {"send", "await", "watch", "stop", "over"}, step : Steps,
                     cid : BOOLEAN, req : BOOLEAN, tries : 0..task.retries]
  BY Zenon DEF Typed, PortalTyped, AbortRow, PortalRow
<1> QED BY <1>1, <1>2, <1>3, <1>4, <1>5, <1>6, <1>7, Zenon DEF TypeOK

(* Every variable keeps its type, an info file names a command that was     *)
(* started, and the portal reads one connection at a time.                  *)
THEOREM TypeCorrect == Spec => []TypeOK
BY TypedInit, TypedNext, TalkInit, TalkNext, TypeStep, PTL DEF Spec

(* Once the task is marked aborted, at most the command whose request had   *)
(* already passed RunTask's look at the mark starts, and one more for each  *)
(* answer or connection lost and each death of the runner.                  *)
THEOREM AbortCorrect == Spec => []AbortStopsStarts
<1>1. Init => Typed /\ Talk /\ Counted
  BY TypedInit, TalkInit, CountedInit
<1>2. Typed /\ Talk /\ Counted /\ [Next]_vars => (Typed /\ Talk /\ Counted)'
  BY TypedNext, TalkNext, CountedNext
<1>3. Typed /\ Counted => AbortStopsStarts
  <2> SUFFICES ASSUME Typed, Counted PROVE AbortStopsStarts
    OBVIOUS
  <2>1. /\ Cardinality(Passed) \in Nat /\ afterMark \in Nat /\ faults \in Nat
        /\ marked \/ ~marked
    BY PassedFacts DEF Typed
  <2> QED BY <2>1 DEF Counted, AbortStopsStarts
<1> QED BY <1>1, <1>2, <1>3, PTL DEF Spec

-----------------------------------------------------------------------------
(* What no step of the system takes back: what the commands have shown.     *)
LEMMA KeptSame ==
  ASSUME UNCHANGED execs
  PROVE  Kept
BY DEF Kept, Grown, Known

LEMMA StepGrown ==
  ASSUME Typed, [Next]_vars
  PROVE  Grown /\ UNCHANGED task /\ (marked => marked')
<1> DEFINE P == Grown /\ UNCHANGED task /\ (marked => marked')
<1>1. ASSUME UNCHANGED <<task, marked, execs>> PROVE P
  BY <1>1, KeptSame DEF Kept
<1>2. ASSUME NEW e \in DOMAIN execs, ExecEnds(e) \/ Killed(e) \/ Overdue(e) PROVE P
  <2>1. UNCHANGED <<task, files>>
    BY <1>2, Zenon DEF ExecEnds, Killed, Overdue
  <2>2. Kept
    BY <1>2, EngineTyped DEF Known
  <2> QED BY <2>1, <2>2 DEF files, Kept
<1>3. Portal => P
  <2>1. ASSUME NEW h \in Handlers, SendRun(h) \/ Answer(h) PROVE P
    <3>1. UNCHANGED <<task, files, docker>>
      BY <2>1, Zenon DEF SendRun, Answer
    <3> QED BY <1>1, <3>1 DEF files, docker
  <2>2. (\E c \in Conns : Connect(c)) \/ GiveUp => UNCHANGED <<task, files, docker>>
    BY Zenon DEF Connect, GiveUp
  <2>3. ASSUME StopTask PROVE P
    BY <2>3, StopTaskTyped DEF StopTask, files, Kept
  <2> QED BY <1>1, <2>1, <2>2, <2>3 DEF Portal, files, docker
<1>4. LoseAnswer \/ Die => P
  <2>1. LoseAnswer \/ Die => UNCHANGED <<task, files, docker>>
    BY Zenon DEF LoseAnswer, Die
  <2> QED BY <1>1, <2>1 DEF files, docker
<1>5. ASSUME NEW h \in Handlers, Run(h) PROVE P
  <2>1. UNCHANGED <<task, marked>>
    BY <1>5, RunTyped
  <2>2. Grown
    <3>1. CASE RunExec(h)
      BY <3>1, RunExecTyped DEF Grown
    <3>2. CASE ~RunExec(h)
      <4>1. UNCHANGED execs
        BY <1>5, <3>2, Zenon DEF Run, RunStart, RunCheck, RunLatest, RunInfo, docker
      <4> QED BY <4>1, KeptSame DEF Kept
    <3> QED BY <3>1, <3>2
  <2> QED BY <2>1, <2>2
<1>6. ASSUME NEW c \in Conns, Wait(c) PROVE P
  <2>1. UNCHANGED <<task, marked>>
    BY <1>6, Zenon DEF Wait, WaitPoll, WaitWrite, WaitReturns, files
  <2>2. WaitPoll(c) => Grown
    BY WaitPollTyped DEF Kept
  <2>3. WaitWrite(c) \/ WaitReturns(c) => UNCHANGED execs
    BY Zenon DEF WaitWrite, WaitReturns, docker
  <2> QED BY <1>1, <1>6, <2>1, <2>2, <2>3 DEF Wait
<1>7. ASSUME NEW c \in Conns, Send(c) \/ Heartbeat(c) \/ PortalLate(c) PROVE P
  <2>1. UNCHANGED <<task, files, docker>>
    BY <1>7, SendTyped
  <2> QED BY <1>1, <2>1 DEF files, docker
<1>8. ASSUME NEW c \in Conns, LoseConnection(c) \/ \E k \in Steps : View(c, k) PROVE P
  <2>1. UNCHANGED <<task, files, docker>>
    BY <1>8, Zenon DEF LoseConnection, View
  <2> QED BY <1>1, <2>1 DEF files, docker
<1>9. ASSUME AbortRead \/ Abort PROVE P
  <2>1. Kept /\ UNCHANGED task
    BY <1>9, AbortTyped
  <2>2. UNCHANGED marked \/ marked' = TRUE
    BY <1>9, AbortTyped, Zenon DEF Abort
  <2>3. marked => marked'
    BY <2>2, Zenon
  <2> QED BY <2>1, <2>3 DEF Kept
<1>10. ASSUME UNCHANGED vars PROVE P
  BY <1>1, <1>10 DEF vars, files, docker
<1> QED BY <1>2, <1>3, <1>4, <1>5, <1>6, <1>7, <1>8, <1>9, <1>10, Zenon DEF Next

Ran(k, s) == \E e \in Known : execs[e].step = k /\ execs[e].state = s
Live(e) == execs[e].state = "running" /\ ~execs[e].stopping
Over(k) == \E e \in Known : execs[e].step = k /\ ~Again(e) /\ ~Live(e)
Bad(k) == \E e \in Known : execs[e].step = k /\ (execs[e].state \in {"bad", "violated"} \/ execs[e].overdue)
Unasked(k) == \A e \in Known : execs[e].step # k
Shown(k) == \E e \in Known : /\ execs[e].step = k /\ execs[e].state = "ok"
                             /\ k # Hidden => ~execs[e].late

(* States: running, or as it ended.                                         *)
LEMMA StateFacts ==
  ASSUME Typed, NEW e \in Known
  PROVE  /\ execs[e].state \in States /\ execs[e].step \in Steps
         /\ execs[e].state = "running" <=> execs[e].state \notin Ended
<1>1. execs[e] \in ExecRow
  BY ExecFacts DEF Typed
<1> QED BY <1>1 DEF ExecRow, States, Ended

LEMMA AgainFacts ==
  ASSUME Typed, Grown, NEW e \in Known
  PROVE  /\ e \in Nat /\ \A f \in 1..(e - 1) : f \in Known
         /\ Again(e)' <=> Again(e)
<1>1. e \in Nat /\ \A f \in 1..(e - 1) : f \in Known
  BY ExecFacts DEF Typed
<1> QED BY <1>1 DEF Again, Grown

LEMMA LiveFacts ==
  ASSUME Typed, Typed', Grown, NEW e \in Known
  PROVE  Live(e)' => Live(e)
<1>1. e \in Known' /\ (execs'[e].state = "running" => execs'[e].state \notin Ended)
  BY DEF Grown, Ended
<1>2. execs'[e].state = "running" => execs[e].state \notin Ended
  BY <1>1 DEF Grown
<1> QED BY <1>1, <1>2, StateFacts, Zenon DEF Live, Grown

LEMMA GrownFacts ==
  ASSUME Typed, Typed', Grown, UNCHANGED task, NEW k \in Steps
  PROVE  /\ \A s \in Ended : Ran(k, s) => Ran(k, s)'
         /\ Over(k) => Over(k)'
         /\ Bad(k) => Bad(k)'
         /\ Shown(k) => Shown(k)'
         /\ Kept /\ Unasked(k) => Unasked(k)'
<1>1. /\ Known \subseteq Known' /\ Hidden' = Hidden
      /\ \A e \in Known :
           /\ execs'[e].step = execs[e].step
           /\ execs[e].state \in Ended => /\ execs'[e].state = execs[e].state
                                          /\ execs'[e].late => execs[e].late
           /\ execs[e].overdue => execs'[e].overdue
           /\ Live(e)' => Live(e)
           /\ Again(e)' <=> Again(e)
  BY SameTask, LiveFacts, AgainFacts DEF Grown
<1>2. "ok" \in Ended /\ {"bad", "violated"} \subseteq Ended
  BY DEF Ended
<1>3. \A s \in Ended : Ran(k, s) => Ran(k, s)'
  BY <1>1 DEF Ran
<1>4. Over(k) => Over(k)'
  BY <1>1 DEF Over
<1>5. Bad(k) => Bad(k)'
  BY <1>1, <1>2 DEF Bad
<1>6. Shown(k) => Shown(k)'
  BY <1>1, <1>2 DEF Shown
<1>7. Kept /\ Unasked(k) => Unasked(k)'
  BY <1>1 DEF Unasked, Kept
<1> QED BY <1>3, <1>4, <1>5, <1>6, <1>7

-----------------------------------------------------------------------------
(* What is said of a command links it to its step, whatever is lost.        *)
Boxed == \A e \in Known : execs[e].state = "running" => box = "up"
InfoOf == \A k \in Steps : info[k] # 0 => execs[info[k]].step = k
ResultOf == \A k \in Steps : result[k] \in Ended => Ran(k, result[k])
Follows(h) ==
    handler[h].pc \in {"latest", "info"} => execs[handler[h].exec].step = handler[h].step
Reads(c) == LET x == conn[c] IN
    x.kind # "off" =>
    /\ execs[x.exec].step = x.step
    /\ x.got \in Ended => Ran(x.step, x.got)
    /\ x.seen \in Ended => Ran(x.step, x.seen)
    /\ x.wait = "late" => ~Live(x.exec) /\ execs[x.exec].overdue
OnTime == ~marked => \A e \in Known : ~execs[e].late

Linked ==
    /\ Boxed /\ InfoOf /\ ResultOf /\ OnTime
    /\ \A h \in Handlers : Follows(h)
    /\ \A c \in Conns : Reads(c)

LEMMA LinkedInit == Init => Linked
<1> SUFFICES ASSUME Init PROVE Linked
  OBVIOUS
<1>1. execs = <<>> /\ Known = {} /\ \A k \in Steps : info[k] = 0 /\ result[k] = "none"
  BY DEF Init, Known
<1>2. \A h \in Handlers : handler[h].pc = "off"
  BY DEF Init, NoHandler
<1>3. \A c \in Conns : conn[c].kind = "off"
  BY NoConnFacts DEF Init
<1> QED BY <1>1, <1>2, <1>3 DEF Linked, Boxed, InfoOf, ResultOf, OnTime, Follows, Reads, Ended

LEMMA ReadsKept ==
  ASSUME Typed, Typed', Grown, UNCHANGED task, NEW c \in Conns, Reads(c), conn[c].kind # "off",
         conn'[c].step = conn[c].step, conn'[c].exec = conn[c].exec,
         \/ conn'[c].got = conn[c].got
         \/ conn'[c].got \in Ended => Ran(conn[c].step, conn'[c].got),
         \/ conn'[c].seen = conn[c].seen
         \/ conn'[c].seen \in Ended => Ran(conn[c].step, conn'[c].seen),
         \/ conn'[c].wait = conn[c].wait
         \/ conn'[c].wait = "late" => execs[conn[c].exec].overdue /\ ~Live(conn[c].exec)'
  PROVE  Reads(c)'
<1> DEFINE k == conn[c].step
           e == conn[c].exec
<1>1. e \in Known /\ k \in Steps
  BY ConnFacts DEF ConnRow
<1>2. execs'[e].step = k
  BY <1>1 DEF Grown, Reads
<1>3. \A s \in Ended : Ran(k, s) => Ran(k, s)'
  BY <1>1, GrownFacts
<1>4. conn'[c].got \in Ended => Ran(k, conn'[c].got)
  BY DEF Reads
<1>5. conn'[c].seen \in Ended => Ran(k, conn'[c].seen)
  BY DEF Reads
<1>6. conn'[c].wait = "late" => ~Live(e)' /\ execs'[e].overdue
  <2>1. conn[c].wait = "late" => ~Live(e) /\ execs[e].overdue
    BY DEF Reads
  <2>2. (Live(e)' => Live(e)) /\ (execs[e].overdue => execs'[e].overdue)
    BY <1>1, LiveFacts DEF Grown
  <2> QED BY <2>1, <2>2, Zenon
<1>7. \A s \in Ended : Ran(k, s) => \E f \in Known' : execs'[f].step = k /\ execs'[f].state = s
  BY <1>3 DEF Ran
<1>8. conn'[c].wait = "late" => /\ ~(execs'[e].state = "running" /\ ~execs'[e].stopping)
                                /\ execs'[e].overdue
  BY <1>6 DEF Live
<1> QED BY <1>2, <1>4, <1>5, <1>7, <1>8 DEF Reads, Ran, Live

LEMMA ReadsSame ==
  ASSUME Typed, Typed', Grown, UNCHANGED task, NEW c \in Conns, Reads(c),
         conn'[c] = conn[c] \/ (conn[c].kind # "off" /\ conn'[c] = ClosedRow(c))
  PROVE  Reads(c)'
<1>1. CASE conn[c].kind = "off"
  BY <1>1 DEF Reads
<1>2. CASE conn[c].kind # "off" /\ conn'[c] = conn[c]
  BY <1>2, ReadsKept
<1>3. CASE conn[c].kind # "off" /\ conn'[c] = ClosedRow(c)
  <2>1. "none" \notin Ended
    BY DEF Ended
  <2>2. /\ conn'[c].step = conn[c].step /\ conn'[c].exec = conn[c].exec
        /\ conn'[c].got = conn[c].got /\ conn'[c].wait = conn[c].wait /\ conn'[c].seen = "none"
    BY <1>3, ClosedFacts
  <2> QED BY <1>3, <2>1, <2>2, ReadsKept
<1> QED BY <1>1, <1>2, <1>3

(* The four that do not speak of goroutines, while no command is started.   *)
LEMMA LinkedFiles ==
  ASSUME Typed, Typed', Kept, Linked, UNCHANGED <<task, info>>, marked => marked', Boxed',
         \A k \in Steps : \/ result'[k] = result[k]
                          \/ result'[k] \in Ended => Ran(k, result'[k])
  PROVE  (Boxed /\ InfoOf /\ ResultOf /\ OnTime)'
<1>1. Steps' = Steps /\ Grown /\ Known' = Known
  BY SameTask DEF Kept
<1>2. InfoOf'
  <2>1. \A k \in Steps : info[k] # 0 => info[k] \in Known
    BY DEF Typed, FilesTyped
  <2> QED BY <1>1, <2>1 DEF Linked, InfoOf, Grown
<1>3. ResultOf'
  <2> SUFFICES ASSUME NEW k \in Steps, result'[k] \in Ended
               PROVE  \E f \in Known' : execs'[f].step = k /\ execs'[f].state = result'[k]
    BY <1>1 DEF ResultOf, Ran
  <2>1. Ran(k, result'[k])
    BY DEF Linked, ResultOf
  <2>2. \A s \in Ended : Ran(k, s) => Ran(k, s)'
    BY <1>1, GrownFacts
  <2>3. \A s \in Ended : Ran(k, s) => \E f \in Known' : execs'[f].step = k /\ execs'[f].state = s
    BY <2>2 DEF Ran
  <2> QED BY <2>1, <2>3
<1>4. OnTime'
  BY <1>1 DEF Linked, OnTime, Grown
<1> QED BY <1>2, <1>3, <1>4

(* A step that starts no command and writes no info.                        *)
LEMMA LinkedKept ==
  ASSUME Typed, Typed', Kept, Linked, UNCHANGED <<task, info>>, marked => marked', Boxed',
         \A k \in Steps : \/ result'[k] = result[k]
                          \/ result'[k] \in Ended => Ran(k, result'[k]),
         \A h \in Handlers : handler'[h].pc \in {"latest", "info"} =>
             /\ handler[h].pc \in {"latest", "info"}
             /\ handler'[h].step = handler[h].step /\ handler'[h].exec = handler[h].exec,
         \A c \in Conns : \/ conn'[c] = conn[c]
                          \/ conn[c].kind # "off" /\ conn'[c] = ClosedRow(c)
                          \/ Reads(c)'
  PROVE  Linked'
<1>1. (Boxed /\ InfoOf /\ ResultOf /\ OnTime)'
  BY LinkedFiles
<1>2. ASSUME NEW h \in Handlers PROVE Follows(h)'
  <2>1. handler[h].pc \in {"latest", "info"} => handler[h].exec \in Known
    BY HandlerFacts
  <2> QED BY <2>1 DEF Linked, Follows, Kept, Grown
<1>3. ASSUME NEW c \in Conns PROVE Reads(c)'
  BY <1>3, ReadsSame DEF Linked, Kept
<1> QED BY <1>1, <1>2, <1>3 DEF Linked

LEMMA BoxedKept ==
  ASSUME Typed, Typed', Kept, Boxed, box' = box \/ box' = "up"
  PROVE  Boxed'
<1> SUFFICES ASSUME NEW e \in Known, execs'[e].state = "running" PROVE box' = "up"
  BY DEF Boxed, Kept
<1>1. execs'[e].state \notin Ended
  BY DEF Ended
<1>2. execs[e].state = "running"
  BY <1>1, StateFacts DEF Kept, Grown
<1> QED BY <1>2 DEF Boxed

LEMMA StatusReads ==
  ASSUME Typed, Linked, NEW c \in Conns, conn[c].kind # "off",
         Status(conn[c].step, conn[c].exec) \in Ended
  PROVE  Ran(conn[c].step, Status(conn[c].step, conn[c].exec))
<1> DEFINE k == conn[c].step
           e == conn[c].exec
           s == Status(k, e)
<1>1. e \in Known /\ k \in Steps
  BY ConnFacts DEF ConnRow
<1>2. result[k] = s \/ execs[e].state = s
  BY <1>1, StatusFacts
<1>3. execs[e].step = k
  BY DEF Linked, Reads
<1> HIDE DEF s
<1>4. s \in Ended
  BY DEF s
<1>5. Ran(k, s)
  BY <1>1, <1>2, <1>3, <1>4 DEF Linked, ResultOf, Ran
<1> QED BY <1>5 DEF s

LEMMA OpenReads ==
  ASSUME Typed, Linked, UNCHANGED execs, NEW c \in Conns, NEW k \in Steps, info[k] # 0,
         conn'[c].step = k, conn'[c].exec = info[k], conn'[c].seen = "none", conn'[c].got = "none",
         conn'[c].wait \in {"poll", "error", "ended"}
  PROVE  Reads(c)'
BY DEF Linked, InfoOf, Reads, Ended

LEMMA OpenGot ==
  ASSUME NEW kind, NEW k
  PROVE  Open(kind, k).got = "none"
BY DEF Open, NoConn

LEMMA LinkedPortal ==
  ASSUME Typed, Typed', Linked, Portal \/ LoseAnswer
  PROVE  Linked'
<1>1. ASSUME NEW h \in Handlers, SendRun(h) PROVE Linked'
  <2>1. /\ UNCHANGED <<task, info, result, marked, box, execs, conn>>
        /\ handler'[h] = [NoHandler EXCEPT !.pc = "start", !.step = portal.step, !.cid = portal.req]
        /\ \A g \in Handlers \ {h} : handler'[g] = handler[g]
    BY <1>1, SendRunTyped DEF SendRun, files, docker
  <2>2. handler'[h].pc = "start"
    BY <2>1 DEF NoHandler
  <2> QED BY <2>1, <2>2, KeptSame, BoxedKept, LinkedKept DEF Linked
<1>2. ASSUME NEW h \in Handlers, Answer(h) PROVE Linked'
  <2>1. /\ UNCHANGED <<task, info, result, marked, box, execs, conn>>
        /\ handler'[h] = NoHandler
        /\ \A g \in Handlers \ {h} : handler'[g] = handler[g]
    BY <1>2, AnswerTyped DEF Answer, files, docker
  <2>2. handler'[h].pc = "off"
    BY <2>1 DEF NoHandler
  <2> QED BY <2>1, <2>2, KeptSame, BoxedKept, LinkedKept DEF Linked
<1>3. ASSUME NEW c \in Conns, Connect(c) PROVE Linked'
  <2>1. UNCHANGED <<task, info, result, marked, box, execs, handler>>
    BY <1>3, Zenon DEF Connect, files, docker
  <2>2. \A d \in Conns : conn'[d] = conn[d] \/ Reads(d)'
    <3>1. CASE UNCHANGED conn
      BY <3>1
    <3>2. CASE /\ info[portal.step] # 0
               /\ conn'[c] = [Open("status", portal.step) EXCEPT !.main = "status"]
               /\ \A d \in Conns \ {c} : conn'[d] = conn[d]
      <4> DEFINE k == portal.step
                 o == Open("status", k)
      <4>1. k \in Steps
        BY DEF Typed, PortalTyped, PortalRow
      <4>2. /\ o \in ConnRow /\ o.step = k /\ o.exec = info[k] /\ o.seen = "none"
            /\ o.wait \in {"poll", "error", "ended"}
        BY <3>2, <4>1, OpenRow
      <4>3. o.got = "none"
        BY OpenGot
      <4>4. conn'[c] = [o EXCEPT !.main = "status"]
        BY <3>2
      <4> HIDE DEF o
      <4>5. /\ conn'[c].step = k /\ conn'[c].exec = info[k] /\ conn'[c].seen = "none"
            /\ conn'[c].got = "none" /\ conn'[c].wait \in {"poll", "error", "ended"}
        BY <4>2, <4>3, <4>4 DEF ConnRow
      <4>6. Reads(c)'
        BY <2>1, <3>2, <4>1, <4>5, OpenReads
      <4> QED BY <3>2, <4>6
    <3> QED BY <1>3, <3>1, <3>2, ConnectTyped
  <2> QED BY <2>1, <2>2, KeptSame, BoxedKept, LinkedKept DEF Linked
<1>4. ASSUME GiveUp PROVE Linked'
  <2>1. UNCHANGED <<task, info, result, marked, box, execs, handler, conn>>
    BY <1>4, Zenon DEF GiveUp, files, docker
  <2> QED BY <2>1, KeptSame, BoxedKept, LinkedKept DEF Linked
<1>5. ASSUME StopTask PROVE Linked'
  <2>1. /\ UNCHANGED <<task, info, result, marked, handler, conn>> /\ Kept
        /\ portal.cid => \A e \in Known : execs'[e].state # "running"
        /\ ~portal.cid => UNCHANGED box
    BY <1>5, StopTaskTyped DEF StopTask, files, docker
  <2>2. Boxed'
    <3>1. CASE portal.cid
      BY <2>1, <3>1 DEF Boxed, Kept
    <3>2. CASE ~portal.cid
      BY <2>1, <3>2, BoxedKept DEF Linked
    <3> QED BY <3>1, <3>2
  <2> QED BY <2>1, <2>2, LinkedKept
<1>6. ASSUME LoseAnswer PROVE Linked'
  <2>1. UNCHANGED <<task, info, result, marked, box, execs, conn>>
    BY <1>6, Zenon DEF LoseAnswer, files, docker
  <2> QED BY <1>6, <2>1, LoseAnswerTyped, KeptSame, BoxedKept, LinkedKept DEF Linked
<1> QED BY <1>1, <1>2, <1>3, <1>4, <1>5, <1>6 DEF Portal

LEMMA LinkedRun ==
  ASSUME Typed, Typed', Linked, NEW h \in Handlers, Run(h)
  PROVE  Linked'
<1>1. /\ SameRequest(h) /\ UNCHANGED <<task, marked, conn>>
      /\ \A g \in Handlers \ {h} : handler'[g] = handler[g]
      /\ handler'[h].step = handler[h].step
  BY RunTyped DEF SameRequest
<1>2. CASE RunStart(h)
  <2>1. /\ UNCHANGED <<info, execs>> /\ handler'[h].pc \in {"check", "reply"}
        /\ box' = box \/ box' = "up"
        /\ result' = result \/ result' = [result EXCEPT ![handler[h].step] = "none"]
    BY <1>2, RunStartTyped DEF RunStart
  <2>2. result \in [Steps -> Results] /\ "none" \notin Ended
    BY DEF Typed, FilesTyped, Ended
  <2>3. \A k \in Steps : result'[k] = result[k] \/ result'[k] \notin Ended
    BY <2>1, <2>2
  <2> QED BY <1>1, <2>1, <2>3, KeptSame, BoxedKept, LinkedKept DEF Linked
<1>3. CASE RunCheck(h)
  <2>1. /\ UNCHANGED <<info, result, box, execs>> /\ handler'[h].pc \in {"exec", "reply"}
    BY <1>3, RunCheckTyped DEF RunCheck, files, docker
  <2> QED BY <1>1, <2>1, KeptSame, BoxedKept, LinkedKept DEF Linked
<1>4. CASE RunLatest(h)
  <2>1. /\ UNCHANGED <<info, result, box, execs>> /\ handler[h].pc = "latest"
        /\ handler'[h].exec = handler[h].exec
    BY <1>4, RunLatestTyped DEF RunLatest, docker
  <2> QED BY <1>1, <2>1, KeptSame, BoxedKept, LinkedKept DEF Linked
<1>5. CASE RunInfo(h)
  <2> DEFINE k == handler[h].step
             e == handler[h].exec
  <2>1. /\ UNCHANGED <<result, box, execs>> /\ handler[h].pc = "info" /\ handler'[h].pc = "reply"
        /\ info' = [info EXCEPT ![k] = e]
    BY <1>5, RunInfoTyped DEF RunInfo, docker
  <2>2. k \in Steps /\ e \in Known /\ execs[e].step = k /\ info \in [Steps -> Nat]
    BY <2>1, HandlerFacts DEF Linked, Follows, Typed, FilesTyped
  <2>3. /\ Kept /\ Known' = Known /\ Steps' = Steps /\ UNCHANGED box
        /\ \A j \in Steps : info'[j] = IF j = k THEN e ELSE info[j]
    BY <1>1, <2>1, <2>2, KeptSame, SameTask DEF Kept
  <2> HIDE DEF k, e
  <2>4. InfoOf'
    BY <2>1, <2>2, <2>3 DEF Linked, InfoOf
  <2>5. Boxed' /\ OnTime'
    BY <1>1, <2>1, <2>3 DEF Linked, Boxed, OnTime
  <2>6. ResultOf'
    BY <2>1, <2>3 DEF Linked, ResultOf, Ran
  <2>7. ASSUME NEW g \in Handlers PROVE Follows(g)'
    BY <1>1, <2>1, <2>7 DEF Linked, Follows
  <2>8. ASSUME NEW c \in Conns PROVE Reads(c)'
    BY <1>1, <2>3, <2>8, ReadsSame DEF Linked, Kept
  <2> QED BY <2>4, <2>5, <2>6, <2>7, <2>8 DEF Linked
<1>6. CASE RunExec(h)
  <2> DEFINE n == Len(execs) + 1
  <2>1. UNCHANGED <<info, result, box>> /\ Grown /\ Steps' = Steps
    BY <1>1, <1>6, RunExecTyped, SameTask DEF RunExec, files, Grown
  <2>2. \/ UNCHANGED execs /\ handler'[h].pc = "reply"
        \/ /\ box = "up" /\ handler'[h].pc = "latest" /\ handler'[h].exec = n
           /\ Known' = Known \cup {n} /\ \A e \in Known : execs'[e] = execs[e]
           /\ execs'[n] = [step |-> handler[h].step, state |-> "running",
                           stopping |-> FALSE, overdue |-> FALSE, late |-> FALSE]
    BY <1>6, RunExecTyped
  <2>3. CASE UNCHANGED execs /\ handler'[h].pc = "reply"
    BY <1>1, <2>1, <2>3, KeptSame, BoxedKept, LinkedKept DEF Linked
  <2>4. CASE /\ box = "up" /\ handler'[h].pc = "latest" /\ handler'[h].exec = n
             /\ Known' = Known \cup {n} /\ \A e \in Known : execs'[e] = execs[e]
             /\ execs'[n] = [step |-> handler[h].step, state |-> "running",
                             stopping |-> FALSE, overdue |-> FALSE, late |-> FALSE]
    <3>1. /\ execs'[n].step = handler[h].step /\ ~execs'[n].late
          /\ \A j \in Steps : info[j] # 0 => info[j] \in Known
          /\ \A g \in Handlers : handler[g].pc \in {"latest", "info"} => handler[g].exec \in Known
      BY <2>4, HandlerFacts DEF Typed, FilesTyped
    <3> HIDE DEF n
    <3>2. Boxed' /\ OnTime'
      <4>1. Boxed'
        BY <2>1, <2>4 DEF Linked, Boxed
      <4>2. OnTime'
        BY <1>1, <2>4, <3>1 DEF Linked, OnTime
      <4> QED BY <4>1, <4>2
    <3>3. InfoOf'
      BY <2>1, <2>4, <3>1 DEF Linked, InfoOf
    <3>4. ResultOf'
      <4> SUFFICES ASSUME NEW j \in Steps, result[j] \in Ended PROVE Ran(j, result[j])'
        BY <2>1 DEF ResultOf
      <4>1. Ran(j, result[j])
        BY DEF Linked, ResultOf
      <4> QED BY <1>1, <2>1, <4>1, GrownFacts
    <3>5. ASSUME NEW g \in Handlers PROVE Follows(g)'
      BY <1>1, <2>4, <3>1, <3>5 DEF Linked, Follows
    <3>6. ASSUME NEW c \in Conns PROVE Reads(c)'
      BY <1>1, <2>1, <3>6, ReadsSame DEF Linked
    <3> QED BY <3>2, <3>3, <3>4, <3>5, <3>6 DEF Linked
  <2> QED BY <2>2, <2>3, <2>4
<1> QED BY <1>2, <1>3, <1>4, <1>5, <1>6 DEF Run

LEMMA LinkedWait ==
  ASSUME Typed, Typed', Linked, NEW c \in Conns, Wait(c)
  PROVE  Linked'
<1> DEFINE k == conn[c].step
           e == conn[c].exec
           s == Status(k, e)
           w == IF s = "empty" THEN "ended" ELSE "truncate"
<1>1. UNCHANGED <<task, info, marked, box, handler>>
  BY Zenon DEF Wait, WaitPoll, WaitWrite, WaitReturns, files, docker
<1>2. conn[c].got \in Gots /\ k \in Steps
  BY ConnFacts DEF ConnRow
<1>3. CASE WaitPoll(c)
  <2>1. /\ Kept /\ conn[c].kind # "off" /\ e \in Known
        /\ \A d \in Conns \ {c} : conn'[d] = conn[d]
        /\ \/ conn'[c] = WaitRow(c, "error", conn[c].got)
           \/ conn'[c] = WaitRow(c, "late", conn[c].got) /\ StopCommand(e) /\ execs[e].overdue
           \/ conn'[c] = WaitRow(c, w, s)
    BY <1>3, WaitPollTyped
  <2>2. UNCHANGED result
    BY <1>3, Zenon DEF WaitPoll, files
  <2>3. Reads(c) /\ Grown
    BY <2>1 DEF Linked, Kept
  <2>4. CASE conn'[c] = WaitRow(c, "error", conn[c].got)
    <3>1. /\ conn'[c].step = k /\ conn'[c].exec = e /\ conn'[c].got = conn[c].got
          /\ conn'[c].seen = conn[c].seen /\ conn'[c].wait = "error"
      <4>1. "error" \in Waits
        BY DEF Waits, WaitOver
      <4> QED BY <2>4, <4>1, WaitMoves
    <3> QED BY <1>1, <2>1, <2>2, <2>3, <3>1, ReadsKept, BoxedKept, LinkedKept DEF Linked
  <2>5. CASE conn'[c] = WaitRow(c, "late", conn[c].got) /\ StopCommand(e) /\ execs[e].overdue
    <3>1. /\ conn'[c].step = k /\ conn'[c].exec = e /\ conn'[c].got = conn[c].got
          /\ conn'[c].seen = conn[c].seen /\ conn'[c].wait = "late"
      <4>1. "late" \in Waits
        BY DEF Waits, WaitOver
      <4> QED BY <2>5, <4>1, WaitMoves
    <3>2. /\ execs'[e].state = execs[e].state
          /\ (box = "up" /\ execs[e].state = "running" => execs'[e].stopping)
      BY <1>1, <2>1, <2>5, StopRow
    <3>3. execs[e].state = "running" => box = "up"
      BY <2>1 DEF Linked, Boxed
    <3>4. ~Live(e)'
      <4>1. ~(execs'[e].state = "running" /\ ~execs'[e].stopping)
        BY <3>2, <3>3, Zenon
      <4> QED BY <3>1, <4>1 DEF Live
    <3>5. Reads(c)'
      BY <1>1, <2>1, <2>3, <2>5, <3>1, <3>4, ReadsKept
    <3> QED BY <1>1, <2>1, <2>2, <3>5, BoxedKept, LinkedKept DEF Linked
  <2>6. CASE conn'[c] = WaitRow(c, w, s)
    <3>1. s \in Gots /\ w \in Waits
      BY <1>2, <2>1, StatusFacts DEF Gots, Waits, WaitOver
    <3>2. s \in Ended => Ran(k, s)
      BY <2>1, StatusReads
    <3>3. w # "late"
      OBVIOUS
    <3> HIDE DEF s, w
    <3>4. /\ conn'[c].step = k /\ conn'[c].exec = e /\ conn'[c].got = s
          /\ conn'[c].seen = conn[c].seen /\ conn'[c].wait = w
      BY <2>6, <3>1, WaitFacts
    <3>5. Reads(c)'
      BY <1>1, <2>1, <2>3, <3>2, <3>3, <3>4, ReadsKept
    <3> QED BY <1>1, <2>1, <2>2, <3>5, BoxedKept, LinkedKept DEF Linked
  <2> QED BY <2>1, <2>4, <2>5, <2>6
<1>4. CASE WaitWrite(c)
  <2>1. /\ UNCHANGED execs /\ conn[c].kind # "off"
        /\ \A d \in Conns \ {c} : conn'[d] = conn[d]
    BY <1>4, WaitWriteTyped DEF WaitWrite, docker
  <2>2. PICK v \in {"fill", "ended"} :
          /\ conn'[c] = WaitRow(c, v, conn[c].got)
          /\ conn[c].wait \in {"truncate", "fill"}
          /\ result' = [result EXCEPT ![k] =
                          IF v = "fill" THEN "empty" ELSE IF @ = "none" THEN @ ELSE conn[c].got]
    BY <1>4, WaitWriteTyped
  <2>3. Reads(c) /\ conn[c].got \in Ended
    BY <2>2, ConnFacts DEF Linked
  <2>4. /\ conn'[c].step = k /\ conn'[c].exec = e /\ conn'[c].got = conn[c].got
        /\ conn'[c].seen = conn[c].seen /\ conn'[c].wait # "late"
    <3>1. v \in Waits /\ v # "late"
      BY DEF Waits, WaitOver
    <3> QED BY <2>2, <3>1, WaitMoves
  <2>5. Kept
    BY <2>1, KeptSame
  <2>6. Reads(c)'
    BY <1>1, <2>1, <2>3, <2>4, <2>5, ReadsKept DEF Kept
  <2>7. \A j \in Steps : result'[j] = result[j] \/ (result'[j] \in Ended => Ran(j, result'[j]))
    <3>1. result \in [Steps -> Results] /\ "empty" \notin Ended /\ Ran(k, conn[c].got)
      BY <2>1, <2>3 DEF Reads, Typed, FilesTyped, Ended
    <3> QED BY <1>2, <2>2, <3>1
  <2> QED BY <1>1, <2>1, <2>5, <2>6, <2>7, BoxedKept, LinkedKept DEF Linked
<1>5. CASE WaitReturns(c)
  <2>1. /\ UNCHANGED <<result, execs>> /\ conn'[c] = NoConn
        /\ \A d \in Conns \ {c} : conn'[d] = conn[d]
    BY <1>5, WaitReturnsTyped DEF WaitReturns, files, docker
  <2>2. Reads(c)'
    BY <2>1, NoConnFacts DEF Reads
  <2> QED BY <1>1, <2>1, <2>2, KeptSame, BoxedKept, LinkedKept DEF Linked
<1> QED BY <1>3, <1>4, <1>5 DEF Wait

LEMMA LinkedSend ==
  ASSUME Typed, Typed', Linked, NEW c \in Conns, Send(c) \/ Heartbeat(c) \/ PortalLate(c)
  PROVE  Linked'
<1>1. /\ UNCHANGED <<task, info, result, marked, box, execs, handler>> /\ conn[c].kind # "off"
      /\ \A d \in Conns \ {c} : conn'[d] = conn[d]
      /\ Sent(c) \/ conn'[c] = ClosedRow(c)
  BY SendTyped DEF files, docker
<1>2. CASE Sent(c)
  <2>1. \/ conn'[c].seen = conn[c].seen
        \/ conn'[c].seen \in Ended => Ran(conn[c].step, conn'[c].seen)
    <3>1. "none" \notin Ended
      BY DEF Ended
    <3> QED BY <1>1, <1>2, <3>1, StatusReads DEF Sent
  <2>2. Reads(c)'
    BY <1>1, <1>2, <2>1, KeptSame, ReadsKept DEF Sent, Kept, Linked
  <2> QED BY <1>1, <2>2, KeptSame, BoxedKept, LinkedKept DEF Linked
<1>3. CASE conn'[c] = ClosedRow(c)
  BY <1>1, <1>3, KeptSame, BoxedKept, LinkedKept DEF Linked
<1> QED BY <1>1, <1>2, <1>3

LEMMA LinkedNext ==
  ASSUME Typed, Typed', Linked, [Next]_vars
  PROVE  Linked'
<1>1. ASSUME NEW e \in DOMAIN execs, ExecEnds(e) \/ Killed(e) \/ Overdue(e) PROVE Linked'
  <2>1. UNCHANGED <<task, info, result, marked, box, handler, conn>>
    BY <1>1, Zenon DEF ExecEnds, Killed, Overdue, files
  <2>2. Kept
    BY <1>1, EngineTyped DEF Known
  <2> QED BY <2>1, <2>2, BoxedKept, LinkedKept DEF Linked
<1>2. ASSUME NEW c \in Conns, LoseConnection(c) PROVE Linked'
  <2>1. /\ UNCHANGED <<task, info, result, marked, box, execs, handler>> /\ conn[c].kind # "off"
        /\ conn'[c] = ClosedRow(c) /\ \A d \in Conns \ {c} : conn'[d] = conn[d]
    BY <1>2, LoseConnectionTyped DEF LoseConnection, files, docker
  <2> QED BY <2>1, KeptSame, BoxedKept, LinkedKept DEF Linked
<1>3. ASSUME NEW c \in Conns, NEW k \in Steps, View(c, k) PROVE Linked'
  <2>1. /\ UNCHANGED <<task, info, result, marked, box, execs, handler>> /\ info[k] # 0
        /\ conn'[c] = Open("log", k) /\ \A d \in Conns \ {c} : conn'[d] = conn[d]
    BY <1>3, ViewTyped DEF View, files, docker
  <2> DEFINE o == Open("log", k)
  <2>2. /\ o.step = k /\ o.exec = info[k] /\ o.seen = "none"
        /\ o.wait \in {"poll", "error", "ended"}
    BY <2>1, OpenRow
  <2>5. o.got = "none"
    BY OpenGot
  <2>4. conn'[c] = o
    BY <2>1
  <2> HIDE DEF o
  <2>3. Reads(c)'
    BY <2>1, <2>2, <2>4, <2>5, OpenReads
  <2> QED BY <2>1, <2>3, KeptSame, BoxedKept, LinkedKept DEF Linked
<1>4. ASSUME AbortRead \/ Abort PROVE Linked'
  <2>1. Kept /\ UNCHANGED <<task, info, result, box, handler, conn>>
    BY <1>4, AbortTyped
  <2>2. marked => marked'
    BY <1>4, StepGrown DEF Next
  <2> QED BY <2>1, <2>2, BoxedKept, LinkedKept DEF Linked
<1>5. ASSUME Die PROVE Linked'
  <2>1. /\ UNCHANGED <<task, info, result, marked, box, execs>>
        /\ \A h \in Handlers : handler'[h].pc = "off"
        /\ \A c \in Conns : conn'[c].kind = "off"
    BY <1>5, DieTyped, NoConnFacts DEF Die, files, docker, NoHandler
  <2>2. \A c \in Conns : Reads(c)'
    BY <2>1 DEF Reads
  <2> QED BY <2>1, <2>2, KeptSame, BoxedKept, LinkedKept DEF Linked
<1>6. ASSUME UNCHANGED vars PROVE Linked'
  <2>1. UNCHANGED <<task, info, result, marked, box, execs, handler, conn>>
    BY <1>6, Zenon DEF vars, files, docker
  <2> QED BY <2>1, KeptSame, BoxedKept, LinkedKept DEF Linked
<1> QED BY <1>1, <1>2, <1>3, <1>4, <1>5, <1>6, LinkedPortal, LinkedRun, LinkedWait, LinkedSend,
           Zenon DEF Next

-----------------------------------------------------------------------------
(* While nothing is lost: commands are those of the steps so far, the later *)
(* attempts of a step come after its first, and only a first command of the *)
(* step the portal is at runs on ...                                        *)
InOrder ==
    \A e \in Known : /\ execs[e].step <= portal.step
                     /\ Again(e) => Over(execs[e].step)
                     /\ Live(e) /\ ~Again(e) => marked \/ execs[e].step = portal.step

(* ... the portal knows how far the runner is, and tries a step again after *)
(* a failure only ...                                                       *)
Ready ==
    /\ portal.tries > 0 => Over(portal.step) /\ Bad(portal.step) /\ portal.cid
    /\ portal.phase = "send" => /\ portal.tries = 0 => Unasked(portal.step)
                                /\ portal.req \/ marked \/ box = "none" \/ portal.tries > 0
    /\ portal.phase = "watch" => info[portal.step] # 0 /\ portal.cid
    /\ portal.cid \/ portal.req => portal.phase = "over" \/ box = "up"

(* ... a request is the one it waits for ...                                *)
Asks(h) == LET x == handler[h] IN
    x.pc # "off" =>
    /\ portal.phase = "await" /\ x.reply # "dropped" /\ x.step = portal.step /\ x.cid = portal.req
    /\ x.pc = "start" => x.cid \/ marked \/ box = "none" \/ portal.tries > 0
    /\ x.pc \in {"check", "exec", "latest", "info"} => box = "up"
    /\ x.pc \in {"start", "check", "exec"} /\ portal.tries = 0 => Unasked(x.step)
    /\ x.pc = "reply" => \/ x.reply = "started" /\ info[x.step] # 0 /\ box = "up"
                         \/ x.reply = "aborted" /\ marked
                         \/ x.reply = "error" /\ (marked \/ portal.tries > 0)
AllAsk == \A h \in Handlers : Asks(h)

(* ... its connection follows the step it is at, and a file is empty only   *)
(* while a connection writes it ...                                         *)
StatusOf == \A c \in Conns : conn[c].kind = "status" => conn[c].step = portal.step
Filled == \A k \in Steps : result[k] = "empty" => \E c \in Conns : conn[c].step = k /\ conn[c].wait = "fill"

(* ... so that what the portal records is true.                             *)
SaidTrue ==
    \A k \in Steps : /\ outcome[k] = "failed" /\ ~marked => Bad(k)
                     /\ outcome[k] = "complete" => Shown(k)

Peace == InOrder /\ Ready /\ AllAsk /\ StatusOf /\ Filled /\ SaidTrue
Calm == Undisturbed => Peace

LEMMA PeaceInit == Init => Peace
<1> SUFFICES ASSUME Init PROVE Peace
  OBVIOUS
<1>1. /\ Known = {} /\ box = "none" /\ task \in Tasks
      /\ portal.phase = "send" /\ portal.cid = FALSE /\ portal.req = FALSE /\ portal.tries = 0
  BY DEF Init, Known
<1>2. \A k \in Steps : result[k] = "none" /\ outcome[k] = "none"
  BY DEF Init
<1>3. \A h \in Handlers : handler[h].pc = "off"
  BY DEF Init, NoHandler
<1>4. \A c \in Conns : conn[c].kind = "off"
  BY NoConnFacts DEF Init
<1> QED BY <1>1, <1>2, <1>3, <1>4 DEF Peace, InOrder, Ready, AllAsk, Asks, StatusOf, Filled, SaidTrue,
                                      Unasked

(* The first command of a step is one; and a command that is settled leaves *)
(* none of its step that is first and live.                                 *)
LEMMA FirstOnce ==
  ASSUME Typed, NEW e \in Known, NEW f \in Known, ~Again(e), ~Again(f),
         execs[e].step = execs[f].step
  PROVE  e = f
<1>1. e \in Nat /\ f \in Nat /\ e >= 1 /\ f >= 1
  BY ExecFacts DEF Typed
<1> QED BY <1>1 DEF Again

LEMMA SettledOver ==
  ASSUME InOrder, NEW e \in Known, ~Live(e)
  PROVE  Over(execs[e].step)
BY DEF InOrder, Over

LEMMA RanOver ==
  ASSUME InOrder, NEW k, NEW s \in Ended, Ran(k, s)
  PROVE  Over(k)
<1>1. PICK e \in Known : execs[e].step = k /\ execs[e].state = s
  BY DEF Ran
<1>2. ~Live(e)
  BY <1>1 DEF Live, Ended
<1> QED BY <1>1, <1>2, SettledOver

LEMMA InOrderKept ==
  ASSUME Typed, Typed', Kept, UNCHANGED task, marked => marked', portal'.step = portal.step, InOrder
  PROVE  InOrder'
<1> SUFFICES ASSUME NEW e \in Known
             PROVE  /\ execs'[e].step <= portal'.step
                    /\ Again(e)' => Over(execs[e].step)'
                    /\ Live(e)' /\ ~Again(e)' => marked' \/ execs'[e].step = portal'.step
  <2>1. Known' = Known /\ \A e \in Known : execs'[e].step = execs[e].step
    BY DEF Kept, Grown
  <2> QED BY <2>1 DEF InOrder, Over
<1>1. /\ Grown /\ execs'[e].step = execs[e].step /\ execs[e].step \in Steps
      /\ (Again(e)' <=> Again(e)) /\ (Live(e)' => Live(e))
  BY AgainFacts, LiveFacts, StateFacts DEF Kept, Grown
<1>2. /\ execs[e].step <= portal.step
      /\ Again(e) => Over(execs[e].step)
      /\ Live(e) /\ ~Again(e) => marked \/ execs[e].step = portal.step
  BY DEF InOrder
<1>3. \A k \in Steps : Over(k) => Over(k)'
  BY <1>1, GrownFacts
<1>4. Over(execs[e].step) => Over(execs[e].step)'
  BY <1>1, <1>3 DEF Over
<1> QED BY <1>1, <1>2, <1>4

LEMMA ReadyKept ==
  ASSUME Typed, Typed', Kept, UNCHANGED <<task, portal>>, marked => marked', Ready,
         \A k \in Steps : info[k] # 0 => info'[k] # 0,
         box' = box \/ (box' = "up" /\ portal.phase = "await")
  PROVE  Ready'
<1> DEFINE k == portal.step
<1>1. k \in Steps
  BY DEF Typed, PortalTyped, PortalRow
<1>2. \A j \in Steps : /\ Over(j) => Over(j)'
                       /\ Bad(j) => Bad(j)'
                       /\ Unasked(j) => Unasked(j)'
  BY GrownFacts DEF Kept
<1>3. /\ Over(k) => Over(k)'
      /\ Bad(k) => Bad(k)'
      /\ Unasked(k) => Unasked(k)'
  BY <1>1, <1>2 DEF Over, Bad, Unasked
<1> QED BY <1>1, <1>3 DEF Ready

LEMMA AskKept ==
  ASSUME Typed, Typed', Kept, UNCHANGED <<task, info, box, portal>>, marked => marked',
         NEW h \in Handlers, Asks(h), handler'[h] = handler[h]
  PROVE  Asks(h)'
<1>1. handler[h].step \in Steps /\ Known' = Known
  BY HandlerFacts DEF Kept
<1>2. Unasked(handler[h].step) => Unasked(handler[h].step)'
  BY <1>1, GrownFacts DEF Unasked, Kept, Grown
<1> QED BY <1>2 DEF Asks

LEMMA SaidKept ==
  ASSUME Typed, Typed', Grown, UNCHANGED <<task, outcome>>, marked => marked', SaidTrue
  PROVE  SaidTrue'
<1>1. Steps' = Steps
  BY SameTask
<1>2. \A k \in Steps : (Bad(k) => Bad(k)') /\ (Shown(k) => Shown(k)')
  BY GrownFacts
<1> QED BY <1>1, <1>2 DEF SaidTrue

LEMMA FilledKept ==
  ASSUME UNCHANGED <<task, result>>, Filled,
         \A c \in Conns : conn[c].wait = "fill" =>
                            conn'[c].wait = "fill" /\ conn'[c].step = conn[c].step
  PROVE  Filled'
BY SameTask DEF Filled

(* A step that leaves the requests, the info files and the portal alone.    *)
LEMMA PeaceKept ==
  ASSUME Typed, Typed', Kept, Peace, marked => marked',
         UNCHANGED <<task, info, box, handler, portal, outcome>>,
         \A c \in Conns : conn'[c].kind = "status" =>
             \/ conn[c].kind = "status" /\ conn'[c].step = conn[c].step
             \/ conn'[c].step = portal.step,
         Filled'
  PROVE  Peace'
<1>1. InOrder' /\ Ready'
  BY InOrderKept, ReadyKept DEF Peace
<1>2. AllAsk'
  BY AskKept DEF Peace, AllAsk
<1>3. StatusOf'
  BY DEF Peace, StatusOf
<1>4. SaidTrue'
  BY SaidKept DEF Peace, Kept
<1> QED BY <1>1, <1>2, <1>3, <1>4 DEF Peace

(* A request is the only one, and the portal waits for it.                  *)
LEMMA OnlyRequest ==
  ASSUME Talk, AllAsk, NEW h \in Handlers, handler[h].pc # "off"
  PROVE  /\ portal.phase = "await"
         /\ \A g \in Handlers \ {h} : handler[g].pc = "off"
<1>1. \A g \in Handlers : handler[g].pc # "off" => g \in Served
  BY DEF AllAsk, Asks, Served
<1> QED BY <1>1 DEF Talk

(* The portal leaves a step: its first command is settled, what it records  *)
(* is true, and nobody talks to it any more.                                *)
LEMMA PeaceOver ==
  ASSUME Typed, Typed', Peace, NEW how \in Outcomes, StepOver(how),
         UNCHANGED <<task, files, docker, abort>>,
         portal.phase \in {"await", "watch"}, marked \/ portal.cid,
         marked \/ Over(portal.step),
         how = "failed" => marked \/ Bad(portal.step),
         how = "complete" => Shown(portal.step),
         \A h \in Handlers : handler'[h].pc = "off",
         \A c \in Conns : conn'[c].kind # "status",
         \A c \in Conns : conn[c].wait = "fill" =>
                            conn'[c].wait = "fill" /\ conn'[c].step = conn[c].step
  PROVE  Peace'
<1>1. /\ outcome' = [outcome EXCEPT ![portal.step] = how] /\ portal'.cid = portal.cid
      /\ portal.step \in Steps /\ portal'.step \in Steps
      /\ \/ /\ portal'.phase = "send" /\ portal'.step > portal.step
            /\ portal'.tries = 0 /\ portal'.req = portal.cid
         \/ /\ portal'.phase = "stop" /\ portal'.step = portal.step
            /\ portal'.tries = portal.tries /\ portal'.req = portal.req
  BY OverTyped
<1>2. /\ Kept /\ Grown /\ Known' = Known /\ Steps' = Steps /\ Hidden' = Hidden
      /\ UNCHANGED <<latest, info, result, marked, box, execs>>
  BY KeptSame, SameTask DEF files, docker, Known, Kept
<1>3. /\ Steps \subseteq Nat /\ portal.step \in Nat /\ portal'.step \in Nat
      /\ \A e \in Known : execs[e].step \in Nat
  <2>1. Steps \subseteq Nat
    BY StepFacts DEF Typed
  <2> QED BY <1>1, <2>1, StateFacts
<1>4. InOrder /\ Ready /\ SaidTrue
  BY DEF Peace
<1>5. InOrder'
  <2> SUFFICES ASSUME NEW e \in Known
               PROVE  /\ execs[e].step <= portal'.step
                      /\ Again(e) => Over(execs[e].step)
                      /\ Live(e) /\ ~Again(e) => marked \/ execs[e].step = portal'.step
    BY <1>2 DEF InOrder, Over, Live, Again
  <2>1. /\ execs[e].step <= portal.step
        /\ Again(e) => Over(execs[e].step)
        /\ Live(e) /\ ~Again(e) => marked \/ execs[e].step = portal.step
    BY <1>4 DEF InOrder
  <2>2. execs[e].step <= portal'.step
    BY <1>1, <1>3, <2>1
  <2>3. Live(e) /\ ~Again(e) => marked
    <3> SUFFICES ASSUME Live(e), ~Again(e), ~marked PROVE FALSE
      OBVIOUS
    <3>1. PICK f \in Known : execs[f].step = portal.step /\ ~Again(f) /\ ~Live(f)
      BY DEF Over
    <3>2. e = f
      BY <2>1, <3>1, FirstOnce
    <3> QED BY <3>1, <3>2
  <2> QED BY <2>1, <2>2, <2>3
<1>6. Ready'
  <2>1. portal.cid \/ portal.req => box = "up"
    BY <1>4 DEF Ready
  <2>2. CASE portal'.phase = "send"
    <3>1. \A e \in Known : execs[e].step # portal'.step
      <4>1. \A e \in Known : execs[e].step <= portal.step
        BY <1>4 DEF InOrder
      <4>2. portal'.step > portal.step
        BY <1>1, <2>2
      <4> QED BY <1>3, <4>1, <4>2
    <3>2. Unasked(portal.step)'
      BY <1>2, <3>1 DEF Unasked
    <3> QED BY <1>1, <1>2, <2>1, <2>2, <3>2 DEF Ready
  <2>3. CASE portal'.phase = "stop"
    <3>1. portal'.step = portal.step /\ portal'.tries = portal.tries /\ portal'.req = portal.req
      BY <1>1, <2>3
    <3>2. (Over(portal.step) => Over(portal.step)') /\ (Bad(portal.step) => Bad(portal.step)')
      BY <1>2, <3>1 DEF Over, Bad, Again, Live
    <3> QED BY <1>1, <1>2, <1>4, <2>1, <2>3, <3>1, <3>2 DEF Ready
  <2> QED BY <1>1, <2>2, <2>3
<1>7. AllAsk' /\ StatusOf'
  BY DEF AllAsk, Asks, StatusOf
<1>8. Filled'
  BY <1>2, FilledKept DEF Peace
<1>9. SaidTrue'
  <2> SUFFICES ASSUME NEW k \in Steps
               PROVE  /\ outcome'[k] = "failed" /\ ~marked => Bad(k)'
                      /\ outcome'[k] = "complete" => Shown(k)'
    BY <1>2 DEF SaidTrue
  <2>1. (Bad(k) => Bad(k)') /\ (Shown(k) => Shown(k)')
    BY <1>2, GrownFacts
  <2>2. outcome'[k] = IF k = portal.step THEN how ELSE outcome[k]
    BY <1>1 DEF Typed, PortalTyped
  <2>3. /\ outcome'[k] = "failed" /\ ~marked => Bad(k)
        /\ outcome'[k] = "complete" => Shown(k)
    BY <1>4, <2>2 DEF SaidTrue
  <2> QED BY <2>1, <2>3
<1> QED BY <1>5, <1>6, <1>7, <1>8, <1>9 DEF Peace

(* The portal tries the step again.                                         *)
LEMMA PeaceAgain ==
  ASSUME Typed, Typed', Peace, Repeats, UNCHANGED <<task, files, docker, abort>>,
         portal.phase = "watch", Over(portal.step), Bad(portal.step),
         \A h \in Handlers : handler'[h].pc = "off",
         \A c \in Conns : conn'[c].kind # "status",
         \A c \in Conns : conn[c].wait = "fill" =>
                            conn'[c].wait = "fill" /\ conn'[c].step = conn[c].step
  PROVE  Peace'
<1>1. /\ UNCHANGED outcome /\ portal'.phase = "send" /\ portal'.tries = portal.tries + 1
      /\ portal'.step = portal.step /\ portal'.cid = portal.cid /\ portal'.req = portal.req
      /\ portal.step \in Steps /\ portal.tries \in Nat
  BY DEF Repeats, Typed, PortalTyped, PortalRow
<1>2. /\ Kept /\ Grown /\ Known' = Known
      /\ UNCHANGED <<latest, info, result, marked, box, execs>>
  BY KeptSame DEF files, docker, Kept
<1>3. InOrder'
  BY <1>1, <1>2, InOrderKept DEF Peace
<1>4. Ready'
  <2>1. Over(portal.step)' /\ Bad(portal.step)'
    BY <1>1, <1>2 DEF Over, Bad, Again, Live
  <2>2. portal.cid /\ (portal.cid \/ portal.req => box = "up")
    BY DEF Peace, Ready
  <2>3. portal'.tries # 0 /\ portal'.tries > 0
    BY <1>1
  <2> QED BY <1>1, <1>2, <2>1, <2>2, <2>3 DEF Ready
<1>5. AllAsk' /\ StatusOf'
  BY DEF AllAsk, Asks, StatusOf
<1>6. Filled' /\ SaidTrue'
  BY <1>1, <1>2, FilledKept, SaidKept DEF Peace
<1> QED BY <1>3, <1>4, <1>5, <1>6 DEF Peace

LEMMA PeaceSettle ==
  ASSUME Typed, Typed', Peace, NEW how \in Ends, Settle(how),
         UNCHANGED <<task, files, docker, abort>>, portal.phase = "watch",
         how = "aborted" => marked,
         how # "aborted" => Over(portal.step),
         how \in {"failed", "timeout", "violated"} => Bad(portal.step),
         how = "complete" => Shown(portal.step),
         \A h \in Handlers : handler'[h].pc = "off",
         \A c \in Conns : conn'[c].kind # "status",
         \A c \in Conns : conn[c].wait = "fill" =>
                            conn'[c].wait = "fill" /\ conn'[c].step = conn[c].step
  PROVE  Peace'
<1>1. CASE Repeats /\ how \in {"failed", "timeout"}
  BY <1>1, PeaceAgain
<1>2. CASE As(how) \in Outcomes /\ StepOver(As(how))
  <2> DEFINE o == As(how)
  <2>1. /\ o = "failed" => Bad(portal.step)
        /\ o = "complete" => Shown(portal.step)
        /\ marked \/ Over(portal.step)
    BY DEF As
  <2>2. portal.cid /\ o \in Outcomes /\ StepOver(o)
    BY <1>2 DEF Peace, Ready
  <2> HIDE DEF o
  <2> QED BY <2>1, <2>2, PeaceOver
<1> QED BY <1>1, <1>2, SettleTyped

LEMMA PeaceSendRun ==
  ASSUME Typed, Typed', Talk, Peace, NEW h \in Handlers, SendRun(h)
  PROVE  Peace'
<1>1. /\ UNCHANGED <<task, info, result, box, execs, marked, conn, outcome>>
      /\ portal.phase = "send" /\ portal' = [portal EXCEPT !.phase = "await"]
      /\ handler'[h] = [NoHandler EXCEPT !.pc = "start", !.step = portal.step, !.cid = portal.req]
      /\ \A g \in Handlers \ {h} : handler'[g] = handler[g]
  BY SendRunTyped DEF SendRun, files, docker
<1>2. /\ portal'.phase = "await" /\ portal'.step = portal.step /\ portal'.cid = portal.cid
      /\ portal'.req = portal.req /\ portal'.tries = portal.tries /\ portal.step \in Steps
  BY <1>1 DEF Typed, PortalTyped, PortalRow
<1>3. /\ handler'[h].pc = "start" /\ handler'[h].step = portal.step
      /\ handler'[h].cid = portal.req /\ handler'[h].reply = "none"
  BY <1>1 DEF NoHandler
<1>4. \A g \in Handlers \ {h} : handler'[g].pc = "off"
  BY <1>1, OnlyRequest DEF Peace
<1>5. Kept /\ Grown /\ Known' = Known
  BY <1>1, KeptSame DEF Kept
<1>6. InOrder'
  BY <1>1, <1>2, <1>5, InOrderKept DEF Peace
<1>7. /\ (Over(portal.step) => Over(portal.step)') /\ (Bad(portal.step) => Bad(portal.step)')
      /\ (Unasked(portal.step) => Unasked(portal.step)')
  BY <1>1, <1>2, <1>5 DEF Over, Bad, Again, Live, Unasked
<1>8. Ready'
  BY <1>1, <1>2, <1>7 DEF Peace, Ready
<1>9. AllAsk'
  <2>1. Asks(h)'
    <3>1. portal.tries = 0 => \A e \in Known' : execs'[e].step # handler'[h].step
      BY <1>1, <1>2, <1>3, <1>5 DEF Peace, Ready, Unasked
    <3>2. portal.req \/ marked \/ box = "none" \/ portal.tries > 0
      BY <1>1 DEF Peace, Ready
    <3> QED BY <1>1, <1>2, <1>3, <3>1, <3>2 DEF Asks, Unasked
  <2>2. ASSUME NEW g \in Handlers, g # h PROVE Asks(g)'
    BY <1>4, <2>2 DEF Asks
  <2> QED BY <2>1, <2>2 DEF AllAsk
<1>10. StatusOf' /\ Filled' /\ SaidTrue'
  BY <1>1, <1>2, <1>5, FilledKept, SaidKept DEF Peace, StatusOf
<1> QED BY <1>6, <1>8, <1>9, <1>10 DEF Peace

LEMMA PeaceAnswer ==
  ASSUME Typed, Typed', Talk, Peace, NEW h \in Handlers, Answer(h)
  PROVE  Peace'
<1>1. /\ UNCHANGED <<task, files, docker, conn, abort>> /\ handler[h].pc = "reply"
      /\ handler'[h] = NoHandler /\ \A g \in Handlers \ {h} : handler'[g] = handler[g]
  BY AnswerTyped DEF Answer
<1>2. portal.phase = "await" /\ \A g \in Handlers : handler'[g].pc = "off"
  <2>1. portal.phase = "await" /\ \A g \in Handlers \ {h} : handler[g].pc = "off"
    BY <1>1, OnlyRequest DEF Peace
  <2>2. NoHandler.pc = "off"
    BY DEF NoHandler
  <2> HIDE DEF NoHandler
  <2> QED BY <1>1, <2>1, <2>2
<1>3. \/ handler[h].reply = "started" /\ info[portal.step] # 0 /\ box = "up"
      \/ handler[h].reply = "aborted" /\ marked
      \/ handler[h].reply = "error" /\ (marked \/ portal.tries > 0)
  BY <1>1 DEF Peace, AllAsk, Asks
<1>4. /\ UNCHANGED <<latest, info, result, marked, box, execs>> /\ Kept /\ Grown
      /\ Known' = Known /\ Steps' = Steps
  BY <1>1, KeptSame, SameTask DEF files, docker, Kept
<1>5. \A c \in Conns : conn'[c] = conn[c] /\ conn[c].kind # "status"
  BY <1>1, <1>2 DEF Talk, Watching
<1>6. CASE handler[h].reply = "started" /\ info[portal.step] # 0 /\ box = "up"
  <2>1. portal' = [portal EXCEPT !.phase = "watch", !.cid = TRUE] /\ UNCHANGED outcome
    BY <1>6 DEF Answer
  <2>2. /\ portal'.phase = "watch" /\ portal'.cid = TRUE /\ portal'.step = portal.step
        /\ portal'.req = portal.req /\ portal'.tries = portal.tries /\ portal.step \in Steps
    BY <2>1 DEF Typed, PortalTyped, PortalRow
  <2>3. InOrder'
    BY <1>1, <1>4, <2>2, InOrderKept DEF Peace
  <2>4. (Over(portal.step) => Over(portal.step)') /\ (Bad(portal.step) => Bad(portal.step)')
    BY <1>4, <2>2 DEF Over, Bad, Again, Live
  <2>5. Ready'
    BY <1>4, <1>6, <2>2, <2>4 DEF Peace, Ready
  <2>6. AllAsk' /\ StatusOf'
    BY <1>2, <1>5 DEF AllAsk, Asks, StatusOf
  <2>7. Filled' /\ SaidTrue'
    BY <1>1, <1>4, <2>1, FilledKept, SaidKept DEF Peace
  <2> QED BY <2>3, <2>5, <2>6, <2>7 DEF Peace
<1>7. CASE handler[h].reply = "aborted" /\ marked
  <2>1. StepOver("aborted")
    BY <1>7 DEF Answer
  <2> QED BY <1>1, <1>2, <1>5, <1>7, <2>1, PeaceOver DEF Outcomes
<1>8. CASE handler[h].reply = "error" /\ (marked \/ portal.tries > 0)
  <2>1. StepOver("failed")
    BY <1>8 DEF Answer
  <2>2. /\ marked \/ portal.cid
        /\ marked \/ Over(portal.step)
        /\ marked \/ Bad(portal.step)
    BY <1>8 DEF Peace, Ready
  <2> QED BY <1>1, <1>2, <1>5, <2>1, <2>2, PeaceOver DEF Outcomes
<1> QED BY <1>3, <1>6, <1>7, <1>8

LEMMA PeaceConnect ==
  ASSUME Typed, Typed', Talk, Peace, NEW c \in Conns, Connect(c)
  PROVE  Peace'
<1>1. portal.phase = "watch" /\ info[portal.step] # 0
  BY DEF Connect, Peace, Ready
<1>2. /\ UNCHANGED <<task, info, result, marked, box, execs, handler, portal, outcome>>
      /\ conn[c].kind = "off"
      /\ conn'[c] = [Open("status", portal.step) EXCEPT !.main = "status"]
      /\ \A d \in Conns \ {c} : conn'[d] = conn[d]
  BY <1>1, ConnectTyped DEF Connect, files, docker, portalVars
<1> DEFINE o == Open("status", portal.step)
<1>3. portal.step \in Steps
  BY DEF Typed, PortalTyped, PortalRow
<1>4. o \in ConnRow /\ o.step = portal.step
  BY <1>1, <1>3, OpenRow, ZenonT(60)
<1>5. conn'[c] = [o EXCEPT !.main = "status"]
  BY <1>2
<1> HIDE DEF o
<1>6. conn'[c].step = portal.step
  BY <1>4, <1>5 DEF ConnRow
<1>7. conn[c].wait # "fill"
  BY <1>2, ConnFacts, NoConnFacts
<1>8. Filled'
  BY <1>2, <1>7, FilledKept DEF Peace
<1> QED BY <1>2, <1>6, <1>8, KeptSame, PeaceKept

(* A half-written file is being written.                                    *)
LEMMA PeaceGiveUp ==
  ASSUME Typed, Peace
  PROVE  ~GiveUp
BY DEF GiveUp, Peace, Filled, Typed, PortalTyped, PortalRow

LEMMA PeaceStopTask ==
  ASSUME Typed, Typed', Talk, Peace, StopTask
  PROVE  Peace'
<1>1. /\ UNCHANGED <<task, info, result, marked, handler, conn, outcome>> /\ portal.phase = "stop"
      /\ portal' = [portal EXCEPT !.phase = "over"] /\ Kept
  BY StopTaskTyped DEF StopTask, files
<1>2. /\ portal'.phase = "over" /\ portal'.step = portal.step /\ portal'.cid = portal.cid
      /\ portal'.tries = portal.tries /\ portal.step \in Steps
  BY <1>1 DEF Typed, PortalTyped, PortalRow
<1>3. \A h \in Handlers : handler[h].pc = "off"
  BY <1>1, OnlyRequest DEF Peace
<1>4. AllAsk'
  BY <1>1, <1>3 DEF AllAsk, Asks
<1>5. InOrder'
  BY <1>1, <1>2, InOrderKept DEF Peace
<1>6. Ready'
  <2>1. \A k \in Steps : (Over(k) => Over(k)') /\ (Bad(k) => Bad(k)')
    BY <1>1, GrownFacts DEF Kept
  <2>2. (Over(portal.step) => Over(portal.step)') /\ (Bad(portal.step) => Bad(portal.step)')
    BY <1>2, <2>1 DEF Over, Bad
  <2> QED BY <1>2, <2>2 DEF Peace, Ready
<1>7. StatusOf' /\ Filled' /\ SaidTrue'
  BY <1>1, <1>2, FilledKept, SaidKept DEF Peace, StatusOf, Kept
<1> QED BY <1>4, <1>5, <1>6, <1>7 DEF Peace

LEMMA RequestFacts ==
  ASSUME Typed, Talk, Peace, NEW h \in Handlers, SameRequest(h)
  PROVE  /\ portal.phase = "await" /\ handler[h].step = portal.step /\ handler[h].cid = portal.req
         /\ handler[h].reply # "dropped" /\ handler'[h].reply # "dropped"
         /\ handler'[h].step = portal.step /\ handler'[h].cid = portal.req
         /\ portal.step \in Steps
         /\ \A g \in Handlers \ {h} : handler'[g].pc = "off"
<1>1. handler[h].pc # "off" /\ portal.phase = "await"
  BY OnlyRequest DEF SameRequest, Peace
<1>2. Asks(h)
  BY DEF Peace, AllAsk
<1>3. portal.step \in Steps
  BY DEF Typed, PortalTyped, PortalRow
<1>4. handler[h].step = portal.step /\ handler[h].cid = portal.req /\ handler[h].reply # "dropped"
  BY <1>1, <1>2 DEF Asks
<1>5. \A g \in Handlers \ {h} : handler'[g].pc = "off"
  BY <1>1, OnlyRequest DEF SameRequest, Peace
<1> QED BY <1>1, <1>3, <1>4, <1>5 DEF SameRequest

(* A request goes on while the commands known stay as they are.             *)
LEMMA PeaceRequest ==
  ASSUME Typed, Typed', Talk, Peace, NEW h \in Handlers, SameRequest(h),
         UNCHANGED <<task, execs, marked, conn, portal, outcome>>,
         \A k \in Steps : info[k] # 0 => info'[k] # 0,
         box' = box \/ box' = "up",
         Asks(h)', Filled'
  PROVE  Peace'
<1>1. portal.phase = "await" /\ \A g \in Handlers \ {h} : handler'[g].pc = "off"
  BY RequestFacts
<1>2. AllAsk'
  <2> SUFFICES ASSUME NEW g \in Handlers, g # h PROVE Asks(g)'
    BY DEF AllAsk
  <2> QED BY <1>1 DEF Asks
<1>3. InOrder' /\ Ready'
  BY <1>1, KeptSame, InOrderKept, ReadyKept DEF Peace
<1>4. SaidTrue' /\ StatusOf'
  BY KeptSame, SaidKept DEF Peace, StatusOf, Kept
<1> QED BY <1>2, <1>3, <1>4 DEF Peace

LEMMA PeaceRunStart ==
  ASSUME Typed, Typed', Talk, Peace, NEW h \in Handlers, RunStart(h)
  PROVE  Peace'
<1> DEFINE k == handler[h].step
<1>1. /\ UNCHANGED <<task, latest, info, marked, execs, conn, abort, portal, outcome>>
      /\ handler[h].pc = "start" /\ SameRequest(h)
      /\ result' = result \/ result' = [result EXCEPT ![k] = "none"]
  BY RunStartTyped DEF RunStart, portalVars
<1>2. /\ portal.phase = "await" /\ k = portal.step /\ handler[h].cid = portal.req
      /\ handler'[h].step = portal.step /\ handler'[h].cid = portal.req
      /\ handler'[h].reply # "dropped" /\ handler[h].reply # "dropped"
  BY <1>1, RequestFacts
<1>3. portal.tries = 0 => Unasked(portal.step)
  BY <1>1, <1>2 DEF Peace, AllAsk, Asks
<1>4. \/ handler'[h].pc = "check" /\ box' = "up" /\ (box' = box \/ box = "none")
      \/ /\ handler'[h].pc = "reply" /\ handler'[h].reply = "error" /\ box' = box
         /\ marked \/ portal.tries > 0
  <2>1. CASE handler[h].cid
    <3>1. box = "up" /\ box' = box
      BY <1>2, <2>1 DEF RunStart, Peace, Ready
    <3>2. handler'[h].pc = "check"
      BY <2>1, RunStartTyped
    <3> QED BY <3>1, <3>2
  <2>2. CASE ~handler[h].cid
    <3>1. marked \/ box = "none" \/ portal.tries > 0
      BY <1>1, <2>2 DEF Peace, AllAsk, Asks
    <3>2. CASE box = "none"
      <4>1. box' = "up"
        BY <2>2, <3>2 DEF RunStart
      <4>2. handler'[h].pc = "check"
        BY <3>2, RunStartTyped
      <4> QED BY <3>2, <4>1, <4>2
    <3>3. CASE box # "none"
      <4>1. UNCHANGED box /\ Reply(h, "error")
        BY <2>2, <3>3 DEF RunStart
      <4>2. PICK r \in HandlerRow :
              /\ handler' = [handler EXCEPT ![h] = r] /\ r.pc = "reply"
              /\ r.step = handler[h].step /\ r.cid = handler[h].cid
              /\ r.exec = handler[h].exec
              /\ r.reply = IF handler[h].reply = "dropped" THEN "dropped" ELSE "error"
        BY <4>1, ReplyIs
      <4>3. handler'[h].pc = "reply" /\ handler'[h].reply = "error"
        BY <1>2, <4>2 DEF Typed, HandlerTyped
      <4> QED BY <3>1, <3>3, <4>1, <4>3
    <3> QED BY <3>2, <3>3
  <2> QED BY <2>1, <2>2
<1>5. Asks(h)'
  <2>1. portal.tries = 0 => \A e \in Known' : execs'[e].step # portal.step
    BY <1>1, <1>3 DEF Unasked, Known
  <2> QED BY <1>1, <1>2, <1>4, <2>1 DEF Asks, Unasked
<1>6. Filled'
  <2>1. result \in [Steps -> Results]
    BY DEF Typed, FilesTyped
  <2>2. \A j \in Steps : result'[j] = result[j] \/ result'[j] = "none"
    BY <1>1, <2>1
  <2> QED BY <1>1, <2>2, SameTask DEF Peace, Filled
<1> QED BY <1>1, <1>4, <1>5, <1>6, PeaceRequest

LEMMA PeaceRunCheck ==
  ASSUME Typed, Typed', Talk, Peace, NEW h \in Handlers, RunCheck(h)
  PROVE  Peace'
<1>1. /\ UNCHANGED <<task, info, result, marked, box, execs, conn, portal, outcome>>
      /\ handler[h].pc = "check" /\ SameRequest(h)
      /\ \/ handler'[h].pc = "exec"
         \/ handler'[h].pc = "reply" /\ marked
              /\ (handler[h].reply # "dropped" => handler'[h].reply = "aborted")
  BY RunCheckTyped DEF RunCheck, portalVars, files, docker
<1>2. /\ portal.phase = "await" /\ handler[h].step = portal.step /\ handler[h].cid = portal.req
      /\ handler'[h].step = portal.step /\ handler'[h].cid = portal.req
      /\ handler'[h].reply # "dropped" /\ handler[h].reply # "dropped"
  BY <1>1, RequestFacts
<1>3. box = "up" /\ (portal.tries = 0 => Unasked(portal.step))
  BY <1>1, <1>2 DEF Peace, AllAsk, Asks
<1>4. Asks(h)'
  <2>1. portal.tries = 0 => \A e \in Known' : execs'[e].step # portal.step
    BY <1>1, <1>3 DEF Unasked, Known
  <2> QED BY <1>1, <1>2, <1>3, <2>1 DEF Asks, Unasked
<1>5. Filled'
  BY <1>1, FilledKept DEF Peace
<1> QED BY <1>1, <1>4, <1>5, PeaceRequest

LEMMA PeaceRunLatest ==
  ASSUME Typed, Typed', Talk, Peace, NEW h \in Handlers, RunLatest(h)
  PROVE  Peace'
<1>1. /\ UNCHANGED <<task, info, result, marked, box, execs, conn, portal, outcome>>
      /\ handler[h].pc = "latest" /\ SameRequest(h) /\ handler'[h].pc = "info"
  BY RunLatestTyped DEF RunLatest, portalVars, docker
<1>2. /\ portal.phase = "await" /\ handler'[h].step = portal.step /\ handler'[h].cid = portal.req
      /\ handler'[h].reply # "dropped"
  BY <1>1, RequestFacts
<1>3. box = "up"
  BY <1>1 DEF Peace, AllAsk, Asks
<1>4. Asks(h)'
  BY <1>1, <1>2, <1>3 DEF Asks
<1>5. Filled'
  BY <1>1, FilledKept DEF Peace
<1> QED BY <1>1, <1>4, <1>5, PeaceRequest

LEMMA PeaceRunInfo ==
  ASSUME Typed, Typed', Talk, Peace, NEW h \in Handlers, RunInfo(h)
  PROVE  Peace'
<1> DEFINE k == portal.step
           e == handler[h].exec
<1>1. /\ UNCHANGED <<task, result, marked, box, execs, conn, portal, outcome>>
      /\ handler[h].pc = "info" /\ SameRequest(h) /\ handler'[h].pc = "reply"
      /\ (handler[h].reply # "dropped" => handler'[h].reply = "started")
      /\ info' = [info EXCEPT ![handler[h].step] = e]
  BY RunInfoTyped DEF RunInfo, portalVars, docker
<1>2. /\ portal.phase = "await" /\ handler[h].step = k
      /\ handler'[h].step = k /\ handler'[h].cid = portal.req
      /\ handler'[h].reply = "started" /\ handler'[h].reply # "dropped" /\ k \in Steps
  BY <1>1, RequestFacts
<1>3. box = "up" /\ e # 0
  <2>1. box = "up" /\ e \in Known
    BY <1>1, <1>2, HandlerFacts DEF Peace, AllAsk, Asks
  <2>2. Known = 1..Len(execs)
    BY ExecFacts DEF Typed
  <2> QED BY <2>1, <2>2
<1>4. info'[k] # 0 /\ \A j \in Steps : info[j] # 0 => info'[j] # 0
  BY <1>1, <1>2, <1>3 DEF Typed, FilesTyped
<1>5. Asks(h)'
  BY <1>1, <1>2, <1>3, <1>4 DEF Asks
<1>6. Filled'
  BY <1>1, FilledKept DEF Peace
<1> QED BY <1>1, <1>4, <1>5, <1>6, PeaceRequest

LEMMA PeaceRunExec ==
  ASSUME Typed, Typed', Talk, Peace, NEW h \in Handlers, RunExec(h)
  PROVE  Peace'
<1> DEFINE k == portal.step
<1>0. PICK n \in Nat : n = Len(execs) + 1
  <2>1. Len(execs) \in Nat
    BY ExecFacts DEF Typed
  <2> QED BY <2>1
<1>1. /\ UNCHANGED <<task, info, result, marked, box, conn, portal, outcome>>
      /\ handler[h].pc = "exec" /\ SameRequest(h)
  BY RunExecTyped DEF RunExec, portalVars, files
<1>2. /\ portal.phase = "await" /\ handler[h].step = k
      /\ handler'[h].step = k /\ handler'[h].cid = portal.req
      /\ handler'[h].reply # "dropped" /\ k \in Steps
      /\ \A g \in Handlers \ {h} : handler'[g].pc = "off"
  BY <1>1, RequestFacts
<1>3. box = "up" /\ (portal.tries = 0 => Unasked(k))
  BY <1>1, <1>2 DEF Peace, AllAsk, Asks
<1>4. /\ handler'[h].pc = "latest" /\ Known' = Known \cup {n}
      /\ execs'[n] = [step |-> handler[h].step, state |-> "running", stopping |-> FALSE,
                      overdue |-> FALSE, late |-> FALSE]
      /\ \A e \in Known : execs'[e] = execs[e]
  BY <1>0, <1>3, RunExecTyped
<1>5. Grown /\ execs'[n].step = k
  BY <1>2, <1>4 DEF Grown
<1>6. /\ Known = 1..Len(execs) /\ Len(execs) \in Nat /\ n \in Nat /\ n - 1 = Len(execs)
      /\ k \in Nat /\ portal.tries \in Nat
  <2>1. Known = 1..Len(execs) /\ Len(execs) \in Nat
    BY ExecFacts DEF Typed
  <2>2. k \in Nat
    BY <1>2, StepFacts DEF Typed
  <2>3. portal.tries \in Nat
    BY DEF Typed, PortalTyped, PortalRow
  <2> QED BY <1>0, <2>1, <2>2, <2>3
<1>7. Again(n)' => Over(k)
  <2> SUFFICES ASSUME Again(n)' PROVE Over(k)
    OBVIOUS
  <2>1. PICK f \in 1..(n - 1) : execs'[f].step = k
    BY <1>5 DEF Again
  <2>2. f \in Known /\ execs[f].step = k
    BY <1>4, <1>6, <2>1
  <2>3. portal.tries # 0
    BY <1>3, <2>2 DEF Unasked
  <2> QED BY <1>6, <2>3 DEF Peace, Ready
<1>8. \A j \in Steps : /\ Over(j) => Over(j)'
                       /\ Bad(j) => Bad(j)'
  BY <1>1, <1>5, GrownFacts
<1>9. InOrder'
  <2> SUFFICES ASSUME NEW e \in Known'
               PROVE  /\ execs'[e].step <= k
                      /\ Again(e)' => Over(execs[e].step)'
                      /\ Live(e)' /\ ~Again(e)' => marked \/ execs'[e].step = k
    BY <1>1 DEF InOrder, Over
  <2>1. CASE e = n
    <3>1. execs'[e].step = k /\ k <= k
      BY <1>5, <1>6, <2>1
    <3>2. Again(e)' => Over(execs[e].step)'
      BY <1>2, <1>7, <1>8, <2>1, <3>1 DEF Over
    <3> QED BY <3>1, <3>2
  <2>2. CASE e \in Known
    <3>1. /\ execs'[e] = execs[e] /\ execs[e].step \in Steps /\ (Again(e)' <=> Again(e))
      BY <1>4, <1>5, <2>2, StateFacts, AgainFacts
    <3>2. /\ execs[e].step <= k
          /\ Again(e) => Over(execs[e].step)
          /\ Live(e) /\ ~Again(e) => marked \/ execs[e].step = k
      BY <2>2 DEF Peace, InOrder
    <3>3. Over(execs[e].step) => Over(execs[e].step)'
      BY <1>8, <3>1 DEF Over
    <3> QED BY <3>1, <3>2, <3>3 DEF Live
  <2> QED BY <1>4, <2>1, <2>2
<1>10. Ready'
  <2>1. (Over(portal.step) => Over(portal.step)') /\ (Bad(portal.step) => Bad(portal.step)')
    BY <1>1, <1>2, <1>8 DEF Over, Bad
  <2> QED BY <1>1, <1>2, <1>3, <2>1 DEF Peace, Ready
<1>11. AllAsk'
  <2>1. Asks(h)'
    BY <1>1, <1>2, <1>3, <1>4 DEF Asks
  <2>2. ASSUME NEW g \in Handlers, g # h PROVE Asks(g)'
    BY <1>2, <2>2 DEF Asks
  <2> QED BY <2>1, <2>2 DEF AllAsk
<1>12. StatusOf' /\ Filled' /\ SaidTrue'
  BY <1>1, <1>5, FilledKept, SaidKept DEF Peace, StatusOf
<1> QED BY <1>9, <1>10, <1>11, <1>12 DEF Peace

LEMMA PeaceWait ==
  ASSUME Typed, Typed', Peace, NEW c \in Conns, Wait(c)
  PROVE  Peace'
<1>1. UNCHANGED <<task, info, marked, box, handler, portal, outcome>>
  BY Zenon DEF Wait, WaitPoll, WaitWrite, WaitReturns, files, docker, portalVars
<1>2. conn[c].got \in Gots /\ conn[c].step \in Steps
  BY ConnFacts DEF ConnRow
<1>3. CASE WaitPoll(c)
  <2> DEFINE s == Status(conn[c].step, conn[c].exec)
             w == IF s = "empty" THEN "ended" ELSE "truncate"
  <2>1. /\ Kept /\ conn[c].kind # "off" /\ conn[c].wait = "poll" /\ conn[c].exec \in Known
        /\ \A d \in Conns \ {c} : conn'[d] = conn[d]
        /\ \/ conn'[c] = WaitRow(c, "error", conn[c].got)
           \/ conn'[c] = WaitRow(c, "late", conn[c].got)
           \/ conn'[c] = WaitRow(c, w, s)
    BY <1>3, WaitPollTyped
  <2>2. UNCHANGED result
    BY <1>3, Zenon DEF WaitPoll, files
  <2>3. s \in Gots /\ w \in Waits /\ "error" \in Waits /\ "late" \in Waits
    BY <1>2, <2>1, StatusFacts DEF Gots, Waits, WaitOver
  <2> HIDE DEF s, w
  <2>4. conn'[c].kind = conn[c].kind /\ conn'[c].step = conn[c].step
    BY <1>2, <2>1, <2>3, WaitFacts
  <2>5. Filled'
    BY <1>1, <2>1, <2>2, FilledKept DEF Peace
  <2> QED BY <1>1, <2>1, <2>4, <2>5, PeaceKept
<1>4. CASE WaitWrite(c)
  <2>1. /\ UNCHANGED execs /\ \A d \in Conns \ {c} : conn'[d] = conn[d]
    BY <1>4, WaitWriteTyped DEF WaitWrite, docker
  <2>2. PICK v \in {"fill", "ended"} :
          /\ conn'[c] = WaitRow(c, v, conn[c].got)
          /\ conn[c].wait \in {"truncate", "fill"}
          /\ result' = [result EXCEPT ![conn[c].step] =
                          IF v = "fill" THEN "empty" ELSE IF @ = "none" THEN @ ELSE conn[c].got]
    BY <1>4, WaitWriteTyped
  <2>3. /\ conn'[c].kind = conn[c].kind /\ conn'[c].step = conn[c].step /\ conn'[c].wait = v
    <3>1. v \in Waits
      BY DEF Waits, WaitOver
    <3> QED BY <2>2, <3>1, WaitMoves
  <2>4. Filled'
    <3> SUFFICES ASSUME NEW j \in Steps, result'[j] = "empty"
                 PROVE  \E d \in Conns : conn'[d].step = j /\ conn'[d].wait = "fill"
      BY <1>1, SameTask DEF Filled
    <3>1. result \in [Steps -> Results]
      BY DEF Typed, FilesTyped
    <3>2. CASE j = conn[c].step
      <4>1. conn[c].got \in Ended /\ "empty" \notin Ended
        BY <2>2, ConnFacts DEF Ended
      <4>2. v = "fill"
        BY <1>2, <2>2, <3>1, <3>2, <4>1
      <4> QED BY <2>3, <3>2, <4>2
    <3>3. CASE j # conn[c].step
      <4>1. result[j] = "empty"
        BY <2>2, <3>1, <3>3
      <4>2. PICK d \in Conns : conn[d].step = j /\ conn[d].wait = "fill"
        BY <4>1 DEF Peace, Filled
      <4> QED BY <2>1, <3>3, <4>2
    <3> QED BY <3>2, <3>3
  <2> QED BY <1>1, <2>1, <2>3, <2>4, KeptSame, PeaceKept
<1>5. CASE WaitReturns(c)
  <2>1. /\ UNCHANGED <<result, execs>> /\ conn'[c] = NoConn /\ conn[c].wait \in WaitOver
        /\ \A d \in Conns \ {c} : conn'[d] = conn[d]
    BY <1>5, WaitReturnsTyped DEF WaitReturns, files, docker
  <2>2. conn'[c].kind = "off" /\ conn[c].wait # "fill"
    BY <2>1, NoConnFacts DEF WaitOver
  <2>3. Filled'
    BY <1>1, <2>1, <2>2, FilledKept DEF Peace
  <2> QED BY <1>1, <2>1, <2>2, <2>3, KeptSame, PeaceKept
<1> QED BY <1>3, <1>4, <1>5 DEF Wait

LEMMA PeaceView ==
  ASSUME Typed, Typed', Peace, NEW c \in Conns, NEW k \in Steps, View(c, k)
  PROVE  Peace'
<1>1. /\ UNCHANGED <<task, info, result, box, execs, marked, handler, portal, outcome>>
      /\ info[k] # 0
  BY Zenon DEF View, files, docker, portalVars
<1>2. /\ conn[c].kind = "off" /\ conn'[c] = Open("log", k)
      /\ \A d \in Conns \ {c} : conn'[d] = conn[d]
  BY ViewTyped
<1>3. Open("log", k).kind = "log"
  BY <1>1, OpenRow
<1>4. conn[c].wait # "fill" /\ conn'[c].kind = "log"
  BY <1>2, <1>3, ConnFacts, NoConnFacts, Zenon
<1>5. Filled'
  BY <1>1, <1>2, <1>4, FilledKept DEF Peace
<1> QED BY <1>1, <1>2, <1>4, <1>5, KeptSame, PeaceKept

LEMMA PeaceSend ==
  ASSUME Typed, Typed', Talk, Linked, Peace, faults = 0,
         NEW c \in Conns, Send(c) \/ Heartbeat(c) \/ PortalLate(c)
  PROVE  Peace'
<1> DEFINE k == conn[c].step
           e == conn[c].exec
<1>1. /\ UNCHANGED <<task, files, docker, handler, abort>>
      /\ conn[c].kind # "off" /\ (conn[c].main # "idle" \/ conn[c].kind = "status")
      /\ \A d \in Conns \ {c} : conn'[d] = conn[d]
      /\ \/ Sent(c) /\ UNCHANGED portalVars
         \/ conn'[c] = ClosedRow(c) /\ UNCHANGED portalVars
         \/ conn'[c] = ClosedRow(c) /\ \E how \in Ends : Reported(c, how) /\ Settle(how)
  BY SendTyped
<1>2. /\ conn[c].kind = "status" /\ portal.phase = "watch"
      /\ \A d \in Conns \ {c} : conn[d].kind # "status"
  <2>1. conn[c].kind = "status"
    BY <1>1 DEF Talk
  <2> QED BY <2>1 DEF Talk, Watching
<1>3. UNCHANGED <<info, result, marked, box, execs>>
  BY <1>1 DEF files, docker
<1>4. k = portal.step /\ k \in Steps /\ e \in Known /\ Reads(c)
  BY <1>1, <1>2, ConnFacts DEF Linked, Peace, StatusOf, ConnRow
<1>5. CASE Sent(c) /\ UNCHANGED portalVars
  <2>1. Filled'
    BY <1>1, <1>3, <1>5, FilledKept DEF Sent, Peace
  <2> QED BY <1>1, <1>3, <1>5, <2>1, KeptSame, PeaceKept DEF Sent, portalVars
<1>6. /\ ClosedRow(c).kind = "closed" /\ ClosedRow(c).step = k
      /\ ClosedRow(c).wait = conn[c].wait
  BY <1>1, ClosedFacts
<1>7. CASE conn'[c] = ClosedRow(c) /\ UNCHANGED portalVars
  <2>1. Filled'
    BY <1>1, <1>3, <1>6, <1>7, FilledKept DEF Peace
  <2> QED BY <1>1, <1>3, <1>6, <1>7, <2>1, KeptSame, PeaceKept DEF portalVars
<1>8. ASSUME NEW how \in Ends, conn'[c] = ClosedRow(c), Reported(c, how), Settle(how)
      PROVE  Peace'
  <2>1. CASE how = "aborted" /\ marked /\ k # Hidden
    <3>1. \A h \in Handlers : handler'[h].pc = "off"
      BY <1>1, <1>2, OnlyRequest DEF Peace
    <3> QED BY <1>1, <1>2, <1>6, <1>8, <2>1, <3>1, PeaceSettle
  <2>2. CASE /\ how = Verdict(c) /\ conn[c].main = "mark" /\ conn[c].seen \in Ended
             /\ ~marked \/ k = Hidden
    <3>1. Ran(k, conn[c].seen)
      BY <1>1, <1>4, <2>2 DEF Reads
    <3>2. Over(k)
      BY <2>2, <3>1, RanOver DEF Peace
    <3>3. how # "complete" => conn[c].seen \in {"bad", "violated"}
      BY <2>2 DEF Verdict
    <3>4. how = "complete" => conn[c].seen = "ok"
      BY <2>2 DEF Verdict, Ended
    <3>5. how # "complete" => Bad(k)
      BY <3>1, <3>3 DEF Ran, Bad
    <3>6. how = "complete" => Shown(k)
      BY <2>2, <3>1, <3>4 DEF Ran, Shown, Linked, OnTime
    <3>7. how # "aborted"
      BY <2>2 DEF Verdict
    <3>8. \A h \in Handlers : handler'[h].pc = "off"
      BY <1>1, <1>2, OnlyRequest DEF Peace
    <3>9. Over(portal.step) /\ (how # "complete" => Bad(portal.step))
          /\ (how = "complete" => Shown(portal.step))
      BY <1>4, <3>2, <3>5, <3>6
    <3> QED BY <1>1, <1>2, <1>6, <1>8, <3>7, <3>8, <3>9, PeaceSettle
  <2>3. CASE how = "timeout" /\ (conn[c].wait = "late" \/ portal.tries > 0 \/ faults > 0)
    <3>1. Over(portal.step) /\ Bad(portal.step)
      <4>1. CASE portal.tries > 0
        BY <4>1 DEF Peace, Ready
      <4>2. CASE conn[c].wait = "late"
        <5>1. ~Live(e) /\ execs[e].overdue /\ execs[e].step = k
          BY <1>1, <1>4, <4>2 DEF Reads
        <5>2. Over(execs[e].step)
          BY <1>4, <5>1, SettledOver DEF Peace
        <5>3. Bad(k)
          BY <1>4, <5>1 DEF Bad
        <5> QED BY <1>4, <5>1, <5>2, <5>3
      <4> QED BY <2>3, <4>1, <4>2
    <3>2. \A h \in Handlers : handler'[h].pc = "off"
      BY <1>1, <1>2, OnlyRequest DEF Peace
    <3> QED BY <1>1, <1>2, <1>6, <1>8, <2>3, <3>1, <3>2, PeaceSettle
  <2> QED BY <1>8, <2>1, <2>2, <2>3 DEF Reported
<1> QED BY <1>1, <1>5, <1>7, <1>8

(* What is lost is not forgotten.                                           *)
LEMMA CalmNext ==
  ASSUME Typed, Typed', Talk, Linked, Calm, [Next]_vars
  PROVE  Calm'
<1> SUFFICES ASSUME Undisturbed' PROVE Peace'
  BY DEF Calm
<1>1. ASSUME Fault PROVE FALSE
  BY <1>1, FaultTyped DEF Undisturbed
<1>2. ~LoseAnswer /\ ~Die /\ \A c \in Conns : ~LoseConnection(c)
  BY <1>1 DEF LoseAnswer, Die, LoseConnection
<1>3. UNCHANGED faults
  <2>1. ASSUME NEW e \in DOMAIN execs, ExecEnds(e) \/ Killed(e) \/ Overdue(e) PROVE UNCHANGED faults
    BY <2>1, Zenon DEF ExecEnds, Killed, Overdue, bounds
  <2>2. Portal => UNCHANGED faults
    BY Zenon DEF Portal, SendRun, Answer, Connect, GiveUp, StopTask, bounds
  <2>3. ASSUME NEW h \in Handlers, Run(h) PROVE UNCHANGED faults
    BY <2>3, RunTyped DEF bounds
  <2>4. ASSUME NEW c \in Conns, Wait(c) PROVE UNCHANGED faults
    BY <2>4, Zenon DEF Wait, WaitPoll, WaitWrite, WaitReturns, bounds
  <2>5. ASSUME NEW c \in Conns, Send(c) \/ Heartbeat(c) \/ PortalLate(c) PROVE UNCHANGED faults
    BY <2>5, SendTyped DEF bounds
  <2>6. ASSUME NEW c \in Conns, NEW k \in Steps, View(c, k) PROVE UNCHANGED faults
    BY <2>6, Zenon DEF View
  <2>7. AbortRead \/ Abort => UNCHANGED faults
    BY AbortTyped DEF bounds
  <2>8. UNCHANGED vars => UNCHANGED faults
    BY Zenon DEF vars, bounds
  <2> QED BY <1>2, <2>1, <2>2, <2>3, <2>4, <2>5, <2>6, <2>7, <2>8, Zenon DEF Next
<1>4. Peace /\ faults = 0
  BY <1>3 DEF Calm, Undisturbed
<1>5. ASSUME Kept, UNCHANGED <<task, info, result, box, handler, conn, portal, outcome>>,
             marked => marked'
      PROVE  Peace'
  <2>1. Filled'
    BY <1>4, <1>5, FilledKept DEF Peace
  <2> QED BY <1>4, <1>5, <2>1, PeaceKept
<1>6. ASSUME NEW e \in DOMAIN execs, ExecEnds(e) \/ Killed(e) \/ Overdue(e) PROVE Peace'
  <2>1. UNCHANGED <<task, info, result, marked, box, handler, conn, portal, outcome>>
    BY <1>6, Zenon DEF ExecEnds, Killed, Overdue, files, portalVars
  <2>2. Kept
    BY <1>6, EngineTyped DEF Known
  <2> QED BY <1>5, <2>1, <2>2
<1>7. ASSUME Portal PROVE Peace'
  BY <1>4, <1>7, PeaceSendRun, PeaceAnswer, PeaceConnect, PeaceGiveUp, PeaceStopTask DEF Portal
<1>8. ASSUME NEW h \in Handlers, Run(h) PROVE Peace'
  BY <1>4, <1>8, PeaceRunStart, PeaceRunCheck, PeaceRunExec, PeaceRunLatest, PeaceRunInfo DEF Run
<1>9. ASSUME AbortRead \/ Abort PROVE Peace'
  <2>1. Kept /\ UNCHANGED <<task, info, result, box, handler, conn, portal, outcome>>
    BY <1>9, AbortTyped DEF portalVars
  <2>2. marked => marked'
    BY <1>9, StepGrown DEF Next
  <2> QED BY <1>5, <2>1, <2>2
<1>10. ASSUME UNCHANGED vars PROVE Peace'
  <2>1. UNCHANGED <<task, info, result, marked, box, execs, handler, conn, portal, outcome>>
    BY <1>10, Zenon DEF vars, files, docker, portalVars
  <2> QED BY <1>5, <2>1, KeptSame
<1> QED BY <1>2, <1>4, <1>6, <1>7, <1>8, <1>9, <1>10, PeaceWait, PeaceSend, PeaceView, Zenon DEF Next

LEMMA CalmAlways == Spec => [](Typed /\ Talk /\ Linked /\ Calm)
<1>1. Init => Typed /\ Talk /\ Linked /\ Calm
  BY TypedInit, TalkInit, LinkedInit, PeaceInit DEF Calm
<1>2. Typed /\ Talk /\ Linked /\ Calm /\ [Next]_vars => (Typed /\ Talk /\ Linked /\ Calm)'
  BY TypedNext, TalkNext, LinkedNext, CalmNext
<1> QED BY <1>1, <1>2, PTL DEF Spec

(* While nothing is lost and the task is not aborted, at most one first     *)
(* attempt of a step runs that is not being stopped: RunTask starts the next*)
(* step only after the portal has left the one before it, whose first       *)
(* attempt is settled then, also when a later one is still running.         *)
THEOREM OneCorrect == Spec => []OneCommand
<1>1. Typed /\ Calm => OneCommand
  <2> SUFFICES ASSUME Typed, Calm, Undisturbed, ~marked
               PROVE  Cardinality({e \in RunningExecs : ~execs[e].stopping /\ ~Again(e)}) <= 1
    BY DEF OneCommand
  <2> DEFINE S == {e \in RunningExecs : ~execs[e].stopping /\ ~Again(e)}
  <2>1. \A e, f \in S : e = f
    <3> SUFFICES ASSUME NEW e \in S, NEW f \in S PROVE e = f
      OBVIOUS
    <3>1. e \in Known /\ f \in Known /\ Live(e) /\ Live(f) /\ ~Again(e) /\ ~Again(f)
      BY DEF RunningExecs, Known, Live
    <3>2. execs[e].step = portal.step /\ execs[f].step = portal.step
      BY <3>1 DEF Calm, Peace, InOrder
    <3> QED BY <3>1, <3>2, FirstOnce
  <2> HIDE DEF S
  <2>2. CASE S = {}
    BY <2>2, FS_EmptySet DEF S
  <2>3. ASSUME NEW e \in S PROVE Cardinality(S) <= 1
    <3>1. S = {e}
      BY <2>1
    <3>2. Cardinality({e}) = 1
      BY FS_Singleton
    <3> QED BY <3>1, <3>2
  <2> QED BY <2>2, <2>3 DEF S
<1> QED BY <1>1, CalmAlways, PTL

(* A result file says how one of the attempts of its step ended, whatever is*)
(* lost; while nothing is, it is empty only while a connection writes it,   *)
(* and a step of a task that is not aborted is recorded as failed only when *)
(* an attempt of it failed or passed its deadline.                          *)
THEOREM ResultCorrect == Spec => []ResultIsTrue
<1>1. Linked => \A k \in Steps : result[k] \in Ended =>
                  \E e \in DOMAIN execs : execs[e].step = k /\ execs[e].state = result[k]
  BY DEF Linked, ResultOf, Ran, Known
<1>2. Calm => (Undisturbed => Filled /\ SaidTrue)
  BY DEF Calm, Peace
<1>3. Linked /\ Calm => ResultIsTrue
  BY <1>1, <1>2 DEF Filled, SaidTrue, Bad, ResultIsTrue, Known
<1> QED BY <1>3, CalmAlways, PTL

(* A step that the portal records as complete has a command that ended well,*)
(* and before the task was marked: an abort is not missed because the       *)
(* status was sent at the same time.                                        *)
THEOREM CompleteCorrect == Spec => []CompleteIsTrue
<1>1. Calm => CompleteIsTrue
  BY DEF Calm, Peace, SaidTrue, Shown, CompleteIsTrue, Known
<1> QED BY <1>1, CalmAlways, PTL
=============================================================================
