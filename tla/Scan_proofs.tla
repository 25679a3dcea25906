------------------------------ MODULE Scan_proofs ------------------------------
(***************************************************************************)
(* Theorems of Scan, for any policies, users, goroutines, tasks, edits and *)
(* faults: a deployment that stops on violations applies nothing unless    *)
(* its scan completed without one, and is complete only if its apply step  *)
(* was or a finding had no result row; and, where a scan has one goroutine *)
(* at a time, what it says as a whole agrees with its results.             *)
(***************************************************************************)
EXTENDS Scan, SequenceTheorems, TLAPS

USE ScanAssumption

-----------------------------------------------------------------------------
(* Types.                                                                   *)
Two == [1..2 -> ScanStepStatuses]
Execs == [1..2 -> {"none", "running", "complete", "failed", "violated"}]
Counts == [1..2 -> Nat]
Shown == [Policies -> PolicyStatuses \union {"none", "suppressed"}]
Phases == {"off", "begin", "load", "step", "send", "wait", "done", "results", "judge", "settle"}
Go == [pc : Phases, task : Nat, new : BOOLEAN, k : 1..2, steps : Two, policies : SUBSET Policies]
EnvRow == [enabled : BOOLEAN, stop : BOOLEAN, last : Nat]
Mem == [call : {"none", "scan", "deploy"}, row : EnvRow,
        linked : SUBSET Policies, hidden : SUBSET Policies]

(* One row of each kind for every task.                                     *)
Tables ==
    /\ rows \in Seq(Row) /\ steps \in Seq(Two) /\ exec \in Seq(Execs) /\ starts \in Seq(Counts)
    /\ results \in Seq(Shown) /\ file \in Seq(Findings) /\ output \in Seq(Findings)
    /\ sent \in Seq(SUBSET Policies) /\ recorded \in Seq(SUBSET Policies)
    /\ Len(steps) = Len(rows) /\ Len(exec) = Len(rows) /\ Len(starts) = Len(rows)
    /\ Len(results) = Len(rows) /\ Len(file) = Len(rows) /\ Len(output) = Len(rows)
    /\ Len(sent) = Len(rows) /\ Len(recorded) = Len(rows)

Kinds == \A t \in Tasks : Mirrors(t) <=> rows[t].deploy # "none"

(* What the processes hold.                                                 *)
Processes ==
    /\ go \in [Goroutines -> Go] /\ mem \in [Sessions -> Mem]
    /\ \A g \in Goroutines : go[g].pc # "off" => go[g].task \in Tasks
    /\ \A s \in Sessions : mem[s].row.last <= Len(rows)

Environment ==
    /\ env \in EnvRow /\ env.last <= Len(rows)
    /\ linked \subseteq Policies /\ hidden \subseteq Policies

Typed == Tables /\ Kinds /\ Processes /\ Environment

(* The tables are functions on the tasks.                                   *)
LEMMA TableFacts ==
  ASSUME Tables
  PROVE  /\ Len(rows) \in Nat /\ Tasks = 1..Len(rows)
         /\ DOMAIN steps = Tasks /\ DOMAIN exec = Tasks /\ DOMAIN starts = Tasks
         /\ DOMAIN results = Tasks /\ DOMAIN file = Tasks /\ DOMAIN output = Tasks
         /\ DOMAIN sent = Tasks /\ DOMAIN recorded = Tasks
         /\ \A t \in Tasks :
              /\ rows[t] \in Row /\ steps[t] \in Two /\ exec[t] \in Execs /\ starts[t] \in Counts
              /\ results[t] \in Shown /\ file[t] \in Findings /\ output[t] \in Findings
              /\ sent[t] \subseteq Policies /\ recorded[t] \subseteq Policies
<1> DEFINE n == Len(rows)
           P == SUBSET Policies
<1>1. /\ rows \in Seq(Row) /\ steps \in Seq(Two) /\ exec \in Seq(Execs) /\ starts \in Seq(Counts)
      /\ results \in Seq(Shown) /\ file \in Seq(Findings) /\ output \in Seq(Findings)
      /\ sent \in Seq(P) /\ recorded \in Seq(P)
      /\ Len(steps) = n /\ Len(exec) = n /\ Len(starts) = n /\ Len(results) = n
      /\ Len(file) = n /\ Len(output) = n /\ Len(sent) = n /\ Len(recorded) = n
  BY DEF Tables
<1> HIDE DEF P
<1>2. n \in Nat /\ DOMAIN rows = 1..n /\ rows \in [1..n -> Row]
  BY <1>1, LenProperties
<1> HIDE DEF n
<1>3. /\ steps \in [1..n -> Two] /\ exec \in [1..n -> Execs] /\ starts \in [1..n -> Counts]
      /\ results \in [1..n -> Shown] /\ file \in [1..n -> Findings]
      /\ output \in [1..n -> Findings] /\ sent \in [1..n -> P] /\ recorded \in [1..n -> P]
  BY <1>1, LenProperties
<1>4. \A t \in 1..n :
        /\ rows[t] \in Row /\ steps[t] \in Two /\ exec[t] \in Execs /\ starts[t] \in Counts
        /\ results[t] \in Shown /\ file[t] \in Findings /\ output[t] \in Findings
        /\ sent[t] \in P /\ recorded[t] \in P
  BY <1>2, <1>3
<1> QED BY <1>2, <1>3, <1>4 DEF n, P, Tasks

(* A value of one task changes, ...                                         *)
LEMMA Changed ==
  ASSUME NEW S, NEW s \in Seq(S), NEW t \in 1..Len(s), NEW v \in S
  PROVE  /\ [s EXCEPT ![t] = v] \in Seq(S) /\ Len([s EXCEPT ![t] = v]) = Len(s)
         /\ [s EXCEPT ![t] = v][t] = v
         /\ \A u \in 1..Len(s) \ {t} : [s EXCEPT ![t] = v][u] = s[u]
BY ExceptSeq

(* ... or one is added.                                                     *)
LEMMA Added ==
  ASSUME NEW S, NEW s \in Seq(S), NEW v \in S, NEW n \in Nat, Len(s) = n
  PROVE  /\ Append(s, v) \in Seq(S) /\ Len(Append(s, v)) = n + 1
         /\ Append(s, v)[n + 1] = v
         /\ \A u \in 1..n : Append(s, v)[u] = s[u]
BY AppendProperties

LEMMA TypedInit == Init => Typed
<1> SUFFICES ASSUME Init PROVE Typed
  OBVIOUS
<1>1. /\ rows = <<>> /\ steps = <<>> /\ results = <<>> /\ file = <<>>
      /\ exec = <<>> /\ output = <<>> /\ sent = <<>> /\ starts = <<>> /\ recorded = <<>>
  BY DEF Init
<1>2. Tables /\ Tasks = {} /\ Len(rows) = 0
  BY <1>1, EmptySeq DEF Tables, Tasks
<1>3. Kinds
  BY <1>2 DEF Kinds
<1>4. NoGo \in Go /\ NoGo.pc = "off"
  BY DEF NoGo, Go, Two, Phases, ScanStepStatuses, StepStatuses
<1>5. NoMem \in Mem /\ NoMem.row.last = 0
  BY DEF NoMem, Mem, EnvRow
<1>6. Processes
  BY <1>2, <1>4, <1>5 DEF Init, Processes
<1>7. Environment
  <2>1. env \in [enabled : {TRUE}, stop : BOOLEAN, last : {0}]
    BY Zenon DEF Init
  <2>2. env.last = 0 /\ env \in EnvRow
    <3>1. env.last = 0
      BY <2>1
    <3>2. {TRUE} \subseteq BOOLEAN /\ {0} \subseteq Nat
      OBVIOUS
    <3>3. [enabled : {TRUE}, stop : BOOLEAN, last : {0}] \subseteq EnvRow
      BY <3>2, Zenon DEF EnvRow
    <3> QED BY <2>1, <3>1, <3>3
  <2>3. linked \subseteq Policies /\ hidden = {}
    BY Zenon DEF Init
  <2> QED BY <1>2, <2>2, <2>3 DEF Environment
<1> QED BY <1>2, <1>3, <1>6, <1>7 DEF Typed

(* A step that leaves the tables as they are.                               *)
LEMMA TypedProc ==
  ASSUME Typed, UNCHANGED <<rows, steps, exec, starts, results, file, output, sent, recorded>>,
         go' \in [Goroutines -> Go], mem' \in [Sessions -> Mem], Environment',
         \A g \in Goroutines : go'[g].pc # "off" => go'[g].task \in Tasks,
         \A s \in Sessions : mem'[s].row.last <= Len(rows)
  PROVE  Typed'
BY DEF Typed, Tables, Kinds, Tasks, Mirrors, Processes

(* A step that changes the tables but creates no task.                      *)
LEMMA TypedTables ==
  ASSUME Typed, Tables', Kinds', Len(rows') = Len(rows),
         go' \in [Goroutines -> Go], mem' \in [Sessions -> Mem], Environment',
         \A g \in Goroutines : go'[g].pc # "off" => go'[g].task \in Tasks,
         mem' = mem \/ \A s \in Sessions : mem'[s].row.last = 0
  PROVE  Typed'
<1>1. Tasks' = Tasks /\ Len(rows) \in Nat
  BY TableFacts DEF Typed, Tasks, Tables
<1>2. \A s \in Sessions : mem'[s].row.last <= Len(rows')
  BY <1>1 DEF Typed, Processes
<1> QED BY <1>1, <1>2 DEF Typed, Processes

(* The row of a task changes, its kind does not.                            *)
LEMMA RowChanged ==
  ASSUME Tables, Kinds, NEW t \in Tasks, NEW row \in Row, row.kind = rows[t].kind,
         row.deploy # "none" <=> rows[t].deploy # "none", rows' = [rows EXCEPT ![t] = row]
  PROVE  /\ rows' \in Seq(Row) /\ Len(rows') = Len(rows) /\ Kinds' /\ Tasks' = Tasks
         /\ rows'[t] = row /\ \A u \in Tasks \ {t} : rows'[u] = rows[u]
<1>1. /\ rows' \in Seq(Row) /\ Len(rows') = Len(rows) /\ Tasks' = Tasks
      /\ rows'[t] = row /\ \A u \in Tasks \ {t} : rows'[u] = rows[u]
  BY TableFacts, Changed DEF Tables, Tasks
<1> QED BY <1>1 DEF Kinds, Mirrors

LEMMA CallTyped ==
  ASSUME Typed, NEW s \in Sessions, CallWrite(s) \/ \E c \in Calls : CallRead(s, c)
  PROVE  Typed'
<1>0. /\ Tables /\ Kinds /\ Processes /\ Environment /\ Len(rows) \in Nat
      /\ mem[s] \in Mem /\ NoMem \in Mem /\ NoMem.row.last = 0
  BY TableFacts DEF Typed, Processes, NoMem, Mem, EnvRow
<1>1. ASSUME NEW c \in Calls, CallRead(s, c) PROVE Typed'
  <2>1. [call |-> c, row |-> env, linked |-> linked, hidden |-> hidden] \in Mem
    BY <1>0, <1>1 DEF CallRead, Mem, Environment
  <2>2. mem' \in [Sessions -> Mem] /\ \A u \in Sessions : mem'[u].row.last <= Len(rows)
    BY <1>0, <1>1, <2>1 DEF CallRead, Processes, Environment
  <2>3. Environment'
    BY <1>0, <1>1 DEF CallRead, Environment, envVars, rowVars
  <2> QED BY <1>0, <1>1, <2>2, <2>3, TypedProc DEF CallRead, rowVars, runVars, history, Processes
<1>2. CASE CallWrite(s)
  <2> DEFINE m == mem[s]
             new == NewResults(m.row, m.linked, m.hidden)
             n == Len(rows)
             row == [kind |-> m.call, status |-> "pending", policy |-> "pending",
                     curr |-> 1, stop |-> m.row.stop,
                     deploy |-> IF m.call = "deploy" THEN "pending" ELSE "none"]
             found == {p \in Policies : new[p] # "none"}
  <2>1. /\ row \in Row /\ (row.kind = "deploy" <=> row.deploy # "none")
        /\ new \in Shown /\ Nothing \in Findings
        /\ <<"pending", "pending">> \in Two /\ <<"none", "none">> \in Execs /\ <<0, 0>> \in Counts
        /\ {} \in SUBSET Policies /\ found \in SUBSET Policies
    <3>1. m.call \in {"scan", "deploy"} /\ m.row.stop \in BOOLEAN
      BY <1>0, <1>2 DEF CallWrite, Mem, EnvRow
    <3>2. row \in Row /\ (row.kind = "deploy" <=> row.deploy # "none")
      BY <3>1 DEF Row, TaskStatuses, PolicyStatuses
    <3>3. new \in Shown
      BY DEF NewResults, Shown, PolicyStatuses
    <3>4. Nothing \in Findings
      <4>1. Nothing \in [{} -> Verdicts] /\ {} \in SUBSET Policies
        BY DEF Nothing
      <4> QED BY <4>1, Zenon DEF Findings
    <3>5. <<"pending", "pending">> \in Two /\ <<"none", "none">> \in Execs /\ <<0, 0>> \in Counts
      BY DEF Two, Execs, Counts, ScanStepStatuses, StepStatuses
    <3> QED BY <3>2, <3>3, <3>4, <3>5
  <2>2. /\ rows' = Append(rows, row) /\ steps' = Append(steps, <<"pending", "pending">>)
        /\ results' = Append(results, new) /\ recorded' = Append(recorded, found)
        /\ file' = Append(file, Nothing) /\ output' = Append(output, Nothing)
        /\ sent' = Append(sent, {}) /\ exec' = Append(exec, <<"none", "none">>)
        /\ starts' = Append(starts, <<0, 0>>)
        /\ mem' = [mem EXCEPT ![s] = NoMem] /\ UNCHANGED <<linked, hidden, go>>
    BY <1>2 DEF CallWrite
  <2>3. Tables' /\ Len(rows') = n + 1 /\ rows'[n + 1] = row /\ \A u \in 1..n : rows'[u] = rows[u]
    <3> DEFINE P == SUBSET Policies
    <3>1. /\ rows \in Seq(Row) /\ steps \in Seq(Two) /\ exec \in Seq(Execs) /\ starts \in Seq(Counts)
          /\ results \in Seq(Shown) /\ file \in Seq(Findings) /\ output \in Seq(Findings)
          /\ sent \in Seq(P) /\ recorded \in Seq(P) /\ n \in Nat
          /\ Len(steps) = n /\ Len(exec) = n /\ Len(starts) = n /\ Len(results) = n
          /\ Len(file) = n /\ Len(output) = n /\ Len(sent) = n /\ Len(recorded) = n
      BY <1>0 DEF Tables
    <3> HIDE DEF P, n, new, row, found
    <3>2. /\ rows' \in Seq(Row) /\ Len(rows') = n + 1 /\ rows'[n + 1] = row
          /\ \A u \in 1..n : rows'[u] = rows[u]
      BY <2>1, <2>2, <3>1, Added DEF n
    <3>3. steps' \in Seq(Two) /\ Len(steps') = n + 1 /\ exec' \in Seq(Execs) /\ Len(exec') = n + 1
      BY <2>1, <2>2, <3>1, Added
    <3>4. /\ starts' \in Seq(Counts) /\ Len(starts') = n + 1
          /\ results' \in Seq(Shown) /\ Len(results') = n + 1
      BY <2>1, <2>2, <3>1, Added
    <3>5. /\ file' \in Seq(Findings) /\ Len(file') = n + 1
          /\ output' \in Seq(Findings) /\ Len(output') = n + 1
      BY <2>1, <2>2, <3>1, Added
    <3>6. {} \in P /\ found \in P
      BY <2>1 DEF P
    <3>7. sent' \in Seq(P) /\ Len(sent') = n + 1 /\ recorded' \in Seq(P) /\ Len(recorded') = n + 1
      BY <2>2, <3>1, <3>6, Added
    <3> QED BY <3>2, <3>3, <3>4, <3>5, <3>7 DEF Tables, P
  <2>4. Tasks' = Tasks \union {n + 1} /\ Tasks = 1..n
    <3>1. DOMAIN rows' = 1..Len(rows') /\ DOMAIN rows = 1..Len(rows)
      BY <1>0, <2>3, LenProperties DEF Tables
    <3> QED BY <1>0, <2>3, <3>1 DEF Tasks
  <2>5. Kinds'
    <3> HIDE DEF row
    <3>1. \A u \in Tasks : rows'[u] = rows[u]
      BY <2>3, <2>4
    <3> QED BY <1>0, <2>1, <2>3, <2>4, <3>1 DEF Kinds, Mirrors
  <2>6. Processes'
    <3>1. mem' \in [Sessions -> Mem] /\ \A u \in Sessions : mem'[u].row.last <= n + 1
      <4>1. mem \in [Sessions -> Mem] /\ \A u \in Sessions : mem[u].row.last <= n /\ mem[u].row.last \in Nat
        BY <1>0 DEF Processes, Mem, EnvRow
      <4> HIDE DEF n
      <4> QED BY <1>0, <2>2, <4>1 DEF n
    <3> QED BY <1>0, <2>2, <2>3, <2>4, <3>1 DEF Processes
  <2>7. Environment'
    <3>1. env' \in EnvRow /\ env'.last <= n + 1
      <4>1. m.row \in EnvRow /\ m.row.last <= n
        BY <1>0 DEF Mem, Processes
      <4>2. env' = m.row \/ env' = [m.row EXCEPT !.last = n + 1]
        BY <1>2 DEF CallWrite
      <4>3. n + 1 \in Nat
        BY <1>0
      <4> HIDE DEF m, n
      <4>4. [m.row EXCEPT !.last = n + 1] \in EnvRow /\ [m.row EXCEPT !.last = n + 1].last = n + 1
        BY <4>1, <4>3 DEF EnvRow
      <4>5. m.row.last \in Nat
        BY <4>1 DEF EnvRow
      <4>6. n \in Nat
        BY <1>0 DEF n
      <4>7. m.row.last <= n + 1 /\ n + 1 <= n + 1
        BY <4>1, <4>5, <4>6
      <4> QED BY <4>1, <4>2, <4>4, <4>7, Zenon
    <3> QED BY <1>0, <2>2, <2>3, <3>1 DEF Environment
  <2> QED BY <2>3, <2>5, <2>6, <2>7 DEF Typed
<1> QED BY <1>1, <1>2

LEMMA EditTyped ==
  ASSUME Typed, EnableScan \/ Link \/ Suppress
  PROVE  Typed'
<1>1. Environment /\ Processes
  BY DEF Typed
<1>2. Environment'
  <2>1. CASE EnableScan
    <3>1. env' = [env EXCEPT !.enabled = ~env.enabled] /\ env \in EnvRow
      BY <1>1, <2>1 DEF EnableScan, Environment
    <3>2. (~env.enabled) \in BOOLEAN
      BY Zenon
    <3>3. ASSUME NEW b \in BOOLEAN
          PROVE  [env EXCEPT !.enabled = b] \in EnvRow /\ [env EXCEPT !.enabled = b].last = env.last
      BY <3>1 DEF EnvRow
    <3>4. env' \in EnvRow /\ env'.last = env.last
      BY <3>1, <3>2, <3>3, Zenon
    <3> QED BY <1>1, <2>1, <3>4 DEF EnableScan, Environment, rowVars
  <2>2. CASE Link
    BY <1>1, <2>2 DEF Link, Environment, rowVars
  <2>3. CASE Suppress
    BY <1>1, <2>3 DEF Suppress, Environment, rowVars
  <2> QED BY <2>1, <2>2, <2>3
<1> QED BY <1>1, <1>2, TypedProc
        DEF EnableScan, Link, Suppress, rowVars, runVars, history, Processes

LEMMA RunnerTyped ==
  ASSUME Typed, NEW t \in Tasks, Abort(t) \/ \E k \in 1..2 : ExecEnds(t, k)
  PROVE  Typed'
<1>0. /\ Tables /\ Kinds /\ Processes /\ Environment /\ Len(rows) \in Nat /\ Tasks = 1..Len(rows)
      /\ rows[t] \in Row /\ exec[t] \in Execs /\ sent[t] \subseteq Policies
  BY TableFacts DEF Typed
<1>1. UNCHANGED <<go, mem, steps, results, file, sent, starts, recorded>> /\ UNCHANGED envVars
  BY DEF Abort, ExecEnds, rowVars, history
<1>2. rows' \in Seq(Row) /\ Len(rows') = Len(rows) /\ Kinds' /\ Tasks' = Tasks
  <2>1. CASE UNCHANGED rows
    BY <1>0, <2>1 DEF Tables, Kinds, Tasks, Mirrors
  <2>2. CASE rows' = [rows EXCEPT ![t].deploy = "aborted"] /\ Mirrors(t)
    <3>1. rows' = [rows EXCEPT ![t] = [rows[t] EXCEPT !.deploy = "aborted"]]
      BY <2>2
    <3>2. /\ [rows[t] EXCEPT !.deploy = "aborted"] \in Row
          /\ [rows[t] EXCEPT !.deploy = "aborted"].kind = rows[t].kind
          /\ [rows[t] EXCEPT !.deploy = "aborted"].deploy = "aborted"
      BY <1>0 DEF Row, TaskStatuses
    <3>3. rows[t].deploy # "none"
      BY <1>0, <2>2 DEF Kinds
    <3> HIDE DEF Row
    <3> QED BY <1>0, <3>1, <3>2, <3>3, RowChanged
  <2> QED BY <2>1, <2>2 DEF Abort, ExecEnds, rowVars
<1>3. exec' \in Seq(Execs) /\ Len(exec') = Len(rows)
  <2>1. ASSUME NEW e \in Execs, exec' = [exec EXCEPT ![t] = e]
        PROVE  exec' \in Seq(Execs) /\ Len(exec') = Len(rows)
    <3> HIDE DEF Execs
    <3> QED BY <1>0, <2>1, Changed DEF Tables
  <2>2. CASE UNCHANGED exec
    BY <1>0, <2>2 DEF Tables
  <2>3. ASSUME NEW k \in 1..2, NEW v \in {"failed", "complete", "violated"},
               exec' = [exec EXCEPT ![t][k] = v]
        PROVE  exec' \in Seq(Execs) /\ Len(exec') = Len(rows)
    <3>1. exec' = [exec EXCEPT ![t] = [exec[t] EXCEPT ![k] = v]]
      BY <2>3
    <3>2. [exec[t] EXCEPT ![k] = v] \in Execs
      BY <1>0 DEF Execs
    <3> QED BY <2>1, <3>1, <3>2
  <2>4. ASSUME exec' = [exec EXCEPT ![t] = [k \in 1..2 |-> IF @[k] = "running" THEN "failed" ELSE @[k]]]
        PROVE  exec' \in Seq(Execs) /\ Len(exec') = Len(rows)
    <3>1. [k \in 1..2 |-> IF exec[t][k] = "running" THEN "failed" ELSE exec[t][k]] \in Execs
      BY <1>0 DEF Execs
    <3> QED BY <2>1, <2>4, <3>1
  <2> QED BY <2>2, <2>3, <2>4 DEF Abort, ExecEnds
<1>4. output' \in Seq(Findings) /\ Len(output') = Len(rows)
  <2>1. ASSUME NEW found \in Findings, output' = [output EXCEPT ![t] = found]
        PROVE  output' \in Seq(Findings) /\ Len(output') = Len(rows)
    <3> HIDE DEF Findings
    <3> QED BY <1>0, <2>1, Changed DEF Tables
  <2>2. CASE UNCHANGED output
    BY <1>0, <2>2 DEF Tables
  <2>3. ASSUME NEW read \in SUBSET sent[t], NEW found \in [read -> Verdicts]
        PROVE  found \in Findings
    <3>1. read \in SUBSET Policies
      BY <1>0
    <3> QED BY <3>1, Zenon DEF Findings
  <2> QED BY <2>1, <2>2, <2>3 DEF Abort, ExecEnds
<1>5. Tables'
  BY <1>0, <1>1, <1>2, <1>3, <1>4 DEF Tables
<1>6. Environment'
  BY <1>0, <1>1, <1>2 DEF Environment, envVars
<1> QED BY <1>0, <1>1, <1>2, <1>5, <1>6, TypedTables DEF Processes

(* The goroutines that begin, and those that die.                           *)
LEMMA ManagerTyped ==
  ASSUME Typed,
         \/ \E g \in Goroutines, t \in Tasks : Pick(g, t) \/ Recover(g, t)
         \/ Recovered \/ Crash
  PROVE  Typed'
<1>0. /\ Processes /\ Environment
      /\ NoGo \in Go /\ NoGo.pc = "off" /\ NoMem \in Mem /\ NoMem.row.last = 0
      /\ Len(rows) \in Nat /\ Tasks = 1..Len(rows)
  <2>1. NoGo \in Go /\ NoGo.pc = "off"
    BY DEF NoGo, Go, Two, Phases, ScanStepStatuses, StepStatuses
  <2>2. NoMem \in Mem /\ NoMem.row.last = 0
    BY DEF NoMem, Mem, EnvRow
  <2> QED BY <2>1, <2>2, TableFacts DEF Typed
<1>1. Environment' /\ UNCHANGED <<rows, steps, exec, starts, results, file, output, sent, recorded>>
  BY <1>0 DEF Pick, Recover, Recovered, Crash, Environment, envVars, rowVars, runVars, history
<1>2. ASSUME NEW g \in Goroutines, NEW t \in Tasks, Pick(g, t) \/ Recover(g, t)
      PROVE  Typed'
  <2>1. PICK new \in BOOLEAN : Spawn(g, t, new)
    BY <1>2 DEF Pick, Recover
  <2>2. [NoGo EXCEPT !.pc = "begin", !.task = t, !.new = new] \in Go
        /\ [NoGo EXCEPT !.pc = "begin", !.task = t, !.new = new].task = t
    <3>1. t \in Nat
      BY <1>0
    <3>2. ASSUME NEW u \in Nat, NEW b \in BOOLEAN
          PROVE  LET new2 == [NoGo EXCEPT !.pc = "begin", !.task = u, !.new = b]
                 IN  new2 \in Go /\ new2.task = u
      BY <1>0 DEF Go, Phases
    <3> QED BY <3>1, <3>2, Zenon
  <2>3. /\ go' \in [Goroutines -> Go]
        /\ \A h \in Goroutines : go'[h].pc # "off" => go'[h].task \in Tasks
    BY <1>0, <2>1, <2>2 DEF Processes, Spawn
  <2>4. UNCHANGED mem
    BY <1>2 DEF Pick, Recover
  <2> QED BY <1>0, <1>1, <2>3, <2>4, TypedProc DEF Processes
<1>3. CASE Recovered
  BY <1>0, <1>1, <1>3, TypedProc DEF Recovered, Processes
<1>4. CASE Crash
  <2>1. go' = [g \in Goroutines |-> NoGo] /\ mem' = [s \in Sessions |-> NoMem]
    BY <1>4 DEF Crash, Down
  <2> QED BY <1>0, <1>1, <2>1, TypedProc
<1> QED BY <1>2, <1>3, <1>4

-----------------------------------------------------------------------------
(* The tables a step of a goroutine writes: one value of one task.          *)
LEMMA StepsSet ==
  ASSUME Tables, NEW t \in Tasks, NEW e \in Two, steps' = [steps EXCEPT ![t] = e]
  PROVE  /\ steps' \in Seq(Two) /\ Len(steps') = Len(rows) /\ steps'[t] = e
         /\ \A u \in Tasks \ {t} : steps'[u] = steps[u]
<1> HIDE DEF Two
<1> QED BY TableFacts, Changed DEF Tables

LEMMA StepSet ==
  ASSUME NEW x \in Two, NEW k \in 1..2, NEW v \in ScanStepStatuses
  PROVE  /\ [x EXCEPT ![k] = v] \in Two
         /\ [x EXCEPT ![k] = v][k] = v /\ [x EXCEPT ![k] = v][3 - k] = x[3 - k]
BY DEF Two

LEMMA ExecSet ==
  ASSUME Tables, NEW t \in Tasks, NEW e \in Execs, exec' = [exec EXCEPT ![t] = e]
  PROVE  /\ exec' \in Seq(Execs) /\ Len(exec') = Len(rows) /\ exec'[t] = e
         /\ \A u \in Tasks \ {t} : exec'[u] = exec[u]
<1> HIDE DEF Execs
<1> QED BY TableFacts, Changed DEF Tables

LEMMA StartsSet ==
  ASSUME Tables, NEW t \in Tasks, NEW e \in Counts, starts' = [starts EXCEPT ![t] = e]
  PROVE  /\ starts' \in Seq(Counts) /\ Len(starts') = Len(rows) /\ starts'[t] = e
         /\ \A u \in Tasks \ {t} : starts'[u] = starts[u]
<1> HIDE DEF Counts
<1> QED BY TableFacts, Changed DEF Tables

LEMMA StartSet ==
  ASSUME Tables, NEW t \in Tasks, NEW k \in 1..2, starts' = [starts EXCEPT ![t][k] = @ + 1]
  PROVE  /\ starts' \in Seq(Counts) /\ Len(starts') = Len(rows)
         /\ starts'[t][3 - k] = starts[t][3 - k]
         /\ \A u \in Tasks \ {t} : starts'[u] = starts[u]
<1>1. starts[t] \in Counts /\ Tasks = 1..Len(rows) /\ DOMAIN starts = Tasks
      /\ Len(starts) = Len(rows) /\ starts \in Seq(Counts)
  BY TableFacts DEF Tables
<1> DEFINE e == [starts[t] EXCEPT ![k] = starts[t][k] + 1]
<1>2. starts' = [starts EXCEPT ![t] = e]
  OBVIOUS
<1>3. e \in Counts /\ e[3 - k] = starts[t][3 - k]
  BY <1>1, SMTT(30) DEF Counts
<1> HIDE DEF e, Counts
<1>4. starts' \in Seq(Counts) /\ Len(starts') = Len(rows)
      /\ starts'[t] = e /\ \A u \in Tasks \ {t} : starts'[u] = starts[u]
  BY <1>2, <1>3, StartsSet, Zenon
<1> QED BY <1>3, <1>4 DEF e

LEMMA FileSet ==
  ASSUME Tables, NEW t \in Tasks, file' = file \/ file' = [file EXCEPT ![t] = output[t]]
  PROVE  /\ file' \in Seq(Findings) /\ Len(file') = Len(rows)
         /\ \A u \in Tasks \ {t} : file'[u] = file[u]
<1>1. output[t] \in Findings /\ Tasks = 1..Len(rows) /\ Len(file) = Len(rows) /\ file \in Seq(Findings)
  BY TableFacts DEF Tables
<1> HIDE DEF Findings
<1> QED BY <1>1, Changed

LEMMA ResultSet ==
  ASSUME Tables, NEW t \in Tasks, NEW e \in Shown,
         results' = results \/ results' = [results EXCEPT ![t] = e]
  PROVE  /\ results' \in Seq(Shown) /\ Len(results') = Len(rows)
         /\ \A u \in Tasks \ {t} : results'[u] = results[u]
<1>1. Tasks = 1..Len(rows) /\ Len(results) = Len(rows) /\ results \in Seq(Shown)
  BY TableFacts DEF Tables
<1> HIDE DEF Shown
<1> QED BY <1>1, Changed

LEMMA SentSet ==
  ASSUME Tables, NEW t \in Tasks, NEW e \in SUBSET Policies,
         sent' = sent \/ sent' = [sent EXCEPT ![t] = e]
  PROVE  /\ sent' \in Seq(SUBSET Policies) /\ Len(sent') = Len(rows)
         /\ \A u \in Tasks \ {t} : sent'[u] = sent[u]
<1> DEFINE P == SUBSET Policies
<1>1. Tasks = 1..Len(rows) /\ Len(sent) = Len(rows) /\ sent \in Seq(P) /\ e \in P
  BY TableFacts DEF Tables
<1> HIDE DEF P
<1>2. /\ sent' \in Seq(P) /\ Len(sent') = Len(rows)
      /\ \A u \in Tasks \ {t} : sent'[u] = sent[u]
  BY <1>1, Changed
<1> QED BY <1>2 DEF P

(* A row with new statuses.                                                 *)
Told(t, st, po, c, d) ==
    [rows[t] EXCEPT !.status = st, !.policy = po, !.curr = c, !.deploy = d]

LEMMA ToldRow ==
  ASSUME NEW t, rows[t] \in Row, NEW st \in TaskStatuses, NEW po \in PolicyStatuses, NEW c \in 1..2,
         NEW d \in TaskStatuses \union {"none"}
  PROVE  /\ Told(t, st, po, c, d) \in Row
         /\ Told(t, st, po, c, d).kind = rows[t].kind /\ Told(t, st, po, c, d).stop = rows[t].stop
         /\ Told(t, st, po, c, d).curr = c /\ Told(t, st, po, c, d).deploy = d
BY DEF Row, Told

(* A goroutine moves on.                                                    *)
Moved(x, pc, k, st, ps) == [x EXCEPT !.pc = pc, !.k = k, !.steps = st, !.policies = ps]

LEMMA MovedGo ==
  ASSUME NEW x \in Go, NEW pc \in Phases, NEW k \in 1..2, NEW st \in Two, NEW ps \in SUBSET Policies
  PROVE  /\ Moved(x, pc, k, st, ps) \in Go /\ Moved(x, pc, k, st, ps).task = x.task
         /\ Moved(x, pc, k, st, ps).pc = pc /\ Moved(x, pc, k, st, ps).k = k
         /\ Moved(x, pc, k, st, ps).steps = st
<1> DEFINE P == SUBSET Policies
<1> HIDE DEF Two, Phases
<1>1. ps \in P /\ x \in [pc : Phases, task : Nat, new : BOOLEAN, k : 1..2, steps : Two, policies : P]
  BY DEF Go
<1> HIDE DEF P
<1>2. /\ Moved(x, pc, k, st, ps) \in
           [pc : Phases, task : Nat, new : BOOLEAN, k : 1..2, steps : Two, policies : P]
      /\ Moved(x, pc, k, st, ps).task = x.task
      /\ Moved(x, pc, k, st, ps).pc = pc /\ Moved(x, pc, k, st, ps).k = k
      /\ Moved(x, pc, k, st, ps).steps = st
  BY <1>1 DEF Moved
<1> QED BY <1>2 DEF Go, P

LEMMA GoSet ==
  ASSUME Processes, NEW g \in Goroutines, go[g].pc # "off",
         NEW e \in Go, e.task = go[g].task, go' = [go EXCEPT ![g] = e]
  PROVE  /\ go' \in [Goroutines -> Go]
         /\ \A h \in Goroutines : go'[h].pc # "off" => go'[h].task \in Tasks
         /\ go'[g] = e /\ \A h \in Goroutines \ {g} : go'[h] = go[h]
<1> HIDE DEF Go
<1> QED BY DEF Processes

-----------------------------------------------------------------------------
(* A step of a goroutine touches the rows of its task and itself.           *)
Local(g, t) ==
    /\ Tasks' = Tasks
    /\ \A u \in Tasks \ {t} :
         /\ rows'[u] = rows[u] /\ steps'[u] = steps[u] /\ exec'[u] = exec[u]
         /\ starts'[u] = starts[u] /\ output'[u] = output[u]
         /\ file'[u] = file[u] /\ results'[u] = results[u]
    /\ rows'[t].kind = rows[t].kind /\ rows'[t].stop = rows[t].stop
    /\ \A h \in Goroutines \ {g} : go'[h] = go[h]
    /\ go'[g].task = go[g].task

LEMMA WorkFacts ==
  ASSUME Typed, NEW g \in Goroutines, go[g].pc # "off"
  PROVE  /\ Tables /\ Kinds /\ Processes /\ Environment
         /\ go[g] \in Go /\ go[g].task \in Tasks /\ go[g].k \in 1..2 /\ go[g].steps \in Two
         /\ go[g].policies \in SUBSET Policies /\ go[g].pc \in Phases
         /\ mem \in [Sessions -> Mem] /\ rows[go[g].task] \in Row
         /\ rows[go[g].task].status \in TaskStatuses
         /\ rows[go[g].task].policy \in PolicyStatuses /\ rows[go[g].task].curr \in 1..2
         /\ Len(rows) \in Nat /\ Tasks = 1..Len(rows) /\ Tasks \subseteq Nat
<1>1. /\ Tables /\ Kinds /\ Processes /\ Environment /\ go[g] \in Go /\ go[g].task \in Tasks
      /\ mem \in [Sessions -> Mem]
  BY DEF Typed, Processes
<1>2. rows[go[g].task] \in Row /\ Len(rows) \in Nat /\ Tasks = 1..Len(rows)
  BY <1>1, TableFacts
<1>3. /\ go[g].k \in 1..2 /\ go[g].steps \in Two /\ go[g].pc \in Phases
      /\ go[g].policies \in SUBSET Policies
  BY <1>1 DEF Go
<1>4. /\ rows[go[g].task].status \in TaskStatuses /\ rows[go[g].task].policy \in PolicyStatuses
      /\ rows[go[g].task].curr \in 1..2
  BY <1>2 DEF Row
<1> QED BY <1>1, <1>2, <1>3, <1>4

(* Only its program counter moves.                                          *)
LEMMA ToSet ==
  ASSUME Processes, NEW g \in Goroutines, go[g].pc # "off", NEW pc \in Phases, To(g, pc)
  PROVE  /\ go' \in [Goroutines -> Go]
         /\ \A h \in Goroutines : go'[h].pc # "off" => go'[h].task \in Tasks
         /\ go'[g].pc = pc /\ go'[g].k = go[g].k /\ go'[g].steps = go[g].steps
         /\ go'[g].task = go[g].task
         /\ \A h \in Goroutines \ {g} : go'[h] = go[h]
<1>1. go \in [Goroutines -> Go] /\ go[g] \in Go /\ go[g].task \in Tasks
  BY DEF Processes
<1>2. go' = [go EXCEPT ![g] = [go[g] EXCEPT !.pc = pc]]
  BY DEF To
<1> DEFINE e == [go[g] EXCEPT !.pc = pc]
<1>3. /\ e \in Go /\ e.pc = pc /\ e.k = go[g].k /\ e.steps = go[g].steps
      /\ e.task = go[g].task
  <2> HIDE DEF Two, Phases
  <2> QED BY <1>1 DEF Go
<1> HIDE DEF e, Go
<1>4. go' \in [Goroutines -> Go] /\ go'[g] = e /\ \A h \in Goroutines \ {g} : go'[h] = go[h]
  BY <1>1, <1>2, <1>3 DEF e
<1> QED BY <1>1, <1>3, <1>4 DEF Processes

LEMMA EnvironmentKept ==
  ASSUME Typed, Len(rows') = Len(rows), UNCHANGED envVars
  PROVE  Environment'
BY DEF Typed, Environment, envVars

LEMMA BeginStep ==
  ASSUME Typed, NEW g \in Goroutines, Begin(g), NEW t, t = go[g].task
  PROVE  /\ Typed' /\ Local(g, t) /\ go'[g].pc = "load" /\ go'[g].k = go[g].k
         /\ rows'[t].curr = rows[t].curr /\ rows'[t].deploy \in {rows[t].deploy, "running"}
         /\ UNCHANGED <<steps, exec, starts, output, file, results>>
<1>1. /\ go[g].pc = "begin" /\ To(g, "load") /\ env' = [env EXCEPT !.last = t]
      /\ UNCHANGED <<linked, hidden, steps, exec, starts, output, file, results, sent, recorded, mem>>
  BY DEF Begin, runVars, history
<1>2. /\ Tables /\ Kinds /\ Processes /\ Environment /\ t \in Tasks /\ t \in Nat
      /\ t <= Len(rows) /\ Len(rows) \in Nat /\ rows[t] \in Row
      /\ rows[t].status \in TaskStatuses /\ rows[t].policy \in PolicyStatuses /\ rows[t].curr \in 1..2
  BY <1>1, WorkFacts
<1>3. /\ rows' \in Seq(Row) /\ Len(rows') = Len(rows) /\ Kinds' /\ Tasks' = Tasks
      /\ rows'[t].kind = rows[t].kind /\ rows'[t].stop = rows[t].stop
      /\ rows'[t].curr = rows[t].curr /\ rows'[t].deploy \in {rows[t].deploy, "running"}
      /\ \A u \in Tasks \ {t} : rows'[u] = rows[u]
  <2>1. CASE rows' = rows
    BY <1>2, <2>1 DEF Tables, Kinds, Tasks, Mirrors
  <2>2. CASE rows' = [rows EXCEPT ![t].status = "running",
                                  ![t].deploy = IF Mirrors(t) THEN "running" ELSE @]
    <3> DEFINE d == IF Mirrors(t) THEN "running" ELSE rows[t].deploy
               row == Told(t, "running", rows[t].policy, rows[t].curr, d)
    <3>1. rows' = [rows EXCEPT ![t] = row]
      BY <1>2, <2>2, ZenonT(60) DEF Row, Tables, Told
    <3>2. d \in TaskStatuses \union {"none"} /\ (d # "none" <=> rows[t].deploy # "none")
          /\ "running" \in TaskStatuses /\ d \in {rows[t].deploy, "running"}
      BY <1>2 DEF TaskStatuses, Row, Kinds
    <3> HIDE DEF d
    <3>3. /\ row \in Row /\ row.kind = rows[t].kind /\ row.stop = rows[t].stop
          /\ row.curr = rows[t].curr /\ row.deploy = d
      BY <1>2, <3>2, ToldRow
    <3> HIDE DEF row
    <3> QED BY <1>2, <3>1, <3>2, <3>3, RowChanged
  <2> QED BY <2>1, <2>2 DEF Begin
<1>4. /\ go' \in [Goroutines -> Go]
      /\ \A h \in Goroutines : go'[h].pc # "off" => go'[h].task \in Tasks
      /\ go'[g].pc = "load" /\ go'[g].k = go[g].k /\ go'[g].task = go[g].task
      /\ \A h \in Goroutines \ {g} : go'[h] = go[h]
  BY <1>1, <1>2, ToSet DEF Phases
<1>5. Environment'
  <2>1. [env EXCEPT !.last = t] \in EnvRow /\ [env EXCEPT !.last = t].last = t
    BY <1>2 DEF Environment, EnvRow
  <2> QED BY <1>1, <1>2, <1>3, <2>1 DEF Environment
<1>6. Tables'
  BY <1>1, <1>2, <1>3 DEF Tables
<1>7. Typed'
  BY <1>1, <1>2, <1>3, <1>4, <1>5, <1>6, TypedTables DEF Processes
<1>8. Local(g, t)
  BY <1>1, <1>3, <1>4 DEF Local
<1> QED BY <1>1, <1>3, <1>4, <1>7, <1>8

LEMMA LoadStep ==
  ASSUME Typed, NEW g \in Goroutines, Load(g), NEW t, t = go[g].task
  PROVE  /\ Typed' /\ Local(g, t)
         /\ go'[g].pc = "step" /\ go'[g].k = rows[t].curr /\ go'[g].steps = steps[t]
         /\ UNCHANGED <<rows, steps, exec, starts, output, file, results>>
<1>1. /\ go[g].pc = "load" /\ UNCHANGED envVars
      /\ UNCHANGED <<rows, steps, exec, starts, output, file, results, sent, recorded, mem>>
  BY DEF Load, rowVars, runVars, history
<1>2. /\ Processes /\ Environment /\ t \in Tasks /\ rows[t].curr \in 1..2 /\ steps[t] \in Two
      /\ go[g] \in Go
  BY <1>1, WorkFacts, TableFacts
<1> DEFINE ps == IF Mirrors(t) THEN Valid(env, linked, hidden) ELSE {}
           e == Moved(go[g], "step", rows[t].curr, steps[t], ps)
<1>3. ps \in SUBSET Policies
  BY <1>2 DEF Environment, Valid
<1>4. go' = [go EXCEPT ![g] = e]
  BY DEF Load, Moved
<1> HIDE DEF ps
<1>5. e \in Go /\ e.task = t /\ e.pc = "step" /\ e.k = rows[t].curr /\ e.steps = steps[t]
  BY <1>2, <1>3, MovedGo DEF Phases
<1> HIDE DEF e
<1>6. /\ go' \in [Goroutines -> Go] /\ go'[g] = e
      /\ \A h \in Goroutines : go'[h].pc # "off" => go'[h].task \in Tasks
      /\ \A h \in Goroutines \ {g} : go'[h] = go[h]
  BY <1>1, <1>2, <1>4, <1>5, GoSet
<1>7. Environment'
  BY <1>1, EnvironmentKept
<1>8. Typed'
  BY <1>1, <1>2, <1>6, <1>7, TypedProc DEF Processes
<1>9. Local(g, t)
  BY <1>1, <1>5, <1>6 DEF Local, Tasks
<1> QED BY <1>1, <1>5, <1>6, <1>8, <1>9

LEMMA StartFailsStep ==
  ASSUME Typed, NEW g \in Goroutines, StartFails(g), NEW t, t = go[g].task
  PROVE  /\ Typed' /\ Local(g, t) /\ go'[g].pc = "off"
         /\ rows'[t].curr = rows[t].curr /\ rows'[t].deploy \in {rows[t].deploy, "failed"}
         /\ UNCHANGED <<steps, exec, starts, output, file, results>>
<1>1. /\ go[g].pc # "off" /\ To(g, "off") /\ UNCHANGED envVars
      /\ UNCHANGED <<steps, exec, starts, output, file, results, sent, recorded, mem>>
  BY DEF StartFails, runVars, history
<1>2. /\ Tables /\ Kinds /\ Processes /\ Environment /\ t \in Tasks /\ rows[t] \in Row
      /\ rows[t].policy \in PolicyStatuses /\ rows[t].curr \in 1..2
  BY <1>1, WorkFacts
<1>3. /\ rows' \in Seq(Row) /\ Len(rows') = Len(rows) /\ Kinds' /\ Tasks' = Tasks
      /\ rows'[t].kind = rows[t].kind /\ rows'[t].stop = rows[t].stop
      /\ rows'[t].curr = rows[t].curr /\ rows'[t].deploy \in {rows[t].deploy, "failed"}
      /\ \A u \in Tasks \ {t} : rows'[u] = rows[u]
  <2> DEFINE d == IF Mirrors(t) THEN "failed" ELSE rows[t].deploy
             po == IF Mirrors(t) THEN rows[t].policy ELSE "failed"
             row == Told(t, "failed", po, rows[t].curr, d)
  <2>1. rows' = [rows EXCEPT ![t] = row]
    BY <1>2 DEF StartFails, Row, Tables, Told
  <2>2. /\ d \in TaskStatuses \union {"none"} /\ (d # "none" <=> rows[t].deploy # "none")
        /\ "failed" \in TaskStatuses /\ d \in {rows[t].deploy, "failed"} /\ po \in PolicyStatuses
    BY <1>2 DEF TaskStatuses, PolicyStatuses, Verdicts, Row, Kinds
  <2> HIDE DEF d, po
  <2>3. /\ row \in Row /\ row.kind = rows[t].kind /\ row.stop = rows[t].stop
        /\ row.curr = rows[t].curr /\ row.deploy = d
    BY <1>2, <2>2, ToldRow
  <2> HIDE DEF row
  <2> QED BY <1>2, <2>1, <2>2, <2>3, RowChanged
<1>4. /\ go' \in [Goroutines -> Go]
      /\ \A h \in Goroutines : go'[h].pc # "off" => go'[h].task \in Tasks
      /\ go'[g].pc = "off" /\ go'[g].task = go[g].task
      /\ \A h \in Goroutines \ {g} : go'[h] = go[h]
  BY <1>1, <1>2, ToSet DEF Phases
<1>5. Environment'
  BY <1>1, <1>3, EnvironmentKept
<1>6. Tables'
  BY <1>1, <1>2, <1>3 DEF Tables
<1>7. Typed'
  BY <1>1, <1>2, <1>3, <1>4, <1>5, <1>6, TypedTables DEF Processes
<1>8. Local(g, t)
  BY <1>1, <1>3, <1>4 DEF Local
<1> QED BY <1>1, <1>3, <1>4, <1>7, <1>8

LEMMA StepStep ==
  ASSUME Typed, NEW g \in Goroutines, Step(g), NEW t, t = go[g].task, NEW k, k = go[g].k,
         NEW status, status = go[g].steps[k]
  PROVE  /\ Typed' /\ Local(g, t)
         /\ go'[g].k = k /\ go'[g].steps = go[g].steps
         /\ rows'[t].curr = k /\ rows'[t].deploy = rows[t].deploy
         /\ status = "pending" => /\ go'[g].pc = "send" /\ steps'[t][k] = "running"
                                  /\ steps'[t][3 - k] = steps[t][3 - k]
         /\ status # "pending" => UNCHANGED steps
         /\ status = "running" => go'[g].pc = "wait"
         /\ status \notin {"pending", "running"} => go'[g].pc \in {"done", "judge"}
         /\ UNCHANGED <<exec, starts, output, file, results>>
<1>1. /\ go[g].pc = "step" /\ UNCHANGED envVars
      /\ UNCHANGED <<exec, starts, output, file, results, sent, recorded, mem>>
  BY DEF Step, runVars, history
<1>2. /\ Tables /\ Kinds /\ Processes /\ Environment /\ t \in Tasks /\ rows[t] \in Row
      /\ rows[t].policy \in PolicyStatuses /\ rows[t].status \in TaskStatuses
      /\ k \in 1..2 /\ go[g] \in Go /\ go[g].steps \in Two /\ go[g].policies \in SUBSET Policies
  BY <1>1, WorkFacts
<1>3. /\ rows' \in Seq(Row) /\ Len(rows') = Len(rows) /\ Kinds' /\ Tasks' = Tasks
      /\ rows'[t].kind = rows[t].kind /\ rows'[t].stop = rows[t].stop
      /\ rows'[t].curr = k /\ rows'[t].deploy = rows[t].deploy
      /\ \A u \in Tasks \ {t} : rows'[u] = rows[u]
  <2> DEFINE st == IF status = "pending" /\ ~Mirrors(t) THEN "running" ELSE rows[t].status
             po == IF status = "pending" /\ ~Mirrors(t) THEN "pending" ELSE rows[t].policy
             row == Told(t, st, po, k, rows[t].deploy)
  <2>1. rows' = [rows EXCEPT ![t] = row]
    BY <1>2, ZenonT(60) DEF Step, Row, Tables, Told
  <2>2. /\ rows[t].deploy \in TaskStatuses \union {"none"}
        /\ st \in TaskStatuses /\ po \in PolicyStatuses
    BY <1>2 DEF TaskStatuses, PolicyStatuses, Verdicts, Row
  <2> HIDE DEF st, po
  <2>3. /\ row \in Row /\ row.kind = rows[t].kind /\ row.stop = rows[t].stop
        /\ row.curr = k /\ row.deploy = rows[t].deploy
    BY <1>2, <2>2, ToldRow
  <2> HIDE DEF row
  <2> QED BY <1>2, <2>1, <2>2, <2>3, RowChanged, ZenonT(60)
<1>4. /\ steps' \in Seq(Two) /\ Len(steps') = Len(rows)
      /\ status = "pending" => steps'[t][k] = "running" /\ steps'[t][3 - k] = steps[t][3 - k]
      /\ status # "pending" => UNCHANGED steps
      /\ \A u \in Tasks \ {t} : steps'[u] = steps[u]
  <2>1. CASE status = "pending"
    <3> DEFINE x == [steps[t] EXCEPT ![k] = "running"]
    <3>1. steps' = [steps EXCEPT ![t] = x]
      BY <2>1 DEF Step, SetStep
    <3>2. x \in Two /\ x[k] = "running" /\ x[3 - k] = steps[t][3 - k]
      <4>1. "running" \in ScanStepStatuses /\ steps[t] \in Two
        BY <1>2, TableFacts DEF ScanStepStatuses, StepStatuses
      <4> QED BY <1>2, <4>1, StepSet
    <3> HIDE DEF x
    <3>3. /\ steps' \in Seq(Two) /\ Len(steps') = Len(rows) /\ steps'[t] = x
          /\ \A u \in Tasks \ {t} : steps'[u] = steps[u]
      BY <1>2, <3>1, <3>2, StepsSet
    <3> QED BY <2>1, <3>2, <3>3
  <2>2. CASE status # "pending"
    BY <1>2, <2>2 DEF Step, Tables
  <2> QED BY <2>1, <2>2
<1> DEFINE pc == CASE status = "pending" -> "send"
                   [] status = "running" -> "wait"
                   [] OTHER -> IF k = 1 /\ Mirrors(t) THEN "done" ELSE "judge"
           ps == IF Mirrors(t) THEN go[g].policies ELSE Valid(env, linked, hidden)
           e == Moved(go[g], pc, k, go[g].steps, ps)
<1>5. go' = [go EXCEPT ![g] = e]
  BY <1>2, ZenonT(60) DEF Step, Moved, Processes, Go
<1>6. /\ pc \in Phases /\ (status = "pending" => pc = "send") /\ (status = "running" => pc = "wait")
      /\ (status \notin {"pending", "running"} => pc \in {"done", "judge"})
  BY DEF Phases
<1>7. ps \in SUBSET Policies
  BY <1>2 DEF Environment, Valid
<1> HIDE DEF pc, ps
<1>8. e \in Go /\ e.task = t /\ e.pc = pc /\ e.k = k /\ e.steps = go[g].steps
  BY <1>2, <1>6, <1>7, MovedGo
<1> HIDE DEF e
<1>9. /\ go' \in [Goroutines -> Go] /\ go'[g] = e
      /\ \A h \in Goroutines : go'[h].pc # "off" => go'[h].task \in Tasks
      /\ \A h \in Goroutines \ {g} : go'[h] = go[h]
  BY <1>1, <1>2, <1>5, <1>8, GoSet
<1>10. Environment'
  BY <1>1, <1>3, EnvironmentKept
<1>11. Tables'
  BY <1>1, <1>2, <1>3, <1>4 DEF Tables
<1>12. Typed'
  BY <1>1, <1>2, <1>3, <1>9, <1>10, <1>11, TypedTables DEF Processes
<1>13. Local(g, t)
  BY <1>1, <1>3, <1>4, <1>8, <1>9 DEF Local
<1> QED BY <1>1, <1>3, <1>4, <1>6, <1>8, <1>9, <1>12, <1>13

LEMMA SendStep ==
  ASSUME Typed, NEW g \in Goroutines, Send(g), NEW t, t = go[g].task, NEW k, k = go[g].k
  PROVE  /\ Typed' /\ Local(g, t)
         /\ go'[g].pc = "wait" /\ go'[g].k = k /\ go'[g].steps = go[g].steps
         /\ exec'[t][k] = "running" /\ exec'[t][3 - k] = exec[t][3 - k]
         /\ starts'[t][3 - k] = starts[t][3 - k]
         /\ UNCHANGED <<rows, steps, output, file, results>>
<1>1. /\ go[g].pc = "send" /\ To(g, "wait") /\ UNCHANGED envVars
      /\ UNCHANGED <<rows, steps, results, output, file, recorded, mem>>
  BY DEF Send, rowVars, history
<1>2. /\ Tables /\ Kinds /\ Processes /\ Environment /\ t \in Tasks
      /\ k \in 1..2 /\ go[g].policies \in SUBSET Policies
  BY <1>1, WorkFacts
<1>3. /\ go' \in [Goroutines -> Go]
      /\ \A h \in Goroutines : go'[h].pc # "off" => go'[h].task \in Tasks
      /\ go'[g].pc = "wait" /\ go'[g].k = k /\ go'[g].steps = go[g].steps
      /\ go'[g].task = go[g].task
      /\ \A h \in Goroutines \ {g} : go'[h] = go[h]
  BY <1>1, <1>2, ToSet DEF Phases
<1>4. /\ exec' \in Seq(Execs) /\ Len(exec') = Len(rows)
      /\ exec'[t][k] = "running" /\ exec'[t][3 - k] = exec[t][3 - k]
      /\ \A u \in Tasks \ {t} : exec'[u] = exec[u]
  <2> DEFINE e == [exec[t] EXCEPT ![k] = "running"]
  <2>1. exec' = [exec EXCEPT ![t] = e]
    BY DEF Send
  <2>2. e \in Execs /\ e[k] = "running" /\ e[3 - k] = exec[t][3 - k]
    BY <1>2, TableFacts DEF Execs
  <2> HIDE DEF e
  <2> QED BY <1>2, <2>1, <2>2, ExecSet, ZenonT(60)
<1>5. /\ starts' \in Seq(Counts) /\ Len(starts') = Len(rows)
      /\ starts'[t][3 - k] = starts[t][3 - k]
      /\ \A u \in Tasks \ {t} : starts'[u] = starts[u]
  <2>1. starts' = [starts EXCEPT ![t][k] = @ + 1]
    BY DEF Send
  <2> QED BY <1>2, <2>1, StartSet
<1>6. sent' \in Seq(SUBSET Policies) /\ Len(sent') = Len(rows)
  <2>1. sent' = sent \/ sent' = [sent EXCEPT ![t] = go[g].policies]
    BY DEF Send
  <2> QED BY <1>2, <2>1, SentSet
<1>7. Environment'
  BY <1>1, EnvironmentKept
<1>8. Tables' /\ Kinds'
  BY <1>1, <1>2, <1>4, <1>5, <1>6 DEF Tables, Kinds, Tasks, Mirrors
<1>9. Typed'
  BY <1>1, <1>2, <1>3, <1>7, <1>8, TypedTables DEF Processes
<1>10. Local(g, t)
  BY <1>1, <1>3, <1>4, <1>5 DEF Local, Tasks
<1> QED BY <1>1, <1>3, <1>4, <1>5, <1>9, <1>10

(* A step has ended, with the status the manager makes of it.               *)
LEMMA EndStep ==
  ASSUME Typed, NEW g \in Goroutines, go[g].pc \in {"send", "wait"},
         NEW t, t = go[g].task, NEW k, k = go[g].k,
         NEW status \in ScanStepStatuses, StepEnds(g, status), UNCHANGED envVars,
         UNCHANGED <<rows, results, exec, starts, output, sent, recorded, mem>>,
         file' = file \/ file' = [file EXCEPT ![t] = output[t]]
  PROVE  /\ Typed' /\ Local(g, t)
         /\ go'[g].pc \in {"done", "judge"} /\ go'[g].k = k
         /\ go'[g].steps = [go[g].steps EXCEPT ![k] = status]
         /\ steps'[t] = [steps[t] EXCEPT ![k] = status]
<1>1. /\ Tables /\ Kinds /\ Processes /\ Environment /\ t \in Tasks
      /\ k \in 1..2 /\ go[g] \in Go /\ go[g].steps \in Two /\ go[g].policies \in SUBSET Policies
  BY WorkFacts
<1>2. /\ steps' \in Seq(Two) /\ Len(steps') = Len(rows)
      /\ steps'[t] = [steps[t] EXCEPT ![k] = status]
      /\ \A u \in Tasks \ {t} : steps'[u] = steps[u]
  <2> DEFINE x == [steps[t] EXCEPT ![k] = status]
  <2>1. steps' = [steps EXCEPT ![t] = x]
    BY DEF StepEnds, SetStep
  <2>2. x \in Two
    BY <1>1, TableFacts, StepSet
  <2> HIDE DEF x
  <2>3. /\ steps' \in Seq(Two) /\ Len(steps') = Len(rows) /\ steps'[t] = x
        /\ \A u \in Tasks \ {t} : steps'[u] = steps[u]
    BY <1>1, <2>1, <2>2, StepsSet, ZenonT(60)
  <2> QED BY <2>3 DEF x
<1>3. file' \in Seq(Findings) /\ Len(file') = Len(rows) /\ \A u \in Tasks \ {t} : file'[u] = file[u]
  BY <1>1, FileSet
<1> DEFINE pc == IF k = 1 /\ Mirrors(t) THEN "done" ELSE "judge"
           st == [go[g].steps EXCEPT ![k] = status]
           e == Moved(go[g], pc, k, st, go[g].policies)
<1>4. go' = [go EXCEPT ![g] = e]
  BY <1>1 DEF StepEnds, Moved, Processes, Go
<1>5. pc \in Phases /\ pc \in {"done", "judge"} /\ st \in Two
  BY <1>1 DEF Phases, Two
<1> HIDE DEF pc, st
<1>6. e \in Go /\ e.task = t /\ e.pc = pc /\ e.k = k /\ e.steps = st
  BY <1>1, <1>5, MovedGo
<1> HIDE DEF e
<1>7. /\ go' \in [Goroutines -> Go] /\ go'[g] = e
      /\ \A h \in Goroutines : go'[h].pc # "off" => go'[h].task \in Tasks
      /\ \A h \in Goroutines \ {g} : go'[h] = go[h]
  BY <1>1, <1>4, <1>6, GoSet
<1>8. Environment'
  BY EnvironmentKept
<1>9. Tables' /\ Kinds'
  BY <1>1, <1>2, <1>3 DEF Tables, Kinds, Tasks, Mirrors
<1>10. Typed'
  BY <1>1, <1>7, <1>8, <1>9, TypedTables DEF Processes
<1>11. Local(g, t)
  BY <1>2, <1>3, <1>6, <1>7 DEF Local, Tasks
<1> QED BY <1>2, <1>5, <1>6, <1>7, <1>10, <1>11 DEF st

(* What a status of a step makes of the task's.                             *)
LEMMA StatusTyped ==
  ASSUME NEW status \in ScanStepStatuses
  PROVE  /\ StatusOf(status) \in TaskStatuses /\ PolicyOf(status) \in PolicyStatuses
         /\ StatusOf(status) = "complete" => status = "complete"
BY DEF StatusOf, StepToTask, PolicyOf, TaskStatuses, PolicyStatuses, Verdicts, ScanStepStatuses,
       StepStatuses

LEMMA WithStepRow ==
  ASSUME Tables, Kinds, NEW t \in Tasks, NEW status \in ScanStepStatuses, WithStep(t, status)
  PROVE  /\ rows' \in Seq(Row) /\ Len(rows') = Len(rows) /\ Kinds' /\ Tasks' = Tasks
         /\ rows'[t].kind = rows[t].kind /\ rows'[t].stop = rows[t].stop
         /\ rows'[t].curr = rows[t].curr /\ rows'[t].deploy = rows[t].deploy
         /\ \A u \in Tasks \ {t} : rows'[u] = rows[u]
<1>1. rows[t] \in Row
  BY TableFacts
<1>2. /\ rows[t].curr \in 1..2 /\ rows[t].deploy \in TaskStatuses \union {"none"}
  BY <1>1 DEF Row
<1> DEFINE st == StatusOf(status)
           po == PolicyOf(status)
           row == Told(t, st, po, rows[t].curr, rows[t].deploy)
<1>3. rows' = [rows EXCEPT ![t] = row]
  BY <1>1 DEF WithStep, Row, Tables, Told
<1>4. st \in TaskStatuses /\ po \in PolicyStatuses
  BY StatusTyped
<1> HIDE DEF st, po
<1>5. /\ row \in Row /\ row.kind = rows[t].kind /\ row.stop = rows[t].stop
      /\ row.curr = rows[t].curr /\ row.deploy = rows[t].deploy
  BY <1>1, <1>2, <1>4, ToldRow
<1> HIDE DEF row
<1> QED BY <1>3, <1>5, RowChanged

(* Down: whatever the tables are.                                           *)
LEMMA DownTyped ==
  ASSUME Typed, Down, UNCHANGED <<rows, steps, exec, starts, results, file, output, sent, recorded>>,
         Environment'
  PROVE  Typed'
<1>1. /\ NoGo \in Go /\ NoGo.pc = "off"
  BY DEF NoGo, Go, Two, Phases, ScanStepStatuses, StepStatuses
<1>2. NoMem \in Mem /\ NoMem.row.last = 0 /\ Len(rows) \in Nat
  BY TableFacts DEF NoMem, Mem, EnvRow, Typed
<1>3. go' = [g \in Goroutines |-> NoGo] /\ mem' = [s \in Sessions |-> NoMem]
  BY DEF Down
<1> QED BY <1>1, <1>2, <1>3, TypedProc

LEMMA StepDoneStep ==
  ASSUME Typed, NEW g \in Goroutines, StepDone(g), NEW t, t = go[g].task
  PROVE  /\ Typed' /\ UNCHANGED <<steps, exec, starts, output, file, results>>
         /\ \/ /\ Local(g, t) /\ go'[g].pc = "results"
               /\ go'[g].k = go[g].k /\ go'[g].steps = go[g].steps
               /\ rows'[t].curr = rows[t].curr /\ rows'[t].deploy = rows[t].deploy
            \/ UNCHANGED rows /\ Down
<1>1. /\ go[g].pc = "done" /\ UNCHANGED envVars
      /\ UNCHANGED <<steps, exec, starts, output, file, results, sent, recorded>>
  BY DEF StepDone, runVars
<1>2. /\ Tables /\ Kinds /\ Processes /\ Environment /\ t \in Tasks /\ steps[t][1] \in ScanStepStatuses
  <2>1. Tables /\ Kinds /\ Processes /\ Environment /\ t \in Tasks
    BY <1>1, WorkFacts
  <2>2. steps[t] \in Two
    BY <2>1, TableFacts
  <2> QED BY <2>1, <2>2 DEF Two
<1>3. CASE Known(steps[t][1])
  <2>1. WithStep(t, steps[t][1]) /\ To(g, "results") /\ UNCHANGED mem
    BY <1>3 DEF StepDone
  <2>2. /\ rows' \in Seq(Row) /\ Len(rows') = Len(rows) /\ Kinds' /\ Tasks' = Tasks
        /\ rows'[t].kind = rows[t].kind /\ rows'[t].stop = rows[t].stop
        /\ rows'[t].curr = rows[t].curr /\ rows'[t].deploy = rows[t].deploy
        /\ \A u \in Tasks \ {t} : rows'[u] = rows[u]
    BY <1>2, <2>1, WithStepRow
  <2>3. /\ go' \in [Goroutines -> Go]
        /\ \A h \in Goroutines : go'[h].pc # "off" => go'[h].task \in Tasks
        /\ go'[g].pc = "results" /\ go'[g].k = go[g].k /\ go'[g].steps = go[g].steps
        /\ go'[g].task = go[g].task
        /\ \A h \in Goroutines \ {g} : go'[h] = go[h]
    BY <1>1, <1>2, <2>1, ToSet DEF Phases
  <2>4. Environment' /\ Tables'
    BY <1>1, <1>2, <2>2, EnvironmentKept DEF Tables
  <2>5. Typed'
    BY <1>2, <2>1, <2>2, <2>3, <2>4, TypedTables DEF Processes
  <2>6. Local(g, t)
    BY <1>1, <2>2, <2>3 DEF Local
  <2> QED BY <1>1, <2>2, <2>3, <2>5, <2>6
<1>4. CASE ~Known(steps[t][1])
  <2>1. Down /\ UNCHANGED rows
    BY <1>4 DEF StepDone
  <2>2. Environment'
    BY <1>1, <2>1, EnvironmentKept
  <2> QED BY <1>1, <2>1, <2>2, DownTyped
<1> QED BY <1>3, <1>4

LEMMA ResultsStep ==
  ASSUME Typed, NEW g \in Goroutines, Results(g), NEW t, t = go[g].task
  PROVE  /\ Typed' /\ Local(g, t) /\ go'[g].k = go[g].k /\ go'[g].steps = go[g].steps
         /\ go'[g].pc \in {"off", "judge", "settle"}
         /\ go'[g].pc = "settle" => Unrecorded(t) /\ UNCHANGED results
         /\ UNCHANGED <<rows, steps, exec, starts, output, file>>
<1>1. /\ go[g].pc = "results" /\ UNCHANGED envVars
      /\ UNCHANGED <<rows, steps, exec, starts, output, file, sent, recorded, mem>>
  BY DEF Results, runVars, history
<1>2. Tables /\ Kinds /\ Processes /\ Environment /\ t \in Tasks
  BY <1>1, WorkFacts
<1>3. PICK pc \in {"off", "judge", "settle"} : To(g, pc) /\ (pc = "settle" => Unrecorded(t) /\ UNCHANGED results)
  BY DEF Results
<1>4. /\ go' \in [Goroutines -> Go]
      /\ \A h \in Goroutines : go'[h].pc # "off" => go'[h].task \in Tasks
      /\ go'[g].pc = pc /\ go'[g].k = go[g].k /\ go'[g].steps = go[g].steps
      /\ go'[g].task = go[g].task
      /\ \A h \in Goroutines \ {g} : go'[h] = go[h]
  BY <1>1, <1>2, <1>3, ToSet DEF Phases
<1>5. /\ results' \in Seq(Shown) /\ Len(results') = Len(rows)
      /\ \A u \in Tasks \ {t} : results'[u] = results[u]
  <2>1. Cleaned(t) \in Shown
    BY DEF Cleaned, Shown
  <2>2. Saved(t) \in Shown
    <3>1. results[t] \in Shown /\ file[t] \in Findings
      BY <1>2, TableFacts
    <3>2. PICK S \in SUBSET Policies : file[t] \in [S -> Verdicts]
      BY <3>1, Zenon DEF Findings
    <3>3. \A p \in Policies : p \in DOMAIN file[t] => file[t][p] \in PolicyStatuses
      BY <3>2 DEF PolicyStatuses
    <3> QED BY <3>1, <3>3 DEF Saved, Shown, PolicyStatuses, Verdicts
  <2>3. \/ results' = results
        \/ results' = [results EXCEPT ![t] = Saved(t)]
        \/ results' = [results EXCEPT ![t] = Cleaned(t)]
    BY DEF Results
  <2> QED BY <1>2, <2>1, <2>2, <2>3, ResultSet
<1>6. Environment' /\ Tables' /\ Kinds'
  BY <1>1, <1>2, <1>5, EnvironmentKept DEF Tables, Kinds, Tasks, Mirrors
<1>7. Typed'
  BY <1>1, <1>2, <1>4, <1>6, TypedTables DEF Processes
<1>8. Local(g, t)
  BY <1>1, <1>4, <1>5 DEF Local, Tasks
<1> QED BY <1>1, <1>3, <1>4, <1>7, <1>8

LEMMA JudgeStep ==
  ASSUME Typed, NEW g \in Goroutines, Judge(g), NEW t, t = go[g].task, NEW k, k = go[g].k
  PROVE  /\ Typed' /\ Local(g, t) /\ go'[g].steps = go[g].steps
         /\ \/ /\ k = 1 /\ go'[g].k = 2 /\ go'[g].pc = "step"
               /\ go[g].steps[1] = "complete" \/ ~rows[t].stop
            \/ /\ go'[g].k = k /\ go'[g].pc = "settle"
               /\ k = 1 => go[g].steps[1] # "complete"
         /\ UNCHANGED <<rows, steps, exec, starts, output, file, results>>
<1>1. /\ go[g].pc = "judge" /\ UNCHANGED envVars
      /\ UNCHANGED <<rows, steps, exec, starts, output, file, results, sent, recorded, mem>>
  BY DEF Judge, rowVars, runVars, history
<1>2. /\ Processes /\ Environment /\ t \in Tasks /\ k \in 1..2
      /\ go[g] \in Go /\ go[g].steps \in Two /\ go[g].policies \in SUBSET Policies
  BY <1>1, WorkFacts
<1> DEFINE good == go[g].steps[k] = "complete" \/ (Mirrors(t) /\ k = 1 /\ Tolerated(t))
           on == good /\ k = 1
           pc == IF on THEN "step" ELSE "settle"
           j == IF on THEN 2 ELSE k
           e == Moved(go[g], pc, j, go[g].steps, go[g].policies)
<1>3. go' = [go EXCEPT ![g] = e]
  BY <1>2 DEF Judge, Moved, Processes, Go
<1>4. /\ pc \in Phases /\ j \in 1..2
      /\ \/ k = 1 /\ j = 2 /\ pc = "step" /\ (go[g].steps[1] = "complete" \/ ~rows[t].stop)
         \/ j = k /\ pc = "settle" /\ (k = 1 => go[g].steps[1] # "complete")
  BY <1>2 DEF Phases, Tolerated
<1> HIDE DEF pc, j
<1>5. e \in Go /\ e.task = t /\ e.pc = pc /\ e.k = j /\ e.steps = go[g].steps
  BY <1>2, <1>4, MovedGo
<1> HIDE DEF e
<1>6. /\ go' \in [Goroutines -> Go] /\ go'[g] = e
      /\ \A h \in Goroutines : go'[h].pc # "off" => go'[h].task \in Tasks
      /\ \A h \in Goroutines \ {g} : go'[h] = go[h]
  BY <1>1, <1>2, <1>3, <1>5, GoSet
<1>7. Environment'
  BY <1>1, EnvironmentKept
<1>8. Typed'
  BY <1>1, <1>2, <1>6, <1>7, TypedProc DEF Processes
<1>9. Local(g, t)
  BY <1>1, <1>5, <1>6 DEF Local, Tasks
<1> QED BY <1>1, <1>4, <1>5, <1>6, <1>8, <1>9

LEMMA SettleStep ==
  ASSUME Typed, NEW g \in Goroutines, Settle(g), NEW t, t = go[g].task
  PROVE  /\ Typed' /\ Local(g, t) /\ rows'[t].curr = rows[t].curr
         /\ Mirrors(t) => /\ go'[g].pc = "off"
                          /\ rows'[t].deploy = "complete" => steps[t][rows[t].curr] = "complete"
         /\ exec'[t] = Stopped(t)
         /\ UNCHANGED <<steps, starts, output, file, results>>
<1>1. /\ go[g].pc = "settle" /\ UNCHANGED envVars
      /\ UNCHANGED <<steps, starts, output, file, results, sent, recorded, mem>>
      /\ exec' = [exec EXCEPT ![t] = Stopped(t)]
  BY DEF Settle, history
<1>2. /\ Tables /\ Kinds /\ Processes /\ Environment /\ t \in Tasks /\ rows[t] \in Row
      /\ rows[t].curr \in 1..2 /\ rows[t].status \in TaskStatuses /\ rows[t].policy \in PolicyStatuses
  BY <1>1, WorkFacts
<1> DEFINE status == steps[t][rows[t].curr]
<1>3. status \in ScanStepStatuses /\ exec[t] \in Execs
  BY <1>2, TableFacts DEF Two
<1>4. /\ rows' \in Seq(Row) /\ Len(rows') = Len(rows) /\ Kinds' /\ Tasks' = Tasks
      /\ rows'[t].kind = rows[t].kind /\ rows'[t].stop = rows[t].stop
      /\ rows'[t].curr = rows[t].curr
      /\ Mirrors(t) /\ rows'[t].deploy = "complete" => status = "complete"
      /\ \A u \in Tasks \ {t} : rows'[u] = rows[u]
  <2>1. CASE Mirrors(t)
    <3> DEFINE st == IF rows[t].policy = "pending" THEN "failed" ELSE rows[t].status
               d == StatusOf(status)
               row == Told(t, st, rows[t].policy, rows[t].curr, d)
    <3>1. rows' = [rows EXCEPT ![t] = row]
      <4>1. rows' = [rows EXCEPT ![t].deploy = d,
                                 ![t].status = IF rows[t].policy = "pending" THEN "failed" ELSE @]
        BY <2>1 DEF Settle
      <4> HIDE DEF d
      <4> QED BY <1>2, <4>1, ZenonT(60) DEF Row, Tables, Told
    <3>2. d \in TaskStatuses /\ (d = "complete" => status = "complete")
      <4> HIDE DEF status
      <4> QED BY <1>3, StatusTyped
    <3> HIDE DEF d, status
    <3>3. /\ st \in TaskStatuses /\ d \in TaskStatuses \union {"none"}
          /\ (d # "none" <=> rows[t].deploy # "none")
      BY <1>2, <2>1, <3>2 DEF TaskStatuses, Kinds
    <3> HIDE DEF st
    <3>4. /\ row \in Row /\ row.kind = rows[t].kind /\ row.stop = rows[t].stop
          /\ row.curr = rows[t].curr /\ row.deploy = d
      BY <1>2, <3>3, ToldRow
    <3> HIDE DEF row
    <3> QED BY <1>2, <3>1, <3>2, <3>3, <3>4, RowChanged
  <2>2. CASE ~Mirrors(t)
    <3>1. WithStep(t, status)
      BY <2>2 DEF Settle
    <3> HIDE DEF status
    <3> QED BY <1>2, <1>3, <2>2, <3>1, WithStepRow
  <2> QED BY <2>1, <2>2
<1>5. PICK pc \in {"off", "results"} : To(g, pc) /\ (Mirrors(t) => pc = "off")
  BY DEF Settle
<1>6. /\ go' \in [Goroutines -> Go]
      /\ \A h \in Goroutines : go'[h].pc # "off" => go'[h].task \in Tasks
      /\ go'[g].pc = pc /\ go'[g].task = go[g].task
      /\ \A h \in Goroutines \ {g} : go'[h] = go[h]
  BY <1>1, <1>2, <1>5, ToSet DEF Phases
<1>7. /\ exec' \in Seq(Execs) /\ Len(exec') = Len(rows) /\ exec'[t] = Stopped(t)
      /\ \A u \in Tasks \ {t} : exec'[u] = exec[u]
  <2>1. Stopped(t) \in Execs
    BY <1>3 DEF Stopped, Execs
  <2> QED BY <1>1, <1>2, <2>1, ExecSet, ZenonT(60)
<1>8. Environment' /\ Tables'
  BY <1>1, <1>2, <1>4, <1>7, EnvironmentKept DEF Tables
<1>9. Typed'
  BY <1>1, <1>2, <1>4, <1>6, <1>8, TypedTables DEF Processes
<1>10. Local(g, t)
  BY <1>1, <1>4, <1>6, <1>7 DEF Local
<1> QED BY <1>1, <1>4, <1>5, <1>6, <1>7, <1>9, <1>10

(* The end of a step, whichever way it is met.                              *)
Ended(g, t, k, status) ==
    /\ go[g].pc \in {"send", "wait"}
    /\ status = "complete" => exec[t][k] = "complete"
    /\ go'[g].pc \in {"done", "judge"} /\ go'[g].k = k
    /\ go'[g].steps = [go[g].steps EXCEPT ![k] = status]
    /\ steps'[t] = [steps[t] EXCEPT ![k] = status]
    /\ UNCHANGED <<rows, results, exec, starts, output>>

LEMMA EndsStep ==
  ASSUME Typed, NEW g \in Goroutines, SendFails(g) \/ Wait(g) \/ WaitFails(g),
         NEW t, t = go[g].task, NEW k, k = go[g].k
  PROVE  Typed' /\ Local(g, t) /\ \E status \in ScanStepStatuses : Ended(g, t, k, status)
<1>1. /\ go[g].pc \in {"send", "wait"} /\ UNCHANGED envVars
      /\ UNCHANGED <<rows, results, exec, starts, output, sent, recorded, mem>>
  BY DEF SendFails, Wait, WaitFails, runVars, history
<1>2. file' = file \/ file' = [file EXCEPT ![t] = output[t]]
  BY DEF SendFails, Wait, WaitFails
<1>3. exec[t][k] \in {"none", "running", "complete", "failed", "violated"}
  BY <1>1, WorkFacts, TableFacts DEF Execs
<1>4. PICK status \in ScanStepStatuses :
        StepEnds(g, status) /\ (status = "complete" => exec[t][k] = "complete")
  <2>1. CASE Wait(g)
    <3> DEFINE status == CASE t \in marked -> "aborted"
                           [] exec[t][k] = "none" -> "failed"
                           [] OTHER -> exec[t][k]
    <3>1. StepEnds(g, status) /\ exec[t][k] # "running"
      BY <2>1 DEF Wait
    <3>2. status \in ScanStepStatuses /\ (status = "complete" => exec[t][k] = "complete")
      BY <1>3, <3>1 DEF ScanStepStatuses, StepStatuses
    <3> HIDE DEF status
    <3> QED BY <3>1, <3>2
  <2>2. CASE SendFails(g) \/ WaitFails(g)
    BY <2>2 DEF SendFails, WaitFails, ScanStepStatuses, StepStatuses
  <2> QED BY <2>1, <2>2
<1>5. /\ Typed' /\ Local(g, t) /\ go'[g].pc \in {"done", "judge"} /\ go'[g].k = k
      /\ go'[g].steps = [go[g].steps EXCEPT ![k] = status]
      /\ steps'[t] = [steps[t] EXCEPT ![k] = status]
  BY <1>1, <1>2, <1>4, EndStep
<1> QED BY <1>1, <1>4, <1>5 DEF Ended

LEMMA TypedNext == Typed /\ [Next]_vars => Typed'
<1> SUFFICES ASSUME Typed, [Next]_vars PROVE Typed'
  OBVIOUS
<1>1. CASE \E s \in Sessions : CallWrite(s) \/ \E c \in Calls : CallRead(s, c)
  BY <1>1, CallTyped
<1>2. CASE EnableScan \/ Link \/ Suppress
  BY <1>2, EditTyped
<1>3. CASE \E t \in Tasks : Abort(t) \/ \E k \in 1..2 : ExecEnds(t, k)
  BY <1>3, RunnerTyped
<1>4. CASE \/ \E g \in Goroutines, t \in Tasks : Pick(g, t) \/ Recover(g, t)
           \/ Recovered \/ Crash
  BY <1>4, ManagerTyped
<1>5. CASE \E g \in Goroutines : Work(g) \/ StartFails(g) \/ SendFails(g) \/ WaitFails(g)
  BY <1>5, BeginStep, LoadStep, StepStep, SendStep, EndsStep, StepDoneStep, ResultsStep,
     JudgeStep, SettleStep, StartFailsStep DEF Work
<1>6. CASE UNCHANGED vars
  BY <1>6, TypedProc DEF vars, envVars, rowVars, runVars, history, Typed, Processes, Environment
<1> QED BY <1>1, <1>2, <1>3, <1>4, <1>5, <1>6 DEF Next

LEMMA TypedGivesTypeOK == Typed => TypeOK
<1> SUFFICES ASSUME Typed PROVE TypeOK
  OBVIOUS
<1>1. Tables /\ Kinds /\ Processes /\ Environment
  BY DEF Typed
<1>2. env \in [enabled : BOOLEAN, stop : BOOLEAN, last : 0..Len(rows)]
  <2>1. env \in EnvRow /\ env.last \in Nat /\ env.last <= Len(rows) /\ Len(rows) \in Nat
    BY <1>1, TableFacts DEF Environment, EnvRow
  <2>2. env.last \in 0..Len(rows)
    BY <2>1
  <2> QED BY <2>1, <2>2 DEF EnvRow
<1>3. /\ linked \subseteq Policies /\ hidden \subseteq Policies /\ rows \in Seq(Row)
      /\ \A g \in Goroutines : go[g].pc # "off" => go[g].task \in Tasks
  BY <1>1 DEF Environment, Tables, Processes
<1>4. \A t \in Tasks :
         /\ steps[t] \in [1..2 -> ScanStepStatuses]
         /\ exec[t] \in [1..2 -> {"none", "running", "complete", "failed", "violated"}]
         /\ results[t] \in [Policies -> PolicyStatuses \union {"none", "suppressed"}]
         /\ file[t] \in Findings /\ output[t] \in Findings
         /\ sent[t] \subseteq Policies /\ recorded[t] \subseteq Policies
         /\ Mirrors(t) <=> rows[t].deploy # "none"
  BY <1>1, TableFacts DEF Kinds, Two, Execs, Shown
<1> QED BY <1>2, <1>3, <1>4 DEF TypeOK

(* Every task keeps one row of each kind, a deployment a status of its own, *)
(* and a goroutine works for a task there is.                               *)
THEOREM TypeCorrect == Spec => []TypeOK
BY TypedInit, TypedNext, TypedGivesTypeOK, PTL DEF Spec

-----------------------------------------------------------------------------
(* What a deployment and its scan agree on, and what the one goroutine that *)
(* works for it holds.                                                      *)
Clean(t) == \A p \in DOMAIN output[t] : output[t][p] # "violated"
On(g, t) == go[g].pc # "off" /\ go[g].task = t

(* The commands a step records, the step a stop waits for, the end.         *)
Ledger(t) ==
    /\ \A k \in 1..2 : steps[t][k] = "complete" => exec[t][k] = "complete"
    /\ exec[t][1] = "complete" => Clean(t)
    /\ rows[t].stop /\ (rows[t].curr = 2 \/ starts[t][2] > 0) => steps[t][1] = "complete"
    /\ rows[t].deploy = "complete" => exec[t][2] = "complete" \/ Unrecorded(t)

(* Its copy of the steps is the database's, but for the one it runs.        *)
Driver(g) ==
    LET t == go[g].task
        k == go[g].k
        pc == go[g].pc
    IN  /\ rows[t].deploy # "complete"
        /\ rows[t].stop /\ k = 2 => steps[t][1] = "complete"
        /\ pc \notin {"begin", "load", "step"} => rows[t].curr = k
        /\ pc \in {"step", "done", "results", "judge", "settle"} => go[g].steps = steps[t]
        /\ pc \in {"send", "wait"} =>
             steps[t][k] = "running" /\ go[g].steps[3 - k] = steps[t][3 - k]
        /\ pc = "settle" /\ k = 1 /\ steps[t][1] = "complete" => Unrecorded(t)

Alone(t) == \A g, h \in Goroutines : On(g, t) /\ On(h, t) => g = h

MirrorInv == \A t \in Tasks : Mirrors(t) =>
    Ledger(t) /\ Alone(t) /\ \A g \in Goroutines : On(g, t) => Driver(g)

LEMMA MirrorInit == Init => MirrorInv
<1> SUFFICES ASSUME Init PROVE MirrorInv
  OBVIOUS
<1>1. rows = <<>>
  BY DEF Init
<1>2. Tasks = {}
  BY <1>1, EmptySeq DEF Tasks
<1> QED BY <1>2 DEF MirrorInv

(* A step that touches one task, and at most one goroutine.                 *)
LEMMA MirrorLocal ==
  ASSUME Typed, MirrorInv, NEW t \in Tasks, Tasks' = Tasks,
         \A u \in Tasks \ {t} :
            /\ rows'[u] = rows[u] /\ steps'[u] = steps[u] /\ exec'[u] = exec[u]
            /\ starts'[u] = starts[u] /\ output'[u] = output[u]
            /\ file'[u] = file[u] /\ results'[u] = results[u],
         rows'[t].kind = rows[t].kind,
         \A h \in Goroutines : go'[h] = go[h] \/ go'[h].pc = "off" \/ go'[h].task = t,
         Mirrors(t) => Ledger(t)' /\ Alone(t)' /\ \A g \in Goroutines : On(g, t)' => Driver(g)'
  PROVE  MirrorInv'
<1> SUFFICES ASSUME NEW u \in Tasks, u # t, Mirrors(u)
             PROVE  Ledger(u)' /\ Alone(u)' /\ \A g \in Goroutines : On(g, u)' => Driver(g)'
  BY DEF MirrorInv, Mirrors
<1>1. /\ rows'[u] = rows[u] /\ steps'[u] = steps[u] /\ exec'[u] = exec[u]
      /\ starts'[u] = starts[u] /\ output'[u] = output[u]
      /\ file'[u] = file[u] /\ results'[u] = results[u]
  OBVIOUS
<1>2. Ledger(u) /\ Alone(u) /\ \A g \in Goroutines : On(g, u) => Driver(g)
  BY DEF MirrorInv
<1>3. \A g \in Goroutines : On(g, u)' => go'[g] = go[g] /\ On(g, u)
  BY DEF On
<1>4. Ledger(u)'
  BY <1>1, <1>2 DEF Ledger, Clean, Unrecorded
<1>5. Alone(u)'
  BY <1>2, <1>3 DEF Alone
<1>6. ASSUME NEW g \in Goroutines, On(g, u)' PROVE Driver(g)'
  <2>1. Driver(g) /\ go[g].task = u /\ go'[g] = go[g]
    BY <1>2, <1>3, <1>6 DEF On
  <2> QED BY <1>1, <2>1 DEF Driver, Unrecorded
<1> QED BY <1>4, <1>5, <1>6

(* A step of the goroutine of a task.                                       *)
LEMMA MirrorWork ==
  ASSUME Typed, MirrorInv, NEW g \in Goroutines, NEW t, t = go[g].task, go[g].pc # "off", Local(g, t),
         Mirrors(t) /\ Ledger(t) /\ Driver(g) => Ledger(t)' /\ (go'[g].pc # "off" => Driver(g)')
  PROVE  MirrorInv'
<1>1. t \in Tasks
  BY WorkFacts
<1>2. ASSUME Mirrors(t)
      PROVE  Ledger(t)' /\ Alone(t)' /\ \A h \in Goroutines : On(h, t)' => Driver(h)'
  <2>1. Ledger(t) /\ Alone(t) /\ Driver(g) /\ On(g, t)
    BY <1>1, <1>2 DEF MirrorInv, On
  <2>2. \A h \in Goroutines : On(h, t)' => h = g
    BY <2>1 DEF Local, Alone, On
  <2> QED BY <1>2, <2>1, <2>2 DEF Alone, On
<1>3. /\ Tasks' = Tasks
      /\ \A u \in Tasks \ {t} :
            /\ rows'[u] = rows[u] /\ steps'[u] = steps[u] /\ exec'[u] = exec[u]
            /\ starts'[u] = starts[u] /\ output'[u] = output[u]
            /\ file'[u] = file[u] /\ results'[u] = results[u]
      /\ rows'[t].kind = rows[t].kind
      /\ \A h \in Goroutines : go'[h] = go[h] \/ go'[h].pc = "off" \/ go'[h].task = t
  BY DEF Local
<1> QED BY <1>1, <1>2, <1>3, MirrorLocal

(* The steps of the goroutine, one by one.                                  *)
LEMMA MirrorBegin ==
  ASSUME Typed, MirrorInv, NEW g \in Goroutines, Begin(g),
         NEW t, t = go[g].task
  PROVE  MirrorInv'
<1>1. go[g].pc = "begin"
  BY DEF Begin
<1>2. /\ Local(g, t) /\ go'[g].pc = "load" /\ go'[g].k = go[g].k
      /\ rows'[t].curr = rows[t].curr /\ rows'[t].deploy \in {rows[t].deploy, "running"}
      /\ UNCHANGED <<steps, exec, starts, output, file, results>>
  BY BeginStep
<1>3. ASSUME Mirrors(t), Ledger(t), Driver(g) PROVE Ledger(t)' /\ Driver(g)'
  <2>1. Ledger(t)'
    BY <1>2, <1>3, SMTT(30) DEF Ledger, Clean, Unrecorded, Local
  <2>2. Driver(g)'
    BY <1>2, <1>3 DEF Driver, Local
  <2> QED BY <2>1, <2>2
<1> QED BY <1>1, <1>2, <1>3, MirrorWork

LEMMA MirrorLoad ==
  ASSUME Typed, MirrorInv, NEW g \in Goroutines, Load(g),
         NEW t, t = go[g].task
  PROVE  MirrorInv'
<1>1. go[g].pc = "load"
  BY DEF Load
<1>2. /\ Local(g, t) /\ go'[g].pc = "step" /\ go'[g].k = rows[t].curr /\ go'[g].steps = steps[t]
      /\ UNCHANGED <<rows, steps, exec, starts, output, file, results>>
  BY LoadStep
<1>3. ASSUME Mirrors(t), Ledger(t), Driver(g) PROVE Ledger(t)' /\ Driver(g)'
  <2>1. Ledger(t)'
    BY <1>2, <1>3 DEF Ledger, Clean, Unrecorded
  <2>2. Driver(g)'
    BY <1>2, <1>3 DEF Driver, Local, Ledger
  <2> QED BY <2>1, <2>2
<1> QED BY <1>1, <1>2, <1>3, MirrorWork

LEMMA MirrorStartFails ==
  ASSUME Typed, MirrorInv, NEW g \in Goroutines, StartFails(g),
         NEW t, t = go[g].task
  PROVE  MirrorInv'
<1>1. go[g].pc # "off"
  BY DEF StartFails
<1>2. /\ Local(g, t) /\ go'[g].pc = "off"
      /\ rows'[t].curr = rows[t].curr /\ rows'[t].deploy \in {rows[t].deploy, "failed"}
      /\ UNCHANGED <<steps, exec, starts, output, file, results>>
  BY StartFailsStep
<1>3. ASSUME Mirrors(t), Ledger(t), Driver(g) PROVE Ledger(t)'
  BY <1>2, <1>3 DEF Ledger, Clean, Unrecorded, Local
<1> QED BY <1>1, <1>2, <1>3, MirrorWork

LEMMA MirrorStep ==
  ASSUME Typed, MirrorInv, NEW g \in Goroutines, Step(g),
         NEW t, t = go[g].task, NEW k, k = go[g].k,
         NEW status, status = go[g].steps[k]
  PROVE  MirrorInv'
<1>1. go[g].pc = "step"
  BY DEF Step
<1>2. /\ Local(g, t) /\ go'[g].k = k /\ go'[g].steps = go[g].steps
      /\ rows'[t].curr = k /\ rows'[t].deploy = rows[t].deploy
      /\ status = "pending" => /\ go'[g].pc = "send" /\ steps'[t][k] = "running"
                               /\ steps'[t][3 - k] = steps[t][3 - k]
      /\ status # "pending" => UNCHANGED steps
      /\ status = "running" => go'[g].pc = "wait"
      /\ status \notin {"pending", "running"} => go'[g].pc \in {"done", "judge"}
      /\ UNCHANGED <<exec, starts, output, file, results>>
  BY StepStep
<1>3. k \in 1..2 /\ t \in Tasks /\ rows'[t].stop = rows[t].stop /\ go'[g].task = t
  BY <1>1, <1>2, WorkFacts DEF Local
<1>4. ASSUME Mirrors(t), Ledger(t), Driver(g) PROVE Ledger(t)' /\ Driver(g)'
  <2>1. /\ go[g].steps = steps[t] /\ (rows[t].stop /\ k = 2 => steps[t][1] = "complete")
        /\ rows[t].deploy # "complete"
    BY <1>1, <1>4 DEF Driver
  <2>2. \A j \in 1..2 : steps[t][j] = "complete" <=> steps'[t][j] = "complete"
    <3>1. CASE status = "pending"
      <4>1. \A j \in 1..2 : j = k \/ j = 3 - k
        BY <1>3
      <4> QED BY <1>2, <2>1, <3>1, <4>1
    <3>2. CASE status # "pending"
      BY <1>2, <3>2
    <3> QED BY <3>1, <3>2
  <2>3. Ledger(t)'
    <3>1. \A j \in 1..2 : steps'[t][j] = "complete" => exec'[t][j] = "complete"
      BY <1>2, <1>4, <2>2 DEF Ledger
    <3>2. exec'[t][1] = "complete" => Clean(t)'
      BY <1>2, <1>4 DEF Ledger, Clean
    <3>3. rows'[t].stop /\ (rows'[t].curr = 2 \/ starts'[t][2] > 0) => steps'[t][1] = "complete"
      BY <1>2, <1>3, <1>4, <2>1, <2>2 DEF Ledger
    <3>4. rows'[t].deploy # "complete"
      BY <1>2, <2>1
    <3> QED BY <3>1, <3>2, <3>3, <3>4 DEF Ledger
  <2>4. Driver(g)'
    <3>1. /\ rows'[t].deploy # "complete" /\ rows'[t].curr = go'[g].k
          /\ rows'[t].stop /\ k = 2 => steps'[t][1] = "complete"
      BY <1>2, <1>3, <2>1, <2>2
    <3>2. /\ go'[g].pc \in {"send", "wait", "done", "judge"}
          /\ go'[g].pc \in {"done", "judge"} => go'[g].steps = steps'[t]
          /\ go'[g].pc \in {"send", "wait"} =>
               steps'[t][k] = "running" /\ go'[g].steps[3 - k] = steps'[t][3 - k]
      BY <1>2, <2>1
    <3> QED BY <1>2, <1>3, <3>1, <3>2 DEF Driver
  <2> QED BY <2>3, <2>4
<1> QED BY <1>1, <1>2, <1>4, MirrorWork

LEMMA MirrorSend ==
  ASSUME Typed, MirrorInv, NEW g \in Goroutines, Send(g),
         NEW t, t = go[g].task, NEW k, k = go[g].k
  PROVE  MirrorInv'
<1>1. go[g].pc = "send"
  BY DEF Send
<1>2. /\ Local(g, t) /\ go'[g].pc = "wait" /\ go'[g].k = k /\ go'[g].steps = go[g].steps
      /\ exec'[t][k] = "running" /\ exec'[t][3 - k] = exec[t][3 - k]
      /\ starts'[t][3 - k] = starts[t][3 - k]
      /\ UNCHANGED <<rows, steps, output, file, results>>
  BY SendStep
<1>3. k \in 1..2 /\ t \in Tasks /\ go'[g].task = t
  BY <1>1, <1>2, WorkFacts DEF Local
<1>4. ASSUME Mirrors(t), Ledger(t), Driver(g) PROVE Ledger(t)' /\ Driver(g)'
  <2>1. /\ steps[t][k] = "running" /\ rows[t].deploy # "complete" /\ rows[t].curr = k
        /\ go[g].steps[3 - k] = steps[t][3 - k]
        /\ rows[t].stop /\ k = 2 => steps[t][1] = "complete"
    BY <1>1, <1>4 DEF Driver
  <2>2. Ledger(t)'
    <3>1. \A j \in 1..2 : steps'[t][j] = "complete" => exec'[t][j] = "complete"
      <4>1. \A j \in 1..2 : j = k \/ j = 3 - k
        BY <1>3
      <4> QED BY <1>2, <1>4, <2>1, <4>1 DEF Ledger
    <3>2. exec'[t][1] = "complete" => Clean(t)'
      <4>1. k = 1 \/ (k = 2 /\ 3 - k = 1)
        BY <1>3
      <4> QED BY <1>2, <1>4, <4>1 DEF Ledger, Clean
    <3>3. rows'[t].stop /\ (rows'[t].curr = 2 \/ starts'[t][2] > 0) => steps'[t][1] = "complete"
      <4>1. k = 2 \/ (k = 1 /\ 3 - k = 2)
        BY <1>3
      <4> QED BY <1>2, <1>4, <2>1, <4>1 DEF Ledger
    <3> QED BY <1>2, <2>1, <3>1, <3>2, <3>3 DEF Ledger
  <2>3. Driver(g)'
    BY <1>2, <1>3, <2>1 DEF Driver
  <2> QED BY <2>2, <2>3
<1> QED BY <1>1, <1>2, <1>4, MirrorWork

LEMMA MirrorEnds ==
  ASSUME Typed, MirrorInv, NEW g \in Goroutines, SendFails(g) \/ Wait(g) \/ WaitFails(g),
         NEW t, t = go[g].task, NEW k, k = go[g].k
  PROVE  MirrorInv'
<1>0. Local(g, t) /\ \E status \in ScanStepStatuses : Ended(g, t, k, status)
  BY EndsStep
<1>1. PICK status \in ScanStepStatuses :
        /\ Local(g, t) /\ go[g].pc \in {"send", "wait"}
        /\ status = "complete" => exec[t][k] = "complete"
        /\ go'[g].pc \in {"done", "judge"} /\ go'[g].k = k
        /\ go'[g].steps = [go[g].steps EXCEPT ![k] = status]
        /\ steps'[t] = [steps[t] EXCEPT ![k] = status]
        /\ UNCHANGED <<rows, results, exec, starts, output>>
  BY <1>0 DEF Ended
<1>2. k \in 1..2 /\ t \in Tasks /\ go'[g].task = t /\ go[g].steps \in Two /\ steps[t] \in Two
  <2>1. k \in 1..2 /\ t \in Tasks /\ go[g].steps \in Two /\ Tables
    BY <1>1, WorkFacts
  <2> QED BY <1>1, <2>1, TableFacts DEF Local
<1>3. ASSUME Mirrors(t), Ledger(t), Driver(g) PROVE Ledger(t)' /\ Driver(g)'
  <2>1. /\ steps[t][k] = "running" /\ rows[t].deploy # "complete" /\ rows[t].curr = k
        /\ go[g].steps[3 - k] = steps[t][3 - k]
        /\ rows[t].stop /\ k = 2 => steps[t][1] = "complete"
    BY <1>1, <1>3 DEF Driver
  <2>2. /\ steps'[t][k] = status /\ steps'[t][3 - k] = steps[t][3 - k]
        /\ go'[g].steps[k] = status /\ go'[g].steps[3 - k] = go[g].steps[3 - k]
        /\ go'[g].steps \in Two /\ steps'[t] \in Two
    BY <1>1, <1>2, StepSet
  <2>3. k = 1 \/ k = 2
    BY <1>2
  <2>4. Ledger(t)'
    <3>1. \A j \in 1..2 : steps'[t][j] = "complete" => exec'[t][j] = "complete"
      <4>1. \A j \in 1..2 : j = k \/ j = 3 - k
        BY <1>2
      <4> QED BY <1>1, <1>3, <2>2, <4>1 DEF Ledger
    <3>2. exec'[t][1] = "complete" => Clean(t)'
      BY <1>1, <1>3 DEF Ledger, Clean
    <3>3. rows'[t].stop /\ (rows'[t].curr = 2 \/ starts'[t][2] > 0) => steps'[t][1] = "complete"
      <4>1. CASE k = 1
        <5>1. steps[t][1] # "complete"
          BY <2>1, <4>1
        <5> QED BY <1>1, <1>3, <5>1 DEF Ledger
      <4>2. CASE k = 2
        <5>1. steps'[t][1] = steps[t][1]
          BY <2>2, <4>2
        <5> QED BY <1>1, <1>3, <5>1 DEF Ledger
      <4> QED BY <2>3, <4>1, <4>2
    <3> QED BY <1>1, <2>1, <3>1, <3>2, <3>3 DEF Ledger
  <2>5. Driver(g)'
    <3>1. go'[g].steps = steps'[t]
      <4>1. \A j \in 1..2 : j = k \/ j = 3 - k
        BY <1>2
      <4>2. \A j \in 1..2 : go'[g].steps[j] = steps'[t][j]
        BY <2>1, <2>2, <4>1
      <4> QED BY <2>2, <4>2 DEF Two
    <3>2. rows'[t].stop /\ k = 2 => steps'[t][1] = "complete"
      BY <1>1, <2>1, <2>2
    <3> QED BY <1>1, <1>2, <2>1, <3>1, <3>2 DEF Driver
  <2> QED BY <2>4, <2>5
<1> QED BY <1>1, <1>2, <1>3, MirrorWork

LEMMA MirrorResults ==
  ASSUME Typed, MirrorInv, NEW g \in Goroutines, Results(g), NEW t, t = go[g].task
  PROVE  MirrorInv'
<1>1. go[g].pc = "results"
  BY DEF Results
<1>2. /\ Local(g, t) /\ go'[g].k = go[g].k /\ go'[g].steps = go[g].steps
      /\ go'[g].pc \in {"off", "judge", "settle"}
      /\ go'[g].pc = "settle" => Unrecorded(t) /\ UNCHANGED results
      /\ UNCHANGED <<rows, steps, exec, starts, output, file>>
  BY ResultsStep
<1>3. ASSUME Mirrors(t), Ledger(t), Driver(g)
      PROVE  Ledger(t)' /\ (go'[g].pc # "off" => Driver(g)')
  <2>1. rows[t].deploy # "complete"
    BY <1>3 DEF Driver
  <2>2. Ledger(t)'
    BY <1>2, <1>3, <2>1 DEF Ledger, Clean
  <2>3. go'[g].pc = "settle" => Unrecorded(t)'
    BY <1>2 DEF Unrecorded
  <2>4. go'[g].pc # "off" => Driver(g)'
    BY <1>1, <1>2, <1>3, <2>3 DEF Driver, Local
  <2> QED BY <2>2, <2>4
<1> QED BY <1>1, <1>2, <1>3, MirrorWork

LEMMA MirrorJudge ==
  ASSUME Typed, MirrorInv, NEW g \in Goroutines, Judge(g), NEW t, t = go[g].task, NEW k, k = go[g].k
  PROVE  MirrorInv'
<1>1. go[g].pc = "judge"
  BY DEF Judge
<1>2. /\ Local(g, t) /\ go'[g].steps = go[g].steps
      /\ \/ /\ k = 1 /\ go'[g].k = 2 /\ go'[g].pc = "step"
            /\ go[g].steps[1] = "complete" \/ ~rows[t].stop
         \/ /\ go'[g].k = k /\ go'[g].pc = "settle"
            /\ k = 1 => go[g].steps[1] # "complete"
      /\ UNCHANGED <<rows, steps, exec, starts, output, file, results>>
  BY JudgeStep
<1>3. ASSUME Mirrors(t), Ledger(t), Driver(g) PROVE Ledger(t)' /\ Driver(g)'
  <2>1. Ledger(t)'
    BY <1>2, <1>3 DEF Ledger, Clean, Unrecorded
  <2>2. Driver(g)'
    BY <1>1, <1>2, <1>3 DEF Driver, Local
  <2> QED BY <2>1, <2>2
<1> QED BY <1>1, <1>2, <1>3, MirrorWork

LEMMA MirrorSettle ==
  ASSUME Typed, MirrorInv, NEW g \in Goroutines, Settle(g), NEW t, t = go[g].task, NEW k, k = go[g].k
  PROVE  MirrorInv'
<1>1. go[g].pc = "settle"
  BY DEF Settle
<1>2. /\ Local(g, t) /\ rows'[t].curr = rows[t].curr
      /\ Mirrors(t) => /\ go'[g].pc = "off"
                       /\ rows'[t].deploy = "complete" => steps[t][rows[t].curr] = "complete"
      /\ exec'[t] = Stopped(t)
      /\ UNCHANGED <<steps, starts, output, file, results>>
  BY SettleStep
<1>3. k \in 1..2
  BY <1>1, WorkFacts
<1>4. ASSUME Mirrors(t), Ledger(t), Driver(g) PROVE Ledger(t)'
  <2>1. \A j \in 1..2 : exec'[t][j] = "complete" <=> exec[t][j] = "complete"
    BY <1>2 DEF Stopped
  <2>2. rows'[t].deploy = "complete" => exec'[t][2] = "complete" \/ Unrecorded(t)'
    <3> SUFFICES ASSUME rows'[t].deploy = "complete" PROVE exec'[t][2] = "complete" \/ Unrecorded(t)'
      OBVIOUS
    <3>1. steps[t][k] = "complete"
      BY <1>1, <1>2, <1>4 DEF Driver
    <3>2. CASE k = 2
      BY <1>4, <2>1, <3>1, <3>2 DEF Ledger
    <3>3. CASE k = 1
      <4>1. Unrecorded(t)
        BY <1>1, <1>4, <3>1, <3>3 DEF Driver
      <4> QED BY <1>2, <4>1 DEF Unrecorded
    <3> QED BY <1>3, <3>2, <3>3
  <2>3. exec'[t][1] = "complete" => Clean(t)'
    BY <1>2, <1>4, <2>1 DEF Ledger, Clean
  <2> QED BY <1>2, <1>4, <2>1, <2>2, <2>3 DEF Ledger, Local
<1> QED BY <1>1, <1>2, <1>4, MirrorWork

(* Every goroutine dies.                                                    *)
LEMMA MirrorDown ==
  ASSUME Typed, MirrorInv, Down, UNCHANGED <<rows, steps, exec, starts, results, file, output>>
  PROVE  MirrorInv'
<1>1. \A g \in Goroutines : go'[g].pc = "off"
  BY DEF Down, NoGo
<1> SUFFICES ASSUME NEW t \in Tasks, Mirrors(t)
             PROVE  Ledger(t)' /\ Alone(t)' /\ \A g \in Goroutines : On(g, t)' => Driver(g)'
  BY DEF MirrorInv, Tasks, Mirrors
<1>2. Ledger(t)
  BY DEF MirrorInv
<1>3. Ledger(t)'
  BY <1>2 DEF Ledger, Clean, Unrecorded
<1> QED BY <1>1, <1>3 DEF Alone, On

LEMMA MirrorStepDone ==
  ASSUME Typed, MirrorInv, NEW g \in Goroutines, StepDone(g), NEW t, t = go[g].task
  PROVE  MirrorInv'
<1>1. go[g].pc = "done"
  BY DEF StepDone
<1>2. /\ UNCHANGED <<steps, exec, starts, output, file, results>>
      /\ \/ /\ Local(g, t) /\ go'[g].pc = "results"
            /\ go'[g].k = go[g].k /\ go'[g].steps = go[g].steps
            /\ rows'[t].curr = rows[t].curr /\ rows'[t].deploy = rows[t].deploy
         \/ UNCHANGED rows /\ Down
  BY StepDoneStep
<1>3. ASSUME Local(g, t), go'[g].pc = "results", go'[g].k = go[g].k, go'[g].steps = go[g].steps,
             rows'[t].curr = rows[t].curr, rows'[t].deploy = rows[t].deploy
      PROVE  MirrorInv'
  <2>1. ASSUME Mirrors(t), Ledger(t), Driver(g) PROVE Ledger(t)' /\ Driver(g)'
    <3>1. Ledger(t)'
      BY <1>2, <1>3, <2>1 DEF Ledger, Clean, Unrecorded, Local
    <3>2. Driver(g)'
      BY <1>1, <1>2, <1>3, <2>1 DEF Driver, Local
    <3> QED BY <3>1, <3>2
  <2> QED BY <1>1, <1>3, <2>1, MirrorWork
<1>4. CASE UNCHANGED rows /\ Down
  BY <1>2, <1>4, MirrorDown
<1> QED BY <1>2, <1>3, <1>4

(* The runner: a command ends, or an abort stops it.                        *)
LEMMA MirrorRunner ==
  ASSUME Typed, MirrorInv, NEW t \in Tasks, Abort(t) \/ \E k \in 1..2 : ExecEnds(t, k)
  PROVE  MirrorInv'
<1>1. /\ Tables /\ exec[t] \in Execs /\ rows[t] \in Row /\ DOMAIN rows = Tasks /\ DOMAIN exec = Tasks
      /\ DOMAIN output = Tasks
  BY TableFacts DEF Typed, Tasks
<1>2. UNCHANGED <<go, steps, results, file, starts>>
  BY DEF Abort, ExecEnds, rowVars
<1>3. /\ rows' = rows \/ rows' = [rows EXCEPT ![t].deploy = "aborted"]
      /\ DOMAIN rows' = Tasks
  BY <1>1 DEF Abort, ExecEnds, rowVars
<1>4. /\ rows'[t].kind = rows[t].kind /\ rows'[t].stop = rows[t].stop
      /\ rows'[t].curr = rows[t].curr /\ rows'[t].deploy \in {rows[t].deploy, "aborted"}
      /\ \A u \in Tasks \ {t} : rows'[u] = rows[u]
  BY <1>1, <1>3 DEF Row
<1>5. /\ \A u \in Tasks \ {t} : exec'[u] = exec[u] /\ output'[u] = output[u]
      /\ \A j \in 1..2 : exec[t][j] = "complete" => exec'[t][j] = "complete"
  <2>1. CASE Abort(t)
    BY <1>1, <2>1 DEF Abort, Execs
  <2>2. ASSUME NEW k \in 1..2, ExecEnds(t, k)
        PROVE  /\ \A u \in Tasks \ {t} : exec'[u] = exec[u] /\ output'[u] = output[u]
               /\ \A j \in 1..2 : exec[t][j] = "complete" => exec'[t][j] = "complete"
    BY <1>1, <2>2 DEF ExecEnds, Execs
  <2> QED BY <2>1, <2>2
<1>6. Mirrors(t) /\ exec'[t][1] = "complete" /\ (exec[t][1] = "complete" => Clean(t)) => Clean(t)'
  <2> SUFFICES ASSUME Mirrors(t), exec'[t][1] = "complete", exec[t][1] = "complete" => Clean(t)
               PROVE  Clean(t)'
    OBVIOUS
  <2>1. CASE output' = output /\ exec[t][1] = "complete"
    BY <2>1 DEF Clean
  <2>2. ASSUME NEW read \in SUBSET sent[t], NEW found \in [read -> Verdicts],
               output' = [output EXCEPT ![t] = found],
               exec' = [exec EXCEPT ![t][1] =
                     IF \E p \in read : found[p] = "violated" THEN "violated" ELSE "complete"]
        PROVE  Clean(t)'
    <3>1. ~\E p \in read : found[p] = "violated"
      BY <1>1, <2>2 DEF Execs
    <3>2. output'[t] = found
      BY <1>1, <2>2
    <3> QED BY <3>1, <3>2 DEF Clean
  <2>3. CASE Abort(t)
    BY <1>1, <2>1, <2>3 DEF Abort, Execs
  <2>4. ASSUME NEW k \in 1..2, ExecEnds(t, k) PROVE Clean(t)'
    <3>1. CASE k = 1
      BY <1>1, <2>2, <2>4, <3>1 DEF ExecEnds, ScanStep, Execs
    <3>2. CASE k = 2
      BY <1>1, <2>1, <2>4, <3>2 DEF ExecEnds, ScanStep, Execs
    <3> QED BY <3>1, <3>2
  <2> QED BY <2>3, <2>4
<1>7. ASSUME Mirrors(t)
      PROVE  Ledger(t)' /\ Alone(t)' /\ \A g \in Goroutines : On(g, t)' => Driver(g)'
  <2>1. Ledger(t) /\ Alone(t) /\ \A g \in Goroutines : On(g, t) => Driver(g)
    BY <1>7 DEF MirrorInv
  <2>2. Ledger(t)'
    BY <1>2, <1>4, <1>5, <1>6, <1>7, <2>1 DEF Ledger, Unrecorded
  <2>3. ASSUME NEW g \in Goroutines, On(g, t)' PROVE Driver(g)'
    <3>1. Driver(g) /\ go'[g] = go[g] /\ go[g].task = t
      BY <1>2, <2>1, <2>3 DEF On
    <3> QED BY <1>2, <1>4, <3>1 DEF Driver, Unrecorded
  <2> QED BY <1>2, <2>1, <2>2, <2>3 DEF Alone, On
<1>8. Tasks' = Tasks
  BY <1>3 DEF Tasks
<1> QED BY <1>2, <1>4, <1>5, <1>7, <1>8, MirrorLocal

(* The goroutines that begin.                                               *)
LEMMA MirrorSpawn ==
  ASSUME Typed, MirrorInv, NEW g \in Goroutines, NEW t \in Tasks, Pick(g, t) \/ Recover(g, t)
  PROVE  MirrorInv'
<1>1. /\ go[g].pc = "off" /\ UNCHANGED <<rows, steps, exec, starts, results, file, output>>
      /\ go \in [Goroutines -> Go]
  BY DEF Pick, Recover, rowVars, runVars, Typed, Processes
<1>2. PICK new \in BOOLEAN : Spawn(g, t, new)
  BY DEF Pick, Recover
<1>3. /\ go'[g].pc = "begin" /\ go'[g].task = t /\ go'[g].k = 1
      /\ \A h \in Goroutines \ {g} : go'[h] = go[h]
  BY <1>1, <1>2 DEF Spawn, NoGo
<1>4. ASSUME Mirrors(t)
      PROVE  Ledger(t)' /\ Alone(t)' /\ \A h \in Goroutines : On(h, t)' => Driver(h)'
  <2>1. Ledger(t)
    BY <1>4 DEF MirrorInv
  <2>2. Ledger(t)'
    BY <1>1, <2>1 DEF Ledger, Clean, Unrecorded
  <2>3. rows[t].deploy # "complete" /\ ~Busy(t)
    BY <1>4 DEF Pick, Recover, Lost
  <2>4. \A h \in Goroutines : On(h, t)' => h = g
    BY <1>3, <2>3 DEF Busy, On
  <2>5. Driver(g)'
    BY <1>1, <1>3, <2>3 DEF Driver
  <2> QED BY <2>2, <2>4, <2>5 DEF Alone
<1>5. Tasks' = Tasks
  BY <1>1 DEF Tasks
<1> QED BY <1>1, <1>3, <1>4, <1>5, MirrorLocal

(* A task is created.                                                       *)
LEMMA CreateStep ==
  ASSUME Typed, Typed', NEW s \in Sessions, CallWrite(s), NEW n, n = Len(rows)
  PROVE  /\ n \in Nat /\ Tasks = 1..n /\ Tasks' = 1..(n + 1) /\ UNCHANGED <<go, cut, unstarted>>
         /\ rows'[n + 1].status = "pending" /\ rows'[n + 1].policy = "pending"
         /\ rows'[n + 1].curr = 1 /\ rows'[n + 1].deploy \in {"pending", "none"}
         /\ steps'[n + 1] = <<"pending", "pending">> /\ exec'[n + 1] = <<"none", "none">>
         /\ starts'[n + 1][2] = 0 /\ file'[n + 1] = Nothing
         /\ \A p \in Policies : results'[n + 1][p] \in {"pending", "suppressed", "none"}
         /\ \A u \in Tasks :
               /\ rows'[u] = rows[u] /\ steps'[u] = steps[u] /\ exec'[u] = exec[u]
               /\ starts'[u] = starts[u] /\ output'[u] = output[u]
               /\ file'[u] = file[u] /\ results'[u] = results[u]
<1>1. /\ Tables /\ Tables' /\ n \in Nat /\ Tasks = 1..n /\ UNCHANGED <<go, cut, unstarted>>
  BY TableFacts DEF Typed, CallWrite
<1>2. PICK kind, stop, d, row, l, h :
        /\ rows' = Append(rows, [kind |-> kind, status |-> "pending", policy |-> "pending",
                                 curr |-> 1, stop |-> stop, deploy |-> d])
        /\ d \in {"pending", "none"} /\ results' = Append(results, NewResults(row, l, h))
  BY DEF CallWrite
<1>3. /\ steps' = Append(steps, <<"pending", "pending">>)
      /\ file' = Append(file, Nothing) /\ output' = Append(output, Nothing)
      /\ exec' = Append(exec, <<"none", "none">>) /\ starts' = Append(starts, <<0, 0>>)
  BY DEF CallWrite
<1> DEFINE told == [kind |-> kind, status |-> "pending", policy |-> "pending",
                   curr |-> 1, stop |-> stop, deploy |-> d]
           new == NewResults(row, l, h)
<1>4. /\ rows \in Seq(Row) /\ steps \in Seq(Two) /\ exec \in Seq(Execs) /\ starts \in Seq(Counts)
      /\ results \in Seq(Shown) /\ file \in Seq(Findings) /\ output \in Seq(Findings)
      /\ Len(steps) = n /\ Len(exec) = n /\ Len(starts) = n /\ Len(results) = n
      /\ Len(file) = n /\ Len(output) = n /\ Len(rows) = n
  BY <1>1 DEF Tables
<1>5. /\ told.status = "pending" /\ told.policy = "pending" /\ told.curr = 1
      /\ told.deploy \in {"pending", "none"} /\ rows' = Append(rows, told)
  BY <1>2
<1>6. \A p \in Policies : new[p] \in {"pending", "suppressed", "none"}
  BY DEF NewResults
<1> HIDE DEF told, new, Row, Two, Execs, Counts, Shown, Findings, Nothing
<1>7. /\ Len(rows') = n + 1 /\ rows'[n + 1] = told /\ \A u \in 1..n : rows'[u] = rows[u]
  BY <1>1, <1>4, <1>5
<1>8. steps'[n + 1] = <<"pending", "pending">> /\ \A u \in 1..n : steps'[u] = steps[u]
  <2>1. <<"pending", "pending">> \in Two
    BY DEF Two, ScanStepStatuses, StepStatuses
  <2> QED BY <1>1, <1>3, <1>4, <2>1, Added, SMTT(30)
<1>9. exec'[n + 1] = <<"none", "none">> /\ \A u \in 1..n : exec'[u] = exec[u]
  <2>1. <<"none", "none">> \in Execs
    BY DEF Execs
  <2> QED BY <1>1, <1>3, <1>4, <2>1, Added
<1>10. starts'[n + 1] = <<0, 0>> /\ \A u \in 1..n : starts'[u] = starts[u]
  BY <1>1, <1>3, <1>4
<1>11. file'[n + 1] = Nothing /\ \A u \in 1..n : output'[u] = output[u] /\ file'[u] = file[u]
  BY <1>1, <1>3, <1>4
<1>12. results'[n + 1] = new /\ \A u \in 1..n : results'[u] = results[u]
  <2>1. results' = Append(results, new)
    BY <1>2 DEF new
  <2> QED BY <1>1, <1>4, <2>1
<1>13. Tasks' = 1..(n + 1)
  <2>1. Tasks' = 1..Len(rows')
    BY <1>1, LenProperties DEF Tables, Tasks
  <2> QED BY <1>7, <2>1
<1> QED BY <1>1, <1>5, <1>6, <1>7, <1>8, <1>9, <1>10, <1>11, <1>12, <1>13

LEMMA MirrorCreate ==
  ASSUME Typed, Typed', MirrorInv, NEW s \in Sessions, CallWrite(s)
  PROVE  MirrorInv'
<1> DEFINE n == Len(rows)
<1>1. Tables /\ n \in Nat /\ Tasks = 1..n /\ UNCHANGED go
  BY TableFacts DEF Typed, CallWrite
<1>2. /\ rows'[n + 1].deploy # "complete" /\ rows'[n + 1].curr = 1 /\ starts'[n + 1][2] = 0
      /\ steps'[n + 1] = <<"pending", "pending">> /\ exec'[n + 1] = <<"none", "none">>
      /\ Tasks' = 1..(n + 1)
      /\ \A u \in Tasks :
            /\ rows'[u] = rows[u] /\ steps'[u] = steps[u] /\ exec'[u] = exec[u]
            /\ starts'[u] = starts[u] /\ output'[u] = output[u]
            /\ file'[u] = file[u] /\ results'[u] = results[u]
  <2> HIDE DEF n
  <2> QED BY CreateStep DEF n
<1> SUFFICES ASSUME NEW u \in Tasks', Mirrors(u)'
             PROVE  Ledger(u)' /\ Alone(u)' /\ \A g \in Goroutines : On(g, u)' => Driver(g)'
  BY DEF MirrorInv
<1>3. CASE u \in Tasks
  <2>1. /\ rows'[u] = rows[u] /\ steps'[u] = steps[u] /\ exec'[u] = exec[u]
        /\ starts'[u] = starts[u] /\ output'[u] = output[u]
        /\ file'[u] = file[u] /\ results'[u] = results[u]
    BY <1>2, <1>3
  <2>2. Ledger(u) /\ Alone(u) /\ \A g \in Goroutines : On(g, u) => Driver(g)
    BY <1>3, <2>1 DEF MirrorInv, Mirrors
  <2>3. Ledger(u)'
    BY <2>1, <2>2 DEF Ledger, Clean, Unrecorded
  <2>4. Alone(u)'
    BY <1>1, <2>2 DEF Alone, On
  <2>5. ASSUME NEW g \in Goroutines, On(g, u)' PROVE Driver(g)'
    <3>1. Driver(g) /\ go[g].task = u /\ go' = go
      BY <1>1, <2>2, <2>5 DEF On
    <3> QED BY <2>1, <3>1 DEF Driver, Unrecorded
  <2> QED BY <2>3, <2>4, <2>5
<1>4. CASE u = n + 1
  <2>1. \A g \in Goroutines : ~On(g, u)'
    <3>1. \A g \in Goroutines : go[g].pc # "off" => go[g].task \in 1..n
      BY <1>1 DEF Typed, Processes
    <3> HIDE DEF n
    <3>2. u \notin 1..n
      BY <1>1, <1>4
    <3> QED BY <1>1, <3>1, <3>2 DEF On
  <2>2. Ledger(u)'
    BY <1>2, <1>4 DEF Ledger
  <2> QED BY <2>1, <2>2 DEF Alone
<1>5. u \in Tasks \/ u = n + 1
  <2>1. n \in Nat /\ u \in 1..(n + 1) /\ Tasks = 1..n
    BY <1>1, <1>2
  <2> HIDE DEF n
  <2> QED BY <2>1
<1> QED BY <1>3, <1>4, <1>5

LEMMA MirrorNext == Typed /\ Typed' /\ MirrorInv /\ [Next]_vars => MirrorInv'
<1> SUFFICES ASSUME Typed, Typed', MirrorInv, [Next]_vars PROVE MirrorInv'
  OBVIOUS
<1>1. ASSUME NEW s \in Sessions, CallWrite(s) PROVE MirrorInv'
  BY <1>1, MirrorCreate
<1>2. ASSUME UNCHANGED <<rows, steps, exec, starts, results, file, output, go>> PROVE MirrorInv'
  <2> SUFFICES ASSUME NEW t \in Tasks, Mirrors(t)
               PROVE  Ledger(t)' /\ Alone(t)' /\ \A g \in Goroutines : On(g, t)' => Driver(g)'
    BY <1>2 DEF MirrorInv, Tasks, Mirrors
  <2>1. Ledger(t) /\ Alone(t) /\ \A g \in Goroutines : On(g, t) => Driver(g)
    BY DEF MirrorInv
  <2>2. Ledger(t)' /\ Alone(t)'
    BY <1>2, <2>1 DEF Ledger, Clean, Unrecorded, Alone, On
  <2>3. \A g \in Goroutines : On(g, t)' => Driver(g)'
    BY <1>2, <2>1 DEF On, Driver, Unrecorded
  <2> QED BY <2>2, <2>3
<1>3. CASE \/ \E s \in Sessions, c \in Calls : CallRead(s, c)
           \/ EnableScan \/ Link \/ Suppress \/ Recovered \/ UNCHANGED vars
  BY <1>2, <1>3 DEF CallRead, EnableScan, Link, Suppress, Recovered, vars, rowVars, runVars
<1>4. CASE \E t \in Tasks : Abort(t) \/ \E k \in 1..2 : ExecEnds(t, k)
  BY <1>4, MirrorRunner
<1>5. CASE \E g \in Goroutines, t \in Tasks : Pick(g, t) \/ Recover(g, t)
  BY <1>5, MirrorSpawn
<1>6. CASE Crash
  BY <1>6, MirrorDown DEF Crash, rowVars, runVars
<1>7. CASE \E g \in Goroutines : Work(g) \/ StartFails(g) \/ SendFails(g) \/ WaitFails(g)
  BY <1>7, MirrorBegin, MirrorLoad, MirrorStep, MirrorSend, MirrorEnds, MirrorStepDone,
     MirrorResults, MirrorJudge, MirrorSettle, MirrorStartFails DEF Work
<1> QED BY <1>1, <1>3, <1>4, <1>5, <1>6, <1>7 DEF Next

(* A deployment that stops on violations applies nothing unless its scan    *)
(* completed and found none, whatever dies on the way.                      *)
THEOREM StopCorrect == Spec => []StopsOnViolation
<1>1. Typed /\ MirrorInv => StopsOnViolation
  <2> SUFFICES ASSUME Typed, MirrorInv, NEW t \in Tasks, Mirrors(t), rows[t].stop, starts[t][2] > 0
               PROVE  exec[t][1] = "complete" /\ \A p \in DOMAIN output[t] : output[t][p] # "violated"
    BY DEF StopsOnViolation
  <2>1. Ledger(t)
    BY DEF MirrorInv
  <2> QED BY <2>1 DEF Ledger, Clean
<1> QED BY <1>1, TypedInit, TypedNext, MirrorInit, MirrorNext, PTL DEF Spec

(* A deployment is complete only if its apply step was, or the scan found   *)
(* something no result row was made for.                                    *)
THEOREM CompleteCorrect == Spec => []CompleteMeansApplied
<1>1. Typed /\ MirrorInv => CompleteMeansApplied
  BY DEF MirrorInv, Ledger, CompleteMeansApplied
<1> QED BY <1>1, TypedInit, TypedNext, MirrorInit, MirrorNext, PTL DEF Spec

-----------------------------------------------------------------------------
(* What a scan leaves, where no round of the main loop overtakes the first  *)
(* write of a goroutine it has started.                                     *)
Open == {"pending", "running"}
Ran(t) == steps[t][ScanStep(t)]
Filed(t) == \E p \in DOMAIN file[t] : file[t][p] = "violated"

(* The results are those the task was created with, ...                     *)
Untouched(t) == \A p \in Policies : results[t][p] \in {"pending", "suppressed", "none"}

(* ... or say of each policy what the scan says as a whole, ...             *)
Agreed(t) ==
    /\ rows[t].policy # "pending" /\ \A p \in Policies : results[t][p] # "pending"
    /\ rows[t].policy = "violated" =>
         file[t] = Nothing \/ \E p \in Policies : results[t][p] = "violated"
    /\ rows[t].policy = "failed" => \A p \in Policies : results[t][p] = "none"
    /\ rows[t].policy = "passed" => \A p \in Policies : results[t][p] # "violated"

(* ... unless a finding has no row.                                         *)
Done(t) == Agreed(t) \/ Unrecorded(t)

(* The command, the file and the status of the scan step go together.       *)
Filing(t) ==
    /\ exec[t][ScanStep(t)] = "complete" => Clean(t)
    /\ exec[t][ScanStep(t)] = "violated" => ~Clean(t)
    /\ ~Mirrors(t) => exec[t][1] # "violated" /\ steps[t][1] # "violated"
    /\ Ran(t) \in Open => file[t] = Nothing
    /\ Ran(t) = "violated" => file[t] = Nothing \/ Filed(t)
    /\ Ran(t) = "complete" => ~Filed(t)

(* What a task tells a successor, who may come at any time; ...             *)
MirrorLeft(t) ==
    /\ rows[t].deploy = "pending" => Ran(t) = "pending"
    /\ rows[t].policy # "pending" => Ran(t) \notin Open /\ rows[t].policy = PolicyOf(Ran(t))
    /\ rows[t].policy = "pending" => Untouched(t)
    /\ Untouched(t) \/ Agreed(t)
    /\ rows[t].curr = 2 => Done(t)
ScanLeft(t) == rows[t].status \in Open => Untouched(t)
Left(t) == IF Mirrors(t) THEN MirrorLeft(t) ELSE ScanLeft(t)

(* ... what it is once nobody works for it; ...                             *)
Rest(t) ==
    IF Mirrors(t) THEN rows[t].deploy \notin Open => Done(t) \/ Ran(t) = "pending"
    ELSE rows[t].status \notin Open /\ t \notin cut => Done(t)

(* ... and what its goroutine holds of it, of a deployment, ...             *)
MirrorDriver(g) ==
    LET t == go[g].task
        pc == go[g].pc
    IN  /\ IF pc = "begin" /\ go[g].new THEN Ran(t) = "pending" ELSE rows[t].deploy = "running"
        /\ go[g].k = 2 \/ pc \in {"judge", "settle"} => Done(t)
        /\ pc \in {"judge", "settle"} => steps[t][go[g].k] \notin Open
        /\ pc \in {"done", "results"} => go[g].k = 1 /\ Ran(t) \notin Open
        /\ pc = "results" => rows[t].policy # "pending"

(* ... of a scan task, ...                                                  *)
ScanDriver(g) ==
    LET t == go[g].task
        k == go[g].k
        pc == go[g].pc
    IN  /\ Untouched(t) /\ pc # "done"
        /\ pc # "results" => rows[t].status \in Open
        /\ pc = "results" => /\ rows[t].status \notin Open
                             /\ rows[t].policy # "pending" /\ rows[t].policy = PolicyOf(steps[t][k])
                             /\ k = 1 => rows[t].policy = "failed"
        /\ pc \in {"judge", "settle"} => steps[t][k] \notin Open
        /\ pc = "settle" /\ k = 1 => steps[t][1] # "complete"

(* ... of both.                                                             *)
Drives(g) ==
    LET t == go[g].task
        k == go[g].k
        pc == go[g].pc
    IN  /\ pc \notin {"begin", "load", "step"} => rows[t].curr = k
        /\ pc \in {"step", "done", "results", "judge", "settle"} => go[g].steps = steps[t]
        /\ pc \in {"send", "wait"} =>
             steps[t][k] = "running" /\ go[g].steps[3 - k] = steps[t][3 - k]
        /\ IF Mirrors(t) THEN MirrorDriver(g) ELSE ScanDriver(g)

Good(t) ==
    /\ Alone(t)
    /\ t \notin unstarted => /\ Filing(t) /\ Left(t) /\ (~Busy(t) => Rest(t))
                             /\ \A g \in Goroutines : On(g, t) => Drives(g)
AgreeInv == \A t \in Tasks : Good(t)

LEMMA AgreeInit == Init => AgreeInv
<1> SUFFICES ASSUME Init PROVE AgreeInv
  OBVIOUS
<1>1. rows = <<>>
  BY DEF Init
<1>2. Tasks = {}
  BY <1>1, EmptySeq DEF Tasks
<1> QED BY <1>2 DEF AgreeInv

(* A step that leaves the results of a task alone.                          *)
LEMMA ResultsKept ==
  ASSUME NEW t \in Tasks, results'[t] = results[t], file'[t] = file[t],
         rows'[t].policy = rows[t].policy
  PROVE  /\ Untouched(t)' <=> Untouched(t)
         /\ Agreed(t)' <=> Agreed(t)
         /\ Done(t)' <=> Done(t)
<1>1. Unrecorded(t)' <=> Unrecorded(t)
  BY DEF Unrecorded
<1>2. Untouched(t)' <=> Untouched(t)
  BY DEF Untouched
<1>3. Agreed(t)' <=> Agreed(t)
  BY DEF Agreed
<1> QED BY <1>1, <1>2, <1>3 DEF Done

(* A step that leaves the command and the file of the scan alone.           *)
LEMMA FilingKept ==
  ASSUME NEW t \in Tasks, Filing(t), rows'[t].kind = rows[t].kind,
         exec'[t] = exec[t], output'[t] = output[t], file'[t] = file[t],
         Ran(t)' = Ran(t) \/ (Ran(t) \in Open /\ Ran(t)' \in Open),
         steps'[t][1] = "violated" => steps[t][1] = "violated"
  PROVE  Filing(t)'
<1>1. /\ ScanStep(t)' = ScanStep(t) /\ (Mirrors(t)' <=> Mirrors(t))
      /\ (Clean(t)' <=> Clean(t)) /\ (Filed(t)' <=> Filed(t))
  BY DEF ScanStep, Mirrors, Clean, Filed
<1> QED BY <1>1 DEF Filing, Open

(* A task that a step does not touch.                                       *)
LEMMA GoodKept ==
  ASSUME NEW t \in Tasks, Good(t),
         rows'[t] = rows[t], steps'[t] = steps[t], exec'[t] = exec[t],
         output'[t] = output[t], file'[t] = file[t], results'[t] = results[t],
         \A h \in Goroutines : On(h, t) \/ On(h, t)' => go'[h] = go[h],
         t \in unstarted => t \in unstarted', t \in cut => t \in cut'
  PROVE  Good(t)'
<1>1. /\ Untouched(t)' <=> Untouched(t)
      /\ Agreed(t)' <=> Agreed(t)
      /\ Done(t)' <=> Done(t)
  BY ResultsKept
<1>2. Ran(t)' = Ran(t) /\ (Mirrors(t)' <=> Mirrors(t))
  BY DEF Ran, ScanStep, Mirrors
<1>3. Filing(t) => Filing(t)'
  BY <1>2, FilingKept
<1>4. \A h \in Goroutines : On(h, t)' <=> On(h, t)
  BY DEF On
<1>5. Alone(t)' /\ (Busy(t)' <=> Busy(t))
  <2>1. Alone(t)'
    BY <1>4 DEF Alone, Good
  <2>2. Busy(t)' <=> Busy(t)
    BY <1>4 DEF Busy, On
  <2> QED BY <2>1, <2>2
<1> SUFFICES ASSUME t \notin unstarted'
             PROVE  /\ Filing(t)' /\ Left(t)' /\ (~Busy(t)' => Rest(t)')
                    /\ \A g \in Goroutines : On(g, t)' => Drives(g)'
  BY <1>5 DEF Good
<1>6. /\ Filing(t) /\ Left(t) /\ (~Busy(t) => Rest(t))
      /\ \A g \in Goroutines : On(g, t) => Drives(g)
  BY DEF Good
<1>7. Left(t)'
  BY <1>1, <1>2, <1>6 DEF Left, MirrorLeft, ScanLeft
<1>8. ~Busy(t)' => Rest(t)'
  BY <1>1, <1>2, <1>5, <1>6 DEF Rest
<1>9. ASSUME NEW g \in Goroutines, On(g, t)' PROVE Drives(g)'
  <2>1. Drives(g) /\ go'[g] = go[g] /\ go[g].task = t
    BY <1>4, <1>6, <1>9 DEF On
  <2> QED BY <1>1, <1>2, <2>1 DEF Drives, MirrorDriver, ScanDriver
<1> QED BY <1>3, <1>6, <1>7, <1>8, <1>9

(* A step of the goroutine of a task.                                       *)
LEMMA AgreeWork ==
  ASSUME Typed, AgreeInv, NEW g \in Goroutines, NEW t, t = go[g].task, go[g].pc # "off", Local(g, t),
         UNCHANGED cut, unstarted \subseteq unstarted',
         Filing(t) /\ Left(t) /\ Drives(g) /\ t \notin unstarted' =>
           Filing(t)' /\ Left(t)' /\ IF go'[g].pc = "off" THEN Rest(t)' ELSE Drives(g)'
  PROVE  AgreeInv'
<1>1. t \in Tasks /\ Good(t) /\ On(g, t)
  BY WorkFacts DEF AgreeInv, On
<1>2. \A h \in Goroutines : On(h, t)' => h = g
  BY <1>1 DEF Local, Good, Alone, On
<1>3. Good(t)'
  <2>1. Alone(t)'
    BY <1>2 DEF Alone
  <2> SUFFICES ASSUME t \notin unstarted'
               PROVE  /\ Filing(t)' /\ Left(t)' /\ (~Busy(t)' => Rest(t)')
                      /\ \A h \in Goroutines : On(h, t)' => Drives(h)'
    BY <2>1 DEF Good
  <2>2. Filing(t)' /\ Left(t)' /\ IF go'[g].pc = "off" THEN Rest(t)' ELSE Drives(g)'
    BY <1>1 DEF Good
  <2>3. go'[g].pc # "off" => Busy(t)'
    BY DEF Busy, Local
  <2> QED BY <1>2, <2>2, <2>3 DEF On
<1>4. ASSUME NEW u \in Tasks, u # t PROVE Good(u)'
  <2>1. Good(u)
    BY <1>4 DEF AgreeInv
  <2>2. \A h \in Goroutines : On(h, u) \/ On(h, u)' => go'[h] = go[h]
    BY <1>4 DEF Local, On
  <2> QED BY <1>4, <2>1, <2>2, GoodKept DEF Local
<1> QED BY <1>3, <1>4 DEF AgreeInv, Local

(* The steps of the goroutine, one by one.                                  *)
LEMMA AgreeBegin ==
  ASSUME Typed, AgreeInv, NEW g \in Goroutines, Begin(g), NEW t, t = go[g].task
  PROVE  AgreeInv'
<1>1. go[g].pc = "begin" /\ UNCHANGED <<cut, unstarted>>
  BY DEF Begin, history
<1>2. /\ Local(g, t) /\ go'[g].pc = "load" /\ go'[g].k = go[g].k /\ go'[g].task = t
      /\ rows'[t].kind = rows[t].kind /\ rows'[t].curr = rows[t].curr
      /\ UNCHANGED <<steps, exec, output, file, results>>
  BY BeginStep DEF Local
<1>3. /\ rows'[t].policy = rows[t].policy
      /\ go[g].new => rows'[t].status = "running" /\ (Mirrors(t) => rows'[t].deploy = "running")
      /\ ~go[g].new => rows'[t] = rows[t]
  <2>1. t \in DOMAIN rows /\ rows[t] \in Row
    BY <1>1, WorkFacts DEF Tasks
  <2>2. rows' = IF go[g].new
                THEN [rows EXCEPT ![t].status = "running",
                                  ![t].deploy = IF Mirrors(t) THEN "running" ELSE @]
                ELSE rows
    BY DEF Begin
  <2> QED BY <2>1, <2>2 DEF Row
<1>4. t \in Tasks
  BY <1>1, WorkFacts
<1>5. /\ Ran(t)' = Ran(t) /\ (Mirrors(t)' <=> Mirrors(t))
      /\ (Untouched(t)' <=> Untouched(t)) /\ (Agreed(t)' <=> Agreed(t)) /\ (Done(t)' <=> Done(t))
  BY <1>2, <1>3, <1>4, ResultsKept DEF Ran, ScanStep, Mirrors
<1>6. ASSUME Filing(t) PROVE Filing(t)'
  BY <1>2, <1>4, <1>5, <1>6, FilingKept
<1>7. ASSUME Left(t), Drives(g) PROVE Left(t)' /\ Drives(g)'
  <2>1. CASE Mirrors(t)
    <3>1. MirrorLeft(t) /\ MirrorDriver(g)
      BY <1>7, <2>1 DEF Left, Drives
    <3>2. rows'[t].deploy = "running"
      BY <1>1, <1>3, <2>1, <3>1 DEF MirrorDriver
    <3>3. MirrorLeft(t)'
      BY <1>2, <1>3, <1>5, <3>1, <3>2 DEF MirrorLeft
    <3>4. MirrorDriver(g)'
      BY <1>1, <1>2, <1>5, <3>1, <3>2 DEF MirrorDriver
    <3> QED BY <1>2, <1>5, <2>1, <3>3, <3>4 DEF Left, Drives
  <2>2. CASE ~Mirrors(t)
    <3>1. ScanLeft(t) /\ ScanDriver(g)
      BY <1>7, <2>2 DEF Left, Drives
    <3>2. rows'[t].status \in Open
      BY <1>1, <1>3, <3>1 DEF ScanDriver, Open
    <3> QED BY <1>1, <1>2, <1>5, <2>2, <3>1, <3>2 DEF Left, Drives, ScanLeft, ScanDriver
  <2> QED BY <2>1, <2>2
<1> QED BY <1>1, <1>2, <1>6, <1>7, AgreeWork

LEMMA AgreeLoad ==
  ASSUME Typed, AgreeInv, NEW g \in Goroutines, Load(g), NEW t, t = go[g].task
  PROVE  AgreeInv'
<1>1. go[g].pc = "load" /\ UNCHANGED <<cut, unstarted>>
  BY DEF Load, history
<1>2. /\ Local(g, t) /\ go'[g].pc = "step" /\ go'[g].k = rows[t].curr /\ go'[g].steps = steps[t]
      /\ go'[g].task = t /\ UNCHANGED <<rows, steps, exec, starts, output, file, results>>
  BY LoadStep DEF Local
<1>4. t \in Tasks
  BY <1>1, WorkFacts
<1>5. /\ Ran(t)' = Ran(t) /\ (Mirrors(t)' <=> Mirrors(t))
      /\ (Untouched(t)' <=> Untouched(t)) /\ (Agreed(t)' <=> Agreed(t)) /\ (Done(t)' <=> Done(t))
  BY <1>2, <1>4, ResultsKept DEF Ran, ScanStep, Mirrors
<1>6. ASSUME Filing(t) PROVE Filing(t)'
  BY <1>2, <1>4, <1>5, <1>6, FilingKept
<1>7. ASSUME Left(t), Drives(g) PROVE Left(t)' /\ Drives(g)'
  <2>1. CASE Mirrors(t)
    BY <1>1, <1>2, <1>5, <1>7, <2>1 DEF Left, Drives, MirrorLeft, MirrorDriver
  <2>2. CASE ~Mirrors(t)
    BY <1>1, <1>2, <1>5, <1>7, <2>2 DEF Left, Drives, ScanLeft, ScanDriver
  <2> QED BY <2>1, <2>2
<1> QED BY <1>1, <1>2, <1>6, <1>7, AgreeWork

LEMMA AgreeStartFails ==
  ASSUME Typed, AgreeInv, NEW g \in Goroutines, StartFails(g), NEW t, t = go[g].task
  PROVE  AgreeInv'
<1>1. go[g].pc # "off" /\ UNCHANGED cut /\ unstarted' = unstarted \union {t}
  BY DEF StartFails
<1>2. Local(g, t)
  BY StartFailsStep
<1> QED BY <1>1, <1>2, AgreeWork

LEMMA AgreeStep ==
  ASSUME Typed, AgreeInv, NEW g \in Goroutines, Step(g),
         NEW t, t = go[g].task, NEW k, k = go[g].k,
         NEW status, status = go[g].steps[k]
  PROVE  AgreeInv'
<1>1. go[g].pc = "step" /\ UNCHANGED <<cut, unstarted>>
  BY DEF Step, history
<1>2. /\ Local(g, t) /\ go'[g].k = k /\ go'[g].steps = go[g].steps
      /\ rows'[t].curr = k /\ rows'[t].deploy = rows[t].deploy
      /\ status = "pending" => /\ go'[g].pc = "send" /\ steps'[t][k] = "running"
                               /\ steps'[t][3 - k] = steps[t][3 - k]
      /\ status # "pending" => UNCHANGED steps
      /\ status = "running" => go'[g].pc = "wait"
      /\ status \notin {"pending", "running"} => go'[g].pc \in {"done", "judge"}
      /\ UNCHANGED <<exec, starts, output, file, results>>
  BY StepStep
<1>3. k \in 1..2 /\ t \in Tasks /\ rows'[t].kind = rows[t].kind /\ go'[g].task = t /\ rows[t] \in Row
  BY <1>1, <1>2, WorkFacts DEF Local
<1>4. /\ rows'[t].policy = rows[t].policy \/ ~Mirrors(t)
      /\ rows'[t].status = rows[t].status \/ rows'[t].status = "running"
      /\ status \notin {"pending", "running"} =>
            go'[g].pc = IF k = 1 /\ Mirrors(t) THEN "done" ELSE "judge"
  <2>1. t \in DOMAIN rows /\ go \in [Goroutines -> Go]
    BY <1>3 DEF Tasks, Typed, Processes
  <2>2. rows' = [rows EXCEPT ![t].curr = k,
                      ![t].status = IF status = "pending" /\ ~Mirrors(t) THEN "running" ELSE @,
                      ![t].policy = IF status = "pending" /\ ~Mirrors(t) THEN "pending" ELSE @]
    BY DEF Step
  <2>3. /\ rows'[t].policy = rows[t].policy \/ ~Mirrors(t)
        /\ rows'[t].status = rows[t].status \/ rows'[t].status = "running"
    BY <1>3, <2>1, <2>2 DEF Row
  <2>4. go' = [go EXCEPT
             ![g].pc = CASE status = "pending" -> "send"
                         [] status = "running" -> "wait"
                         [] OTHER -> IF k = 1 /\ Mirrors(t) THEN "done" ELSE "judge",
             ![g].policies = IF Mirrors(t) THEN @ ELSE Valid(env, linked, hidden)]
    BY DEF Step
  <2>5. status \notin {"pending", "running"} =>
            go'[g].pc = IF k = 1 /\ Mirrors(t) THEN "done" ELSE "judge"
    BY <2>1, <2>4 DEF Go
  <2> QED BY <2>3, <2>5
<1>5. ASSUME Filing(t), Left(t), Drives(g)
      PROVE  Filing(t)' /\ Left(t)' /\ Drives(g)'
  <2>1. go[g].steps = steps[t] /\ status = steps[t][k]
    BY <1>1, <1>5 DEF Drives
  <2>2. \A j \in 1..2 : \/ steps'[t][j] = steps[t][j]
                        \/ status = "pending" /\ j = k /\ steps'[t][j] = "running"
    <3>1. \A j \in 1..2 : j = k \/ j = 3 - k
      BY <1>3
    <3> QED BY <1>2, <3>1
  <2>3. /\ Mirrors(t)' <=> Mirrors(t)
        /\ ScanStep(t) \in 1..2 /\ (Mirrors(t) => ScanStep(t) = 1) /\ (~Mirrors(t) => ScanStep(t) = 2)
        /\ ScanStep(t)' = ScanStep(t)
    BY <1>3 DEF Mirrors, ScanStep
  <2>4. \/ Ran(t)' = Ran(t)
        \/ status = "pending" /\ k = ScanStep(t) /\ Ran(t) = "pending" /\ Ran(t)' = "running"
    BY <2>1, <2>2, <2>3 DEF Ran
  <2>5. Filing(t)'
    BY <1>2, <1>3, <1>5, <2>2, <2>4, FilingKept DEF Open
  <2>6. CASE Mirrors(t)
    <3>1. MirrorLeft(t) /\ MirrorDriver(g)
      BY <1>5, <2>6 DEF Left, Drives
    <3>2. /\ rows'[t].policy = rows[t].policy /\ rows'[t].deploy = "running"
          /\ (Untouched(t)' <=> Untouched(t)) /\ (Agreed(t)' <=> Agreed(t)) /\ (Done(t)' <=> Done(t))
      BY <1>1, <1>2, <1>3, <1>4, <2>6, <3>1, ResultsKept DEF MirrorDriver
    <3>3. k = 2 => Done(t)
      BY <3>1 DEF MirrorDriver
    <3>4. MirrorLeft(t)'
      BY <1>2, <2>4, <3>1, <3>2, <3>3 DEF MirrorLeft, Open
    <3>5. MirrorDriver(g)'
      <4>1. go'[g].pc \in {"send", "wait", "done", "judge"}
        BY <1>2
      <4>2. go'[g].pc = "judge" => k = 2
        BY <1>2, <1>3, <1>4, <2>6
      <4>3. go'[g].pc = "done" => k = 1 /\ Ran(t)' \notin Open
        <5> SUFFICES ASSUME go'[g].pc = "done" PROVE k = 1 /\ Ran(t)' \notin Open
          OBVIOUS
        <5>1. status \notin {"pending", "running"} /\ k = 1
          BY <1>2, <1>4
        <5> QED BY <1>2, <2>1, <2>3, <2>6, <5>1 DEF Ran, Open
      <4>4. go'[g].pc = "judge" => steps'[t][k] \notin Open
        BY <1>2, <2>1 DEF Open
      <4> QED BY <1>2, <1>3, <3>2, <3>3, <4>1, <4>2, <4>3, <4>4 DEF MirrorDriver
    <3> QED BY <1>2, <1>3, <2>1, <2>3, <2>5, <2>6, <3>4, <3>5 DEF Left, Drives
  <2>7. CASE ~Mirrors(t)
    <3>1. ScanLeft(t) /\ ScanDriver(g)
      BY <1>5, <2>7 DEF Left, Drives
    <3>2. Untouched(t)' /\ rows'[t].status \in Open
      BY <1>1, <1>2, <1>4, <3>1 DEF ScanDriver, Untouched, Open
    <3>3. ScanDriver(g)'
      BY <1>2, <1>3, <1>4, <2>1, <2>7, <3>2 DEF ScanDriver, Open
    <3> QED BY <1>2, <1>3, <2>1, <2>3, <2>5, <2>7, <3>2, <3>3 DEF Left, Drives, ScanLeft
  <2> QED BY <2>6, <2>7
<1> QED BY <1>1, <1>2, <1>5, AgreeWork

LEMMA AgreeSend ==
  ASSUME Typed, AgreeInv, NEW g \in Goroutines, Send(g),
         NEW t, t = go[g].task, NEW k, k = go[g].k
  PROVE  AgreeInv'
<1>1. go[g].pc = "send" /\ UNCHANGED <<cut, unstarted>>
  BY DEF Send, history
<1>2. /\ Local(g, t) /\ go'[g].pc = "wait" /\ go'[g].k = k /\ go'[g].steps = go[g].steps
      /\ exec'[t][k] = "running" /\ exec'[t][3 - k] = exec[t][3 - k]
      /\ UNCHANGED <<rows, steps, output, file, results>>
  BY SendStep
<1>3. k \in 1..2 /\ t \in Tasks /\ go'[g].task = t
  BY <1>1, <1>2, WorkFacts DEF Local
<1>4. /\ Ran(t)' = Ran(t) /\ (Mirrors(t)' <=> Mirrors(t)) /\ ScanStep(t)' = ScanStep(t)
      /\ ScanStep(t) \in 1..2
      /\ (Untouched(t)' <=> Untouched(t)) /\ (Agreed(t)' <=> Agreed(t)) /\ (Done(t)' <=> Done(t))
  BY <1>2, <1>3, ResultsKept DEF Ran, ScanStep, Mirrors
<1>5. ASSUME Filing(t) PROVE Filing(t)'
  <2>1. \A j \in 1..2 : exec'[t][j] = exec[t][j] \/ exec'[t][j] = "running"
    <3>1. \A j \in 1..2 : j = k \/ j = 3 - k
      BY <1>3
    <3> QED BY <1>2, <3>1
  <2>2. (Clean(t)' <=> Clean(t)) /\ (Filed(t)' <=> Filed(t))
    BY <1>2 DEF Clean, Filed
  <2> QED BY <1>2, <1>4, <1>5, <2>1, <2>2 DEF Filing
<1>6. ASSUME Left(t), Drives(g) PROVE Left(t)' /\ Drives(g)'
  <2>1. CASE Mirrors(t)
    BY <1>1, <1>2, <1>3, <1>4, <1>6, <2>1 DEF Left, Drives, MirrorLeft, MirrorDriver
  <2>2. CASE ~Mirrors(t)
    BY <1>1, <1>2, <1>3, <1>4, <1>6, <2>2 DEF Left, Drives, ScanLeft, ScanDriver
  <2> QED BY <2>1, <2>2
<1> QED BY <1>1, <1>2, <1>5, <1>6, AgreeWork

(* How a step ends: a file is stored only if it is the scan, and a scan     *)
(* that ran to its end leaves the file of its command or none.              *)
LEMMA EndFacts ==
  ASSUME Typed, NEW g \in Goroutines, SendFails(g) \/ Wait(g) \/ WaitFails(g),
         NEW t, t = go[g].task, NEW k, k = go[g].k
  PROVE  \E status \in ScanStepStatuses :
           /\ StepEnds(g, status) /\ status \notin Open
           /\ status \in {"complete", "violated"} => exec[t][k] = status
           /\ file' = file \/ (k = ScanStep(t) /\ file' = [file EXCEPT ![t] = output[t]])
<1>1. go[g].pc # "off"
  BY DEF SendFails, Wait, WaitFails
<1>2. exec[t][k] \in {"none", "running", "complete", "failed", "violated"}
  BY <1>1, WorkFacts, TableFacts DEF Execs
<1>3. CASE Wait(g)
  <2> DEFINE status == CASE t \in marked -> "aborted"
                         [] exec[t][k] = "none" -> "failed"
                         [] OTHER -> exec[t][k]
  <2>1. StepEnds(g, status) /\ exec[t][k] # "running"
    BY <1>3 DEF Wait
  <2>2. /\ status \in ScanStepStatuses /\ status \notin Open
        /\ status \in {"complete", "violated"} => exec[t][k] = status
    <3>1. status \in {"aborted", "failed"} \/ (status = exec[t][k] /\ exec[t][k] # "none")
      OBVIOUS
    <3> HIDE DEF status
    <3> QED BY <1>2, <2>1, <3>1 DEF ScanStepStatuses, StepStatuses, Open
  <2>3. file' = IF k = ScanStep(t) THEN [file EXCEPT ![t] = output[t]] ELSE file
    BY <1>3 DEF Wait
  <2> HIDE DEF status
  <2> QED BY <2>1, <2>2, <2>3
<1>4. CASE SendFails(g)
  <2>1. "failed" \in ScanStepStatuses /\ "failed" \notin Open
    BY DEF ScanStepStatuses, StepStatuses, Open
  <2> QED BY <1>4, <2>1 DEF SendFails
<1>5. CASE WaitFails(g)
  <2>1. \A s \in {"failed", "timeout", "complete", "violated"} : s \in ScanStepStatuses /\ s \notin Open
    BY DEF ScanStepStatuses, StepStatuses, Open
  <2>2. PICK s \in {"failed", "timeout", "complete", "violated"} :
          StepEnds(g, s) /\ (s \in {"complete", "violated"} => exec[t][k] = s)
    BY <1>5 DEF WaitFails
  <2> QED BY <1>5, <2>1, <2>2 DEF WaitFails
<1> QED BY <1>3, <1>4, <1>5

LEMMA AgreeEnds ==
  ASSUME Typed, AgreeInv, NEW g \in Goroutines, SendFails(g) \/ Wait(g) \/ WaitFails(g),
         NEW t, t = go[g].task, NEW k, k = go[g].k
  PROVE  AgreeInv'
<1>0. /\ go[g].pc \in {"send", "wait"} /\ UNCHANGED <<cut, unstarted>> /\ UNCHANGED envVars
      /\ UNCHANGED <<rows, results, exec, starts, output, sent, recorded, mem>>
  BY DEF SendFails, Wait, WaitFails, runVars, history
<1>1. PICK status \in ScanStepStatuses :
        /\ StepEnds(g, status) /\ status \notin Open
        /\ status \in {"complete", "violated"} => exec[t][k] = status
        /\ file' = file \/ (k = ScanStep(t) /\ file' = [file EXCEPT ![t] = output[t]])
  BY EndFacts
<1>2. /\ Local(g, t) /\ go'[g].k = k
      /\ go'[g].steps = [go[g].steps EXCEPT ![k] = status]
      /\ steps'[t] = [steps[t] EXCEPT ![k] = status]
  BY <1>0, <1>1, EndStep
<1>3. /\ k \in 1..2 /\ t \in Tasks /\ go'[g].task = t /\ go[g].steps \in Two /\ steps[t] \in Two
      /\ file'[t] = file[t] \/ (k = ScanStep(t) /\ file'[t] = output[t])
      /\ go'[g].pc = IF k = 1 /\ Mirrors(t) THEN "done" ELSE "judge"
  <2>1. k \in 1..2 /\ t \in Tasks /\ go[g].steps \in Two /\ Tables /\ go \in [Goroutines -> Go]
    BY <1>0, WorkFacts DEF Processes
  <2>2. t \in DOMAIN file
    BY <2>1, TableFacts
  <2>3. go' = [go EXCEPT ![g].steps[k] = status,
                 ![g].pc = IF k = 1 /\ Mirrors(t) THEN "done" ELSE "judge"]
    BY <1>1 DEF StepEnds
  <2>4. go'[g].pc = IF k = 1 /\ Mirrors(t) THEN "done" ELSE "judge"
    BY <2>1, <2>3 DEF Go
  <2> QED BY <1>1, <1>2, <2>1, <2>2, <2>4, TableFacts DEF Local
<1>4. ASSUME Filing(t), Left(t), Drives(g)
      PROVE  Filing(t)' /\ Left(t)' /\ Drives(g)'
  <2>1. /\ steps[t][k] = "running" /\ rows[t].curr = k
        /\ go[g].steps[3 - k] = steps[t][3 - k]
    BY <1>0, <1>4 DEF Drives
  <2>2. /\ steps'[t][k] = status /\ steps'[t][3 - k] = steps[t][3 - k]
        /\ go'[g].steps[k] = status /\ go'[g].steps[3 - k] = go[g].steps[3 - k]
        /\ go'[g].steps \in Two /\ steps'[t] \in Two
    BY <1>2, <1>3, StepSet
  <2>3. go'[g].steps = steps'[t]
    <3>1. \A j \in 1..2 : j = k \/ j = 3 - k
      BY <1>3
    <3>2. \A j \in 1..2 : go'[g].steps[j] = steps'[t][j]
      BY <2>1, <2>2, <3>1
    <3> QED BY <2>2, <3>2 DEF Two
  <2>4. /\ Mirrors(t)' <=> Mirrors(t)
        /\ ScanStep(t) \in 1..2 /\ (Mirrors(t) => ScanStep(t) = 1) /\ (~Mirrors(t) => ScanStep(t) = 2)
        /\ ScanStep(t)' = ScanStep(t)
    BY <1>0 DEF Mirrors, ScanStep
  <2>5. IF k = ScanStep(t) THEN Ran(t) = "running" /\ Ran(t)' = status
        ELSE Ran(t)' = Ran(t) /\ file'[t] = file[t]
    <3>1. \A j \in 1..2 : j = k \/ j = 3 - k
      BY <1>3
    <3> QED BY <1>3, <2>1, <2>2, <2>4, <3>1 DEF Ran
  <2>6. Filing(t)'
    <3>1. (Clean(t)' <=> Clean(t)) /\ UNCHANGED exec
      BY <1>0 DEF Clean
    <3>2. file'[t] = output[t] => (Filed(t)' <=> ~Clean(t))
      BY DEF Filed, Clean
    <3>3. file'[t] = file[t] => (Filed(t)' <=> Filed(t))
      BY DEF Filed
    <3>4. file[t] = Nothing => ~Filed(t)
      BY DEF Filed, Nothing
    <3>5. ~Mirrors(t) => exec'[t][1] # "violated" /\ steps'[t][1] # "violated"
      <4> SUFFICES ASSUME ~Mirrors(t) PROVE exec'[t][1] # "violated" /\ steps'[t][1] # "violated"
        OBVIOUS
      <4>1. exec[t][1] # "violated" /\ steps[t][1] # "violated"
        BY <1>4 DEF Filing
      <4>2. k = 1 \/ (k = 2 /\ 3 - k = 1)
        BY <1>3
      <4> QED BY <1>1, <2>2, <3>1, <4>1, <4>2
    <3>6. CASE k = ScanStep(t)
      <4>1. file[t] = Nothing /\ ~Filed(t)
        BY <1>4, <2>5, <3>4, <3>6 DEF Filing, Open
      <4>2. Ran(t)' = "violated" => file'[t] = Nothing \/ Filed(t)'
        BY <1>1, <1>3, <1>4, <2>5, <3>2, <3>6, <4>1 DEF Filing
      <4>3. Ran(t)' = "complete" => ~Filed(t)'
        BY <1>1, <1>3, <1>4, <2>5, <3>2, <3>3, <3>6, <4>1 DEF Filing
      <4>4. Ran(t)' \notin Open
        BY <1>1, <2>5, <3>6
      <4> QED BY <1>4, <2>4, <3>1, <3>5, <4>2, <4>3, <4>4 DEF Filing
    <3>7. CASE k # ScanStep(t)
      BY <1>4, <2>4, <2>5, <3>1, <3>3, <3>5, <3>7 DEF Filing
    <3> QED BY <3>6, <3>7
  <2>7. CASE Mirrors(t)
    <3>1. MirrorLeft(t) /\ MirrorDriver(g) /\ rows[t].deploy = "running"
      BY <1>0, <1>4, <2>7 DEF Left, Drives, MirrorDriver
    <3>2. CASE k = 1
      <4>1. rows[t].policy = "pending" /\ Untouched(t) /\ Untouched(t)'
        <5>1. rows[t].policy = "pending"
          BY <2>4, <2>5, <2>7, <3>1, <3>2 DEF MirrorLeft, Open
        <5> QED BY <1>0, <3>1, <5>1 DEF MirrorLeft, Untouched
      <4>2. MirrorLeft(t)'
        BY <1>0, <2>1, <3>1, <3>2, <4>1 DEF MirrorLeft
      <4>3. MirrorDriver(g)'
        BY <1>0, <1>1, <1>2, <1>3, <2>4, <2>5, <2>7, <3>1, <3>2 DEF MirrorDriver
      <4> QED BY <1>0, <1>2, <1>3, <2>1, <2>3, <2>4, <2>6, <2>7, <4>2, <4>3 DEF Left, Drives
    <3>3. CASE k = 2
      <4>1. /\ Ran(t)' = Ran(t) /\ (Untouched(t)' <=> Untouched(t))
            /\ (Agreed(t)' <=> Agreed(t)) /\ (Done(t)' <=> Done(t))
        BY <1>0, <1>3, <2>4, <2>5, <2>7, <3>3, ResultsKept
      <4>2. Done(t)
        BY <3>1, <3>3 DEF MirrorDriver
      <4>3. MirrorLeft(t)'
        BY <1>0, <3>1, <4>1, <4>2 DEF MirrorLeft
      <4>4. MirrorDriver(g)'
        <5>1. go'[g].pc = "judge" /\ go'[g].task = t /\ go'[g].k = 2
          BY <1>2, <1>3, <3>3
        <5>2. rows'[t].deploy = "running" /\ Done(t)' /\ steps'[t][2] \notin Open
          BY <1>0, <1>1, <2>2, <3>1, <3>3, <4>1, <4>2
        <5> QED BY <5>1, <5>2 DEF MirrorDriver, Open
      <4> QED BY <1>0, <1>2, <1>3, <2>1, <2>3, <2>4, <2>6, <2>7, <3>3, <4>3, <4>4 DEF Left, Drives
    <3> QED BY <1>3, <3>2, <3>3
  <2>8. CASE ~Mirrors(t)
    <3>1. ScanLeft(t) /\ ScanDriver(g)
      BY <1>4, <2>8 DEF Left, Drives
    <3>2. Untouched(t)' /\ rows'[t].status \in Open
      BY <1>0, <3>1 DEF ScanDriver, Untouched
    <3>3. ScanDriver(g)'
      <4>1. go'[g].pc = "judge" /\ go'[g].task = t /\ go'[g].k = k
        BY <1>2, <1>3, <2>8
      <4>2. steps'[t][k] \notin Open
        BY <1>1, <2>2
      <4> QED BY <3>2, <4>1, <4>2 DEF ScanDriver, Open
    <3> QED BY <1>0, <1>2, <1>3, <2>1, <2>3, <2>4, <2>6, <2>8, <3>2, <3>3 DEF Left, Drives, ScanLeft
  <2> QED BY <2>7, <2>8
<1> QED BY <1>0, <1>2, <1>3, <1>4, AgreeWork

LEMMA AgreeJudge ==
  ASSUME Typed, AgreeInv, NEW g \in Goroutines, Judge(g), NEW t, t = go[g].task, NEW k, k = go[g].k
  PROVE  AgreeInv'
<1>1. go[g].pc = "judge" /\ UNCHANGED <<cut, unstarted>>
  BY DEF Judge, history
<1>2. /\ Local(g, t) /\ go'[g].steps = go[g].steps
      /\ \/ /\ k = 1 /\ go'[g].k = 2 /\ go'[g].pc = "step"
            /\ go[g].steps[1] = "complete" \/ ~rows[t].stop
         \/ /\ go'[g].k = k /\ go'[g].pc = "settle"
            /\ k = 1 => go[g].steps[1] # "complete"
      /\ UNCHANGED <<rows, steps, exec, starts, output, file, results>>
  BY JudgeStep
<1>3. t \in Tasks /\ go'[g].task = t
  BY <1>1, <1>2, WorkFacts DEF Local
<1>4. /\ Ran(t)' = Ran(t) /\ (Mirrors(t)' <=> Mirrors(t))
      /\ (Untouched(t)' <=> Untouched(t)) /\ (Agreed(t)' <=> Agreed(t)) /\ (Done(t)' <=> Done(t))
  BY <1>2, <1>3, ResultsKept DEF Ran, ScanStep, Mirrors
<1>5. ASSUME Filing(t) PROVE Filing(t)'
  BY <1>2, <1>3, <1>4, <1>5, FilingKept
<1>6. ASSUME Left(t), Drives(g) PROVE Left(t)' /\ Drives(g)'
  <2>1. go[g].steps = steps[t] /\ rows[t].curr = k
    BY <1>1, <1>6 DEF Drives
  <2>2. CASE Mirrors(t)
    <3>1. MirrorLeft(t)' /\ MirrorDriver(g)'
      BY <1>1, <1>2, <1>3, <1>4, <1>6, <2>2 DEF Left, Drives, MirrorLeft, MirrorDriver
    <3> QED BY <1>2, <1>3, <1>4, <2>1, <2>2, <3>1 DEF Left, Drives
  <2>3. CASE ~Mirrors(t)
    <3>1. ScanLeft(t)' /\ ScanDriver(g)'
      BY <1>1, <1>2, <1>3, <1>4, <1>6, <2>1, <2>3 DEF Left, Drives, ScanLeft, ScanDriver
    <3> QED BY <1>2, <1>3, <1>4, <2>1, <2>3, <3>1 DEF Left, Drives
  <2> QED BY <2>2, <2>3
<1> QED BY <1>1, <1>2, <1>5, <1>6, AgreeWork

(* A task that no goroutine works for from now on.                          *)
LEMMA GoodRests ==
  ASSUME NEW t \in Tasks, Good(t),
         rows'[t] = rows[t], steps'[t] = steps[t], exec'[t] = exec[t],
         output'[t] = output[t], file'[t] = file[t], results'[t] = results[t],
         \A h \in Goroutines : go'[h].pc = "off",
         t \in unstarted => t \in unstarted', t \in cut => t \in cut',
         \A g \in Goroutines : On(g, t) /\ go[g].pc = "results" /\ ~Mirrors(t) => t \in cut'
  PROVE  Good(t)'
<1>1. /\ Untouched(t)' <=> Untouched(t)
      /\ Agreed(t)' <=> Agreed(t)
      /\ Done(t)' <=> Done(t)
  BY ResultsKept
<1>2. Ran(t)' = Ran(t) /\ (Mirrors(t)' <=> Mirrors(t))
  BY DEF Ran, ScanStep, Mirrors
<1>3. Filing(t) => Filing(t)'
  BY <1>2, FilingKept
<1>4. \A h \in Goroutines : ~On(h, t)'
  BY DEF On
<1> SUFFICES ASSUME t \notin unstarted' PROVE Filing(t)' /\ Left(t)' /\ Rest(t)'
  BY <1>4 DEF Good, Alone
<1>5. /\ Filing(t) /\ Left(t) /\ (~Busy(t) => Rest(t))
      /\ \A g \in Goroutines : On(g, t) => Drives(g)
  BY DEF Good
<1>6. Left(t)'
  BY <1>1, <1>2, <1>5 DEF Left, MirrorLeft, ScanLeft
<1>7. Rest(t)'
  <2>1. CASE ~Busy(t)
    BY <1>1, <1>2, <1>5, <2>1 DEF Rest
  <2>2. CASE Busy(t)
    <3>1. PICK g \in Goroutines : On(g, t)
      BY <2>2 DEF Busy, On
    <3>2. Drives(g) /\ go[g].task = t
      BY <1>5, <3>1 DEF On
    <3>3. CASE Mirrors(t)
      <4>1. MirrorDriver(g) /\ MirrorLeft(t)
        BY <1>5, <3>2, <3>3 DEF Drives, Left
      <4>2. rows[t].deploy \notin Open => Ran(t) = "pending"
        BY <3>2, <4>1 DEF MirrorDriver, Open
      <4> QED BY <1>1, <1>2, <3>3, <4>2 DEF Rest
    <3>4. CASE ~Mirrors(t)
      <4>1. ScanDriver(g)
        BY <3>2, <3>4 DEF Drives
      <4>2. rows[t].status \in Open \/ t \in cut'
        BY <3>1, <3>2, <3>4, <4>1 DEF ScanDriver
      <4> QED BY <1>2, <3>4, <4>2 DEF Rest
    <3> QED BY <3>3, <3>4
  <2> QED BY <2>1, <2>2
<1> QED BY <1>3, <1>5, <1>6, <1>7

(* Every goroutine dies.                                                    *)
LEMMA AgreeDown ==
  ASSUME Typed, AgreeInv, Down,
         UNCHANGED <<rows, steps, exec, results, file, output, unstarted>>
  PROVE  AgreeInv'
<1>1. /\ \A h \in Goroutines : go'[h].pc = "off"
      /\ cut \subseteq cut'
      /\ \A g \in Goroutines : go[g].pc = "results" /\ ~Mirrors(go[g].task) => go[g].task \in cut'
  BY DEF Down, NoGo
<1> SUFFICES ASSUME NEW t \in Tasks PROVE Good(t)'
  BY DEF AgreeInv, Tasks
<1>2. \A g \in Goroutines : On(g, t) /\ go[g].pc = "results" /\ ~Mirrors(t) => t \in cut'
  BY <1>1 DEF On
<1> QED BY <1>1, <1>2, GoodRests DEF AgreeInv

(* What the portal knows of a status that is final.                         *)
LEMMA WithStepSays ==
  ASSUME Tables, NEW t \in Tasks, NEW status \in ScanStepStatuses, WithStep(t, status)
  PROVE  /\ rows'[t].status = StatusOf(status) /\ rows'[t].policy = PolicyOf(status)
         /\ rows'[t].deploy = rows[t].deploy /\ rows'[t].kind = rows[t].kind
         /\ rows'[t].curr = rows[t].curr
         /\ status \notin Open => StatusOf(status) \notin Open /\ PolicyOf(status) # "pending"
<1>1. rows[t] \in Row /\ t \in DOMAIN rows
  BY TableFacts DEF Tasks
<1>2. /\ rows'[t].status = StatusOf(status) /\ rows'[t].policy = PolicyOf(status)
      /\ rows'[t].deploy = rows[t].deploy /\ rows'[t].kind = rows[t].kind
      /\ rows'[t].curr = rows[t].curr
  BY <1>1 DEF WithStep, Row
<1>3. status \notin Open => StatusOf(status) \notin Open /\ PolicyOf(status) # "pending"
  BY DEF StatusOf, StepToTask, PolicyOf, ScanStepStatuses, StepStatuses, Open
<1> QED BY <1>2, <1>3

LEMMA AgreeStepDone ==
  ASSUME Typed, AgreeInv, NEW g \in Goroutines, StepDone(g), NEW t, t = go[g].task
  PROVE  AgreeInv'
<1>1. go[g].pc = "done" /\ UNCHANGED unstarted
  BY DEF StepDone
<1>2. /\ UNCHANGED <<steps, exec, output, file, results>>
      /\ \/ Local(g, t) /\ go'[g].pc = "results" /\ go'[g].k = go[g].k /\ go'[g].steps = go[g].steps
         \/ UNCHANGED rows /\ Down
  BY StepDoneStep
<1>3. Tables /\ t \in Tasks /\ steps[t][1] \in ScanStepStatuses
  <2>1. Tables /\ t \in Tasks
    BY <1>1, WorkFacts
  <2>2. steps[t] \in Two
    BY <2>1, TableFacts
  <2> QED BY <2>1, <2>2 DEF Two
<1>4. CASE UNCHANGED rows /\ Down
  BY <1>1, <1>2, <1>4, AgreeDown
<1>5. CASE ~(UNCHANGED rows /\ Down)
  <2>1. /\ Local(g, t) /\ go'[g].pc = "results" /\ go'[g].k = go[g].k
        /\ go'[g].steps = go[g].steps /\ go'[g].task = t
        /\ UNCHANGED <<steps, exec, output, file, results>>
    BY <1>2, <1>5 DEF Local
  <2>2. WithStep(t, steps[t][1]) /\ UNCHANGED cut
    BY <1>5 DEF StepDone
  <2>3. /\ rows'[t].policy = PolicyOf(steps[t][1])
        /\ rows'[t].deploy = rows[t].deploy /\ rows'[t].kind = rows[t].kind
        /\ rows'[t].curr = rows[t].curr
        /\ steps[t][1] \notin Open => PolicyOf(steps[t][1]) # "pending"
    BY <1>3, <2>2, WithStepSays
  <2>4. ASSUME Filing(t), Left(t), Drives(g)
        PROVE  Filing(t)' /\ Left(t)' /\ Drives(g)'
    <3>1. Mirrors(t) /\ MirrorDriver(g) /\ MirrorLeft(t) /\ go[g].steps = steps[t] /\ rows[t].curr = go[g].k
      BY <1>1, <2>4 DEF Drives, Left, ScanDriver
    <3>2. Ran(t) = steps[t][1] /\ Ran(t)' = Ran(t) /\ Mirrors(t)'
      BY <2>1, <2>3, <3>1 DEF Ran, ScanStep, Mirrors
    <3>3. go[g].k = 1 /\ Ran(t) \notin Open /\ rows[t].deploy = "running"
      BY <1>1, <3>1 DEF MirrorDriver
    <3>4. rows'[t].policy # "pending" /\ rows'[t].policy = PolicyOf(Ran(t)')
      BY <2>3, <3>2, <3>3
    <3>5. Untouched(t)' \/ Agreed(t)'
      <4>1. CASE Untouched(t)
        BY <2>1, <4>1 DEF Untouched
      <4>2. CASE ~Untouched(t)
        <5>1. Agreed(t) /\ rows[t].policy # "pending"
          BY <3>1, <4>2 DEF MirrorLeft
        <5>2. rows'[t].policy = rows[t].policy
          BY <3>1, <3>2, <3>4, <5>1 DEF MirrorLeft
        <5> QED BY <1>3, <2>1, <5>1, <5>2, ResultsKept
      <4> QED BY <4>1, <4>2
    <3>6. MirrorLeft(t)'
      BY <2>3, <3>1, <3>2, <3>3, <3>4, <3>5 DEF MirrorLeft
    <3>7. MirrorDriver(g)'
      BY <2>1, <2>3, <3>2, <3>3, <3>4 DEF MirrorDriver
    <3>8. Filing(t)'
      BY <1>3, <2>1, <2>3, <2>4, <3>2, FilingKept
    <3> QED BY <2>1, <2>3, <3>1, <3>2, <3>6, <3>7, <3>8 DEF Left, Drives
  <2> QED BY <1>1, <2>1, <2>2, <2>4, AgreeWork
<1> QED BY <1>4, <1>5

(* The results say what the scan says, once they are saved or cleaned.      *)
LEMMA ResultsSay ==
  ASSUME Typed, NEW g \in Goroutines, Results(g), NEW t, t = go[g].task,
         Filing(t), Untouched(t) \/ Agreed(t), rows[t].policy # "pending",
         rows[t].policy = "failed" \/ rows[t].policy = PolicyOf(Ran(t))
  PROVE  Agreed(t)' \/ (Unrecorded(t) /\ UNCHANGED results)
<1>1. /\ go[g].pc = "results" /\ UNCHANGED <<rows, file>>
  BY DEF Results
<1>2. /\ t \in Tasks /\ t \in DOMAIN results /\ results[t] \in Shown /\ file[t] \in Findings
      /\ rows[t].policy \in PolicyStatuses
  BY <1>1, WorkFacts, TableFacts
<1>3. CASE rows[t].policy = "failed"
  <2>1. results' = [results EXCEPT ![t] = Cleaned(t)]
    BY <1>3 DEF Results
  <2>2. results'[t] = Cleaned(t)
    BY <1>2, <2>1
  <2> QED BY <1>1, <1>3, <2>2 DEF Agreed, Cleaned
<1>4. CASE rows[t].policy \in {"passed", "violated"} /\ ~Unrecorded(t)
  <2>1. results' = [results EXCEPT ![t] = Saved(t)]
    BY <1>4 DEF Results
  <2>2. results'[t] = Saved(t)
    BY <1>2, <2>1
  <2>3. DOMAIN file[t] \subseteq Policies /\ \A p \in DOMAIN file[t] : file[t][p] \in Verdicts
    <3>1. PICK S \in SUBSET Policies : file[t] \in [S -> Verdicts]
      BY <1>2, Zenon DEF Findings
    <3> QED BY <3>1
  <2>4. \A p \in Policies :
          Saved(t)[p] = IF p \in DOMAIN file[t] THEN file[t][p]
                        ELSE IF results[t][p] = "pending" THEN "passed" ELSE results[t][p]
    BY DEF Saved
  <2>5. \A p \in Policies : results'[t][p] # "pending"
    BY <2>2, <2>3, <2>4 DEF Verdicts
  <2>6. rows[t].policy = "passed" <=> Ran(t) = "complete"
    BY <1>4 DEF PolicyOf
  <2>7. rows[t].policy = "violated" <=> Ran(t) = "violated"
    BY <1>4 DEF PolicyOf
  <2>8. rows[t].policy = "violated" =>
          file[t] = Nothing \/ \E p \in Policies : results'[t][p] = "violated"
    <3> SUFFICES ASSUME rows[t].policy = "violated", file[t] # Nothing
                 PROVE  \E p \in Policies : results'[t][p] = "violated"
      OBVIOUS
    <3>1. PICK p \in DOMAIN file[t] : file[t][p] = "violated"
      BY <2>7 DEF Filing, Filed
    <3> QED BY <2>2, <2>3, <2>4, <3>1
  <2>9. rows[t].policy = "passed" => \A p \in Policies : results'[t][p] # "violated"
    <3> SUFFICES ASSUME rows[t].policy = "passed", NEW p \in Policies
                 PROVE  results'[t][p] # "violated"
      OBVIOUS
    <3>1. p \in DOMAIN file[t] => file[t][p] # "violated"
      BY <2>6 DEF Filing, Filed
    <3>2. results[t][p] # "violated"
      BY DEF Untouched, Agreed
    <3> QED BY <2>2, <2>4, <3>1, <3>2
  <2> QED BY <1>1, <1>4, <2>5, <2>8, <2>9 DEF Agreed
<1>5. CASE rows[t].policy \in {"passed", "violated"} /\ Unrecorded(t)
  BY <1>5 DEF Results
<1> QED BY <1>2, <1>3, <1>4, <1>5 DEF PolicyStatuses, Verdicts

LEMMA AgreeResults ==
  ASSUME Typed, AgreeInv, NEW g \in Goroutines, Results(g), NEW t, t = go[g].task
  PROVE  AgreeInv'
<1>1. go[g].pc = "results" /\ UNCHANGED <<cut, unstarted>>
  BY DEF Results, history
<1>2. /\ Local(g, t) /\ go'[g].k = go[g].k /\ go'[g].steps = go[g].steps /\ go'[g].task = t
      /\ go'[g].pc \in {"off", "judge", "settle"}
      /\ UNCHANGED <<rows, steps, exec, output, file>>
  BY ResultsStep DEF Local
<1>3. t \in Tasks /\ go[g].k \in 1..2
  BY <1>1, WorkFacts
<1>4. IF Mirrors(t) THEN go'[g].pc \in {"judge", "settle"} ELSE go'[g].pc = "off"
  <2>1. PICK pc : To(g, pc) /\ IF Mirrors(t) THEN pc \in {"judge", "settle"} ELSE pc = "off"
    BY DEF Results
  <2>2. go'[g].pc = pc
    BY <2>1 DEF To, Typed, Processes, Go
  <2> QED BY <2>1, <2>2
<1>5. /\ Ran(t)' = Ran(t) /\ (Mirrors(t)' <=> Mirrors(t)) /\ ScanStep(t)' = ScanStep(t)
      /\ (Unrecorded(t) /\ UNCHANGED results => Unrecorded(t)')
  BY <1>2 DEF Ran, ScanStep, Mirrors, Unrecorded
<1>6. ASSUME Filing(t), Left(t), Drives(g)
      PROVE  /\ Filing(t)' /\ Left(t)'
             /\ IF go'[g].pc = "off" THEN Rest(t)' ELSE Drives(g)'
  <2>1. Filing(t)'
    BY <1>2, <1>5, <1>6 DEF Filing, Clean, Filed
  <2>2. rows[t].curr = go[g].k /\ go[g].steps = steps[t]
    BY <1>1, <1>6 DEF Drives
  <2>3. CASE Mirrors(t)
    <3>1. MirrorLeft(t) /\ MirrorDriver(g)
      BY <1>6, <2>3 DEF Left, Drives
    <3>2. rows[t].policy # "pending" /\ rows[t].policy = PolicyOf(Ran(t)) /\ rows[t].deploy = "running"
      BY <1>1, <3>1 DEF MirrorLeft, MirrorDriver
    <3>3. Agreed(t)' \/ (Unrecorded(t) /\ UNCHANGED results)
      BY <1>6, <3>1, <3>2, ResultsSay DEF MirrorLeft
    <3>4. Done(t)'
      BY <1>5, <3>3 DEF Done
    <3>5. Untouched(t)' \/ Agreed(t)'
      <4>1. CASE UNCHANGED results
        BY <1>2, <3>1, <4>1 DEF MirrorLeft, Untouched, Agreed
      <4> QED BY <3>3, <4>1
    <3>6. MirrorLeft(t)'
      BY <1>2, <1>5, <3>1, <3>2, <3>4, <3>5 DEF MirrorLeft
    <3>7. MirrorDriver(g)'
      <4>1. steps[t][go[g].k] \notin Open
        BY <1>1, <2>3, <3>1 DEF MirrorDriver, Ran, ScanStep
      <4> QED BY <1>2, <1>4, <2>3, <3>2, <3>4, <4>1 DEF MirrorDriver
    <3> QED BY <1>2, <1>4, <1>5, <2>1, <2>2, <2>3, <3>6, <3>7 DEF Left, Drives
  <2>4. CASE ~Mirrors(t)
    <3>1. ScanDriver(g)
      BY <1>6, <2>4 DEF Drives
    <3>2. /\ Untouched(t) /\ rows[t].status \notin Open /\ rows[t].policy # "pending"
          /\ rows[t].policy = PolicyOf(steps[t][go[g].k])
          /\ go[g].k = 1 => rows[t].policy = "failed"
      BY <1>1, <3>1 DEF ScanDriver
    <3>3. go[g].k = 2 => rows[t].policy = PolicyOf(Ran(t))
      BY <2>4, <3>2 DEF Ran, ScanStep
    <3>4. Agreed(t)' \/ (Unrecorded(t) /\ UNCHANGED results)
      BY <1>3, <1>6, <3>2, <3>3, ResultsSay
    <3>5. Done(t)'
      BY <1>5, <3>4 DEF Done
    <3> QED BY <1>2, <1>4, <1>5, <2>1, <2>4, <3>2, <3>5 DEF Left, ScanLeft, Rest
  <2> QED BY <2>3, <2>4
<1> QED BY <1>1, <1>2, <1>6, AgreeWork

(* processTaskDone, processScanTaskDone.                                    *)
LEMMA AgreeSettle ==
  ASSUME Typed, AgreeInv, NEW g \in Goroutines, Settle(g), NEW t, t = go[g].task
  PROVE  AgreeInv'
<1>1. go[g].pc = "settle" /\ UNCHANGED <<cut, unstarted>>
  BY DEF Settle, history
<1>2. /\ Local(g, t) /\ rows'[t].curr = rows[t].curr /\ exec'[t] = Stopped(t)
      /\ rows'[t].kind = rows[t].kind /\ go'[g].task = t
      /\ UNCHANGED <<steps, output, file, results>>
  BY SettleStep DEF Local
<1>3. /\ t \in Tasks /\ Tables /\ rows[t] \in Row /\ rows[t].curr \in 1..2 /\ go \in [Goroutines -> Go]
      /\ steps[t] \in Two /\ steps[t][rows[t].curr] \in ScanStepStatuses
  <2>1. /\ t \in Tasks /\ Tables /\ rows[t] \in Row /\ rows[t].curr \in 1..2 /\ go \in [Goroutines -> Go]
    BY <1>1, WorkFacts DEF Processes
  <2>2. steps[t] \in Two
    BY <2>1, TableFacts
  <2> QED BY <2>1, <2>2 DEF Two
<1>4. /\ Ran(t)' = Ran(t) /\ (Mirrors(t)' <=> Mirrors(t)) /\ ScanStep(t)' = ScanStep(t)
      /\ (Clean(t)' <=> Clean(t)) /\ (Filed(t)' <=> Filed(t)) /\ (Untouched(t)' <=> Untouched(t))
      /\ ScanStep(t) \in 1..2
  BY <1>2 DEF Ran, ScanStep, Mirrors, Clean, Filed, Untouched
<1>5. ASSUME Filing(t) PROVE Filing(t)'
  <2>1. \A j \in 1..2 : exec'[t][j] = exec[t][j] \/ exec'[t][j] = "failed"
    BY <1>2 DEF Stopped
  <2> QED BY <1>2, <1>4, <1>5, <2>1 DEF Filing
<1>6. ASSUME Filing(t), Left(t), Drives(g)
      PROVE  Left(t)' /\ IF go'[g].pc = "off" THEN Rest(t)' ELSE Drives(g)'
  <2>1. rows[t].curr = go[g].k /\ go[g].steps = steps[t]
    BY <1>1, <1>6 DEF Drives
  <2>2. CASE Mirrors(t)
    <3>1. /\ MirrorLeft(t) /\ Done(t) /\ rows[t].deploy = "running" /\ go'[g].pc = "off"
          /\ steps[t][rows[t].curr] \notin Open
      BY <1>1, <1>6, <2>1, <2>2, SettleStep DEF Left, Drives, MirrorDriver
    <3>2. rows'[t].policy = rows[t].policy /\ rows'[t].deploy = StatusOf(steps[t][rows[t].curr])
      <4>1. rows' = [rows EXCEPT ![t].deploy = StatusOf(steps[t][rows[t].curr]),
                              ![t].status = IF rows[t].policy = "pending" THEN "failed" ELSE @]
        BY <2>2 DEF Settle
      <4> QED BY <1>3, <4>1 DEF Row, Tasks
    <3>3. (Agreed(t)' <=> Agreed(t)) /\ (Done(t)' <=> Done(t))
      BY <1>2, <1>3, <3>2, ResultsKept
    <3>4. rows'[t].deploy # "pending"
      BY <1>3, <3>1, <3>2 DEF StatusOf, StepToTask, ScanStepStatuses, StepStatuses, Open
    <3>5. MirrorLeft(t)'
      BY <1>2, <1>4, <3>1, <3>2, <3>3, <3>4 DEF MirrorLeft
    <3> QED BY <1>4, <2>2, <3>1, <3>3, <3>5 DEF Left, Rest
  <2>3. CASE ~Mirrors(t)
    <3>1. ScanDriver(g)
      BY <1>6, <2>3 DEF Drives
    <3>2. Untouched(t) /\ steps[t][go[g].k] \notin Open /\ (go[g].k = 1 => steps[t][1] # "complete")
      BY <1>1, <3>1 DEF ScanDriver
    <3>3. WithStep(t, steps[t][rows[t].curr]) /\ To(g, "results")
      BY <2>3 DEF Settle
    <3>4. go'[g].pc = "results" /\ go'[g].k = go[g].k /\ go'[g].steps = go[g].steps
      BY <1>3, <3>3 DEF To, Go
    <3>5. /\ rows'[t].status \notin Open /\ rows'[t].policy # "pending"
          /\ rows'[t].policy = PolicyOf(steps[t][go[g].k])
      BY <1>3, <2>1, <3>2, <3>3, WithStepSays
    <3>6. go[g].k = 1 => rows'[t].policy = "failed"
      <4> SUFFICES ASSUME go[g].k = 1 PROVE rows'[t].policy = "failed"
        OBVIOUS
      <4>1. steps[t][1] \notin {"pending", "running", "complete", "violated"}
        BY <1>6, <2>3, <3>2 DEF Filing, Open
      <4> QED BY <3>5, <4>1 DEF PolicyOf
    <3>7. ScanDriver(g)'
      BY <1>2, <1>4, <3>2, <3>4, <3>5, <3>6 DEF ScanDriver
    <3>8. ScanLeft(t)'
      BY <3>5 DEF ScanLeft
    <3> QED BY <1>2, <1>4, <2>1, <2>3, <3>4, <3>7, <3>8 DEF Left, Drives
  <2> QED BY <2>2, <2>3
<1> QED BY <1>1, <1>2, <1>5, <1>6, AgreeWork

(* The runner: a command ends, or an abort stops it.                        *)
LEMMA AgreeRunner ==
  ASSUME Typed, AgreeInv, NEW t \in Tasks, Abort(t) \/ \E k \in 1..2 : ExecEnds(t, k)
  PROVE  AgreeInv'
<1>1. /\ Tables /\ exec[t] \in Execs /\ rows[t] \in Row /\ DOMAIN rows = Tasks /\ DOMAIN exec = Tasks
      /\ DOMAIN output = Tasks
  BY TableFacts DEF Typed, Tasks
<1>2. UNCHANGED <<go, steps, results, file, cut, unstarted>>
  BY DEF Abort, ExecEnds, rowVars, history
<1>3. /\ \/ rows' = rows
         \/ /\ Mirrors(t) /\ rows[t].deploy = "pending"
            /\ rows' = [rows EXCEPT ![t].deploy = "aborted"]
      /\ DOMAIN rows' = Tasks
  BY <1>1 DEF Abort, ExecEnds, rowVars
<1>4. /\ rows'[t].kind = rows[t].kind /\ rows'[t].status = rows[t].status
      /\ rows'[t].policy = rows[t].policy /\ rows'[t].curr = rows[t].curr
      /\ \/ rows'[t].deploy = rows[t].deploy
         \/ Mirrors(t) /\ rows[t].deploy = "pending" /\ rows'[t].deploy = "aborted"
      /\ \A u \in Tasks \ {t} : rows'[u] = rows[u]
  BY <1>1, <1>3 DEF Row
<1>5. \A u \in Tasks \ {t} : exec'[u] = exec[u] /\ output'[u] = output[u]
  <2>1. CASE Abort(t)
    BY <1>1, <2>1 DEF Abort
  <2>2. ASSUME NEW k \in 1..2, ExecEnds(t, k)
        PROVE  \A u \in Tasks \ {t} : exec'[u] = exec[u] /\ output'[u] = output[u]
    BY <1>1, <2>2 DEF ExecEnds
  <2> QED BY <2>1, <2>2
<1>6. /\ Ran(t)' = Ran(t) /\ (Mirrors(t)' <=> Mirrors(t)) /\ ScanStep(t)' = ScanStep(t)
      /\ (Filed(t)' <=> Filed(t)) /\ ScanStep(t) \in 1..2 /\ (~Mirrors(t) => ScanStep(t) = 2)
      /\ (Untouched(t)' <=> Untouched(t)) /\ (Agreed(t)' <=> Agreed(t)) /\ (Done(t)' <=> Done(t))
      /\ (Busy(t)' <=> Busy(t))
  BY <1>2, <1>4, ResultsKept DEF Ran, ScanStep, Mirrors, Filed, Busy
<1>7. ASSUME Filing(t)
      PROVE  /\ exec'[t][ScanStep(t)] = "complete" => Clean(t)'
             /\ exec'[t][ScanStep(t)] = "violated" => ~Clean(t)'
             /\ ~Mirrors(t) => exec'[t][1] # "violated"
  <2>1. CASE Abort(t)
    <3>1. output' = output /\ \A j \in 1..2 : exec'[t][j] = exec[t][j] \/ exec'[t][j] = "failed"
      BY <1>1, <2>1 DEF Abort, Execs
    <3> QED BY <1>6, <1>7, <3>1 DEF Filing, Clean
  <2>2. ASSUME NEW k \in 1..2, ExecEnds(t, k), k # ScanStep(t)
        PROVE  /\ output' = output
               /\ \A j \in 1..2 : \/ exec'[t][j] = exec[t][j]
                                  \/ (j = k /\ exec'[t][j] # "violated")
    BY <1>1, <2>2 DEF ExecEnds, Execs
  <2>3. ASSUME NEW k \in 1..2, ExecEnds(t, k), k = ScanStep(t),
               exec' = [exec EXCEPT ![t][k] = "failed"], output' = output
        PROVE  \A j \in 1..2 : exec'[t][j] = exec[t][j] \/ exec'[t][j] = "failed"
    BY <1>1, <2>3 DEF Execs
  <2>4. ASSUME NEW k \in 1..2, k = ScanStep(t),
               NEW read \in SUBSET sent[t], NEW found \in [read -> Verdicts],
               output' = [output EXCEPT ![t] = found],
               exec' = [exec EXCEPT ![t][k] =
                     IF \E p \in read : found[p] = "violated" THEN "violated" ELSE "complete"]
        PROVE  /\ exec'[t][k] = "complete" => Clean(t)'
               /\ exec'[t][k] = "violated" => ~Clean(t)'
               /\ \A j \in 1..2 : j = k \/ exec'[t][j] = exec[t][j]
    <3>1. output'[t] = found
      BY <1>1, <2>4
    <3>2. exec'[t][k] = IF \E p \in read : found[p] = "violated" THEN "violated" ELSE "complete"
      BY <1>1, <2>4 DEF Execs
    <3>3. \A j \in 1..2 : j = k \/ exec'[t][j] = exec[t][j]
      BY <1>1, <2>4 DEF Execs
    <3> QED BY <3>1, <3>2, <3>3 DEF Clean
  <2>5. ASSUME NEW k \in 1..2, ExecEnds(t, k)
        PROVE  /\ exec'[t][ScanStep(t)] = "complete" => Clean(t)'
               /\ exec'[t][ScanStep(t)] = "violated" => ~Clean(t)'
               /\ ~Mirrors(t) => exec'[t][1] # "violated"
    <3>1. CASE k # ScanStep(t)
      BY <1>6, <1>7, <2>2, <2>5, <3>1 DEF Filing, Clean
    <3>2. CASE k = ScanStep(t) /\ exec' = [exec EXCEPT ![t][k] = "failed"] /\ output' = output
      BY <1>6, <1>7, <2>3, <2>5, <3>2 DEF Filing, Clean
    <3>3. ASSUME k = ScanStep(t), NEW read \in SUBSET sent[t], NEW found \in [read -> Verdicts],
                 output' = [output EXCEPT ![t] = found],
                 exec' = [exec EXCEPT ![t][k] =
                     IF \E p \in read : found[p] = "violated" THEN "violated" ELSE "complete"]
          PROVE  /\ exec'[t][ScanStep(t)] = "complete" => Clean(t)'
                 /\ exec'[t][ScanStep(t)] = "violated" => ~Clean(t)'
                 /\ ~Mirrors(t) => exec'[t][1] # "violated"
      <4>1. /\ exec'[t][k] = "complete" => Clean(t)'
            /\ exec'[t][k] = "violated" => ~Clean(t)'
            /\ \A j \in 1..2 : j = k \/ exec'[t][j] = exec[t][j]
        BY <2>4, <3>3
      <4>2. ~Mirrors(t) => 1 # k /\ exec[t][1] # "violated"
        BY <1>6, <1>7, <3>3 DEF Filing
      <4> QED BY <3>3, <4>1, <4>2
    <3> QED BY <2>5, <3>1, <3>2, <3>3 DEF ExecEnds
  <2> QED BY <2>1, <2>5
<1>8. Filing(t) => Filing(t)'
  BY <1>2, <1>6, <1>7 DEF Filing
<1>9. Good(t)'
  <2>1. Good(t) /\ Alone(t)'
    BY <1>2 DEF AgreeInv, Good, Alone, On
  <2> SUFFICES ASSUME t \notin unstarted
               PROVE  /\ Filing(t)' /\ Left(t)' /\ (~Busy(t)' => Rest(t)')
                      /\ \A g \in Goroutines : On(g, t)' => Drives(g)'
    BY <1>2, <2>1 DEF Good
  <2>2. /\ Filing(t) /\ Left(t) /\ (~Busy(t) => Rest(t))
        /\ \A g \in Goroutines : On(g, t) => Drives(g)
    BY <2>1 DEF Good
  <2>3. Left(t)'
    BY <1>2, <1>4, <1>6, <2>2 DEF Left, MirrorLeft, ScanLeft
  <2>4. ~Busy(t)' => Rest(t)'
    BY <1>2, <1>4, <1>6, <2>2 DEF Rest, Left, MirrorLeft
  <2>5. ASSUME NEW g \in Goroutines, On(g, t)' PROVE Drives(g)'
    <3>1. Drives(g) /\ go'[g] = go[g] /\ go[g].task = t
      BY <1>2, <2>2, <2>5 DEF On
    <3>2. CASE Mirrors(t)
      <4>1. MirrorDriver(g)
        BY <3>1, <3>2 DEF Drives
      <4>2. MirrorDriver(g)'
        BY <1>2, <1>4, <1>6, <3>1, <4>1 DEF MirrorDriver
      <4> QED BY <1>2, <1>4, <1>6, <3>1, <3>2, <4>2 DEF Drives
    <3>3. CASE ~Mirrors(t)
      BY <1>2, <1>4, <1>6, <3>1, <3>3 DEF Drives, ScanDriver
    <3> QED BY <3>2, <3>3
  <2> QED BY <1>8, <2>2, <2>3, <2>4, <2>5
<1>10. ASSUME NEW u \in Tasks, u # t PROVE Good(u)'
  <2>1. Good(u)
    BY DEF AgreeInv
  <2> QED BY <1>2, <1>4, <1>5, <1>10, <2>1, GoodKept
<1>11. Tasks' = Tasks
  BY <1>3 DEF Tasks
<1> QED BY <1>9, <1>10, <1>11 DEF AgreeInv

(* The goroutines that begin: never a second one.                           *)
LEMMA AgreeSpawn ==
  ASSUME ~SlowWrites, Typed, AgreeInv, NEW g \in Goroutines, NEW t \in Tasks,
         Pick(g, t) \/ Recover(g, t)
  PROVE  AgreeInv'
<1>1. /\ go[g].pc = "off" /\ UNCHANGED <<rows, steps, exec, results, file, output, cut, unstarted>>
      /\ go \in [Goroutines -> Go] /\ Tasks' = Tasks
  BY DEF Pick, Recover, rowVars, runVars, history, Typed, Processes, Tasks
<1>2. /\ ~Busy(t)
      /\ \/ /\ Spawn(g, t, TRUE)
            /\ IF Mirrors(t) THEN rows[t].deploy = "pending" ELSE rows[t].status = "pending"
         \/ /\ Spawn(g, t, FALSE)
            /\ IF Mirrors(t) THEN rows[t].deploy = "running" ELSE rows[t].status = "running"
  BY DEF Pick, Recover, Lost
<1>3. /\ go'[g].pc = "begin" /\ go'[g].task = t /\ go'[g].k = 1
      /\ \/ /\ go'[g].new
            /\ IF Mirrors(t) THEN rows[t].deploy = "pending" ELSE rows[t].status = "pending"
         \/ /\ ~go'[g].new
            /\ IF Mirrors(t) THEN rows[t].deploy = "running" ELSE rows[t].status = "running"
      /\ \A h \in Goroutines \ {g} : go'[h] = go[h]
  BY <1>1, <1>2, ZenonT(60) DEF Spawn, NoGo
<1>4. Good(t)'
  <2>1. Good(t)
    BY DEF AgreeInv
  <2>2. \A h \in Goroutines : On(h, t)' => h = g
    BY <1>2, <1>3 DEF Busy, On
  <2>3. Alone(t)' /\ Busy(t)'
    <3>1. Alone(t)'
      BY <2>2 DEF Alone
    <3> QED BY <1>3, <3>1 DEF Busy
  <2> SUFFICES ASSUME t \notin unstarted PROVE Filing(t)' /\ Left(t)' /\ Drives(g)'
    BY <1>1, <2>2, <2>3 DEF Good
  <2>4. /\ Ran(t)' = Ran(t) /\ (Mirrors(t)' <=> Mirrors(t))
        /\ (Untouched(t)' <=> Untouched(t)) /\ (Agreed(t)' <=> Agreed(t)) /\ (Done(t)' <=> Done(t))
    BY <1>1, ResultsKept DEF Ran, ScanStep, Mirrors
  <2>5. Filing(t)' /\ Left(t)
    BY <1>1, <2>1, <2>4, FilingKept DEF Good
  <2>6. Left(t)'
    BY <1>1, <2>4, <2>5 DEF Left, MirrorLeft, ScanLeft
  <2>7. CASE Mirrors(t)
    <3>1. MirrorDriver(g)'
      BY <1>1, <1>3, <2>4, <2>5, <2>7 DEF MirrorDriver, Left, MirrorLeft
    <3> QED BY <1>3, <2>4, <2>5, <2>6, <2>7, <3>1 DEF Drives
  <2>8. CASE ~Mirrors(t)
    <3>1. Untouched(t) /\ rows[t].status \in Open
      BY <1>3, <2>5, <2>8 DEF Left, ScanLeft, Open
    <3>2. ScanDriver(g)'
      BY <1>1, <1>3, <2>4, <3>1 DEF ScanDriver
    <3> QED BY <1>3, <2>4, <2>5, <2>6, <2>8, <3>2 DEF Drives
  <2> QED BY <2>7, <2>8
<1>5. ASSUME NEW u \in Tasks, u # t PROVE Good(u)'
  <2>1. Good(u) /\ \A h \in Goroutines : On(h, u) \/ On(h, u)' => go'[h] = go[h]
    BY <1>1, <1>3, <1>5 DEF AgreeInv, On
  <2> QED BY <1>1, <2>1, GoodKept
<1> QED BY <1>1, <1>4, <1>5 DEF AgreeInv

(* A task is created.                                                       *)
LEMMA AgreeCreate ==
  ASSUME Typed, Typed', AgreeInv, NEW s \in Sessions, CallWrite(s)
  PROVE  AgreeInv'
<1>0. PICK n : n = Len(rows)
  OBVIOUS
<1>1. /\ n \in Nat /\ Tasks = 1..n /\ Tasks' = 1..(n + 1) /\ UNCHANGED <<go, cut, unstarted>>
      /\ rows'[n + 1].status = "pending" /\ rows'[n + 1].policy = "pending"
      /\ rows'[n + 1].curr = 1 /\ rows'[n + 1].deploy \in {"pending", "none"}
      /\ steps'[n + 1] = <<"pending", "pending">> /\ exec'[n + 1] = <<"none", "none">>
      /\ file'[n + 1] = Nothing
      /\ \A p \in Policies : results'[n + 1][p] \in {"pending", "suppressed", "none"}
      /\ \A u \in Tasks :
            /\ rows'[u] = rows[u] /\ steps'[u] = steps[u] /\ exec'[u] = exec[u]
            /\ output'[u] = output[u] /\ file'[u] = file[u] /\ results'[u] = results[u]
  BY <1>0, CreateStep
<1>2. \A g \in Goroutines : go[g].pc # "off" => go[g].task \in Tasks
  BY DEF Typed, Processes
<1>3. ASSUME NEW u \in Tasks PROVE Good(u)'
  <2>1. Good(u) /\ \A h \in Goroutines : go'[h] = go[h]
    BY <1>1 DEF AgreeInv
  <2> QED BY <1>1, <2>1, GoodKept
<1>4. ASSUME NEW u, u = n + 1 PROVE Good(u)'
  <2>1. u \in Tasks' /\ u \notin Tasks
    BY <1>1, <1>4
  <2>2. /\ rows'[u].status = "pending" /\ rows'[u].policy = "pending"
        /\ rows'[u].curr = 1 /\ rows'[u].deploy \in {"pending", "none"}
        /\ steps'[u] = <<"pending", "pending">> /\ exec'[u] = <<"none", "none">>
        /\ file'[u] = Nothing
        /\ \A p \in Policies : results'[u][p] \in {"pending", "suppressed", "none"}
    BY <1>1, <1>4
  <2>3. \A g \in Goroutines : ~On(g, u)'
    BY <1>1, <1>2, <2>1 DEF On
  <2>4. Mirrors(u)' => rows'[u].deploy = "pending"
    BY <2>1, <2>2 DEF Typed, Kinds
  <2>5. ScanStep(u)' \in 1..2 /\ Ran(u)' = "pending" /\ exec'[u][ScanStep(u)'] = "none"
    <3>1. ScanStep(u)' \in 1..2
      BY DEF ScanStep
    <3> QED BY <2>2, <3>1 DEF Ran
  <2>6. Untouched(u)'
    BY <2>2 DEF Untouched
  <2>7. Filing(u)'
    BY <2>2, <2>5 DEF Filing, Open
  <2>8. Left(u)' /\ Rest(u)'
    BY <2>2, <2>4, <2>5, <2>6 DEF Left, MirrorLeft, ScanLeft, Rest, Open
  <2> QED BY <2>3, <2>7, <2>8 DEF Good, Alone
<1>5. \A u \in Tasks' : u \in Tasks \/ u = n + 1
  BY <1>1
<1> QED BY <1>3, <1>4, <1>5 DEF AgreeInv

LEMMA AgreeNext == ~SlowWrites /\ Typed /\ Typed' /\ AgreeInv /\ [Next]_vars => AgreeInv'
<1> SUFFICES ASSUME ~SlowWrites, Typed, Typed', AgreeInv, [Next]_vars PROVE AgreeInv'
  OBVIOUS
<1>1. ASSUME NEW s \in Sessions, CallWrite(s) PROVE AgreeInv'
  BY <1>1, AgreeCreate
<1>2. ASSUME UNCHANGED <<rows, steps, exec, results, file, output, go, cut, unstarted>> PROVE AgreeInv'
  <2> SUFFICES ASSUME NEW t \in Tasks PROVE Good(t)'
    BY <1>2 DEF AgreeInv, Tasks
  <2>1. Good(t)
    BY DEF AgreeInv
  <2> QED BY <1>2, <2>1, GoodKept
<1>3. CASE \/ \E s \in Sessions, c \in Calls : CallRead(s, c)
           \/ EnableScan \/ Link \/ Suppress \/ Recovered \/ UNCHANGED vars
  BY <1>2, <1>3 DEF CallRead, EnableScan, Link, Suppress, Recovered, vars, rowVars, runVars, history
<1>4. CASE \E t \in Tasks : Abort(t) \/ \E k \in 1..2 : ExecEnds(t, k)
  BY <1>4, AgreeRunner
<1>5. CASE \E g \in Goroutines, t \in Tasks : Pick(g, t) \/ Recover(g, t)
  BY <1>5, AgreeSpawn
<1>6. CASE Crash
  BY <1>6, AgreeDown DEF Crash, rowVars, runVars
<1>7. CASE \E g \in Goroutines : Work(g) \/ StartFails(g) \/ SendFails(g) \/ WaitFails(g)
  BY <1>7, AgreeBegin, AgreeLoad, AgreeStep, AgreeSend, AgreeEnds, AgreeStepDone,
     AgreeResults, AgreeJudge, AgreeSettle, AgreeStartFails DEF Work
<1> QED BY <1>1, <1>3, <1>4, <1>5, <1>6, <1>7 DEF Next

(* Once a task is over, what its scan says as a whole agrees with what it   *)
(* says of each policy, through deaths of the portal, where no round of the *)
(* main loop starts a second goroutine for a scan.                          *)
THEOREM AgreeCorrect == ASSUME ~SlowWrites PROVE Spec => []ResultsAgree
<1>1. Typed /\ AgreeInv => ResultsAgree
  <2> SUFFICES ASSUME Typed, AgreeInv, NEW t \in Tasks, t \notin unstarted, t \notin cut,
                      Quiet(t), ~Unrecorded(t)
               PROVE  /\ CASE rows[t].policy = "violated" ->
                                (\E p \in Policies : results[t][p] = "violated") \/ file[t] = Nothing
                           [] rows[t].policy = "failed" -> \A p \in Policies : results[t][p] = "none"
                           [] OTHER -> ~\E p \in Policies : results[t][p] = "violated"
                      /\ (\E p \in Policies : results[t][p] = "pending") =>
                           steps[t][ScanStep(t)] = "pending"
    BY DEF ResultsAgree
  <2>1. Left(t) /\ Rest(t)
    BY DEF AgreeInv, Good, Quiet
  <2>2. Done(t) \/ (Mirrors(t) /\ Ran(t) = "pending")
    BY <2>1 DEF Rest, Quiet, Over, TaskExited, Open
  <2>3. CASE Done(t)
    <3>1. Agreed(t) /\ rows[t].policy \in PolicyStatuses
      BY <2>3, TableFacts DEF Done, Typed, Row
    <3> QED BY <3>1 DEF Agreed, PolicyStatuses, Verdicts
  <2>4. CASE Mirrors(t) /\ Ran(t) = "pending"
    <3>1. rows[t].policy = "pending" /\ Untouched(t)
      BY <2>1, <2>4 DEF Left, MirrorLeft, Open
    <3> QED BY <2>4, <3>1 DEF Untouched, Ran
  <2> QED BY <2>2, <2>3, <2>4
<1> QED BY <1>1, TypedInit, TypedNext, AgreeInit, AgreeNext, PTL DEF Spec
=============================================================================
