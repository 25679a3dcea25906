---------------------------- MODULE Webhook_proofs ----------------------------
(***************************************************************************)
(* Theorems of Webhook: its types; that a delivery makes all of its tasks  *)
(* or none; that calls which do not meet leave one hook, there where an    *)
(* environment has triggers; that no task is made that applies or destroys *)
(* without its plan, its scan and its approval; and that the runners of a  *)
(* list take turns; for any environments, files, repositories, runners,    *)
(* requests and failures.                                                  *)
(***************************************************************************)
EXTENDS Webhook, FiniteSetTheorems, SequenceTheorems, TLAPS

-----------------------------------------------------------------------------
(* Loops over the numbers from 1, by the least of a set of numbers.         *)

(* A set of numbers has a least one: of the intervals up to its members one *)
(* includes no other, for inclusion of finite sets is well-founded.         *)
LEMMA LeastOf == ASSUME NEW T \in SUBSET Nat, T # {} PROVE \E n \in T : \A m \in T : n <= m
<1> DEFINE U == {1..n : n \in T}
           R == StrictSubsetOrdering(Nat)
           F == FiniteSubsetsOf(Nat)
<1>1. IsWellFoundedOn(R, F) BY FS_StrictSubsetOrderingWellFounded
<1>2. U \subseteq F
  BY FS_Interval DEF FiniteSubsetsOf
<1>2a. U # {} OBVIOUS
<1>3. \E x \in U : \A y \in U : <<y, x>> \notin R
  <2> HIDE DEF R, U, F
  <2> QED BY <1>1, <1>2, <1>2a, WFMin
<1>4. PICK n \in T : \A m \in T : <<1..m, 1..n>> \notin R
  BY <1>3
<1>5. ASSUME NEW m \in T, m < n PROVE <<1..m, 1..n>> \in R
  <2>1. 1..m \in SUBSET Nat /\ 1..n \in SUBSET Nat OBVIOUS
  <2>2. n \in 1..n /\ n \notin 1..m /\ 1..m \subseteq 1..n BY <1>5
  <2> QED BY <2>1, <2>2 DEF StrictSubsetOrdering
<1>6. \A m \in T : ~(m < n)
  <2> HIDE DEF R, U, F
  <2> QED BY <1>4, <1>5
<1>7. n \in Nat /\ \A m \in T : m \in Nat
  OBVIOUS
<1> HIDE DEF R, U, F
<1> QED BY <1>6, <1>7

(* Induction up to n, for the numbers in G.                                 *)
LEMMA UpTo ==
  ASSUME NEW n \in Nat, NEW G, 0 \in G, \A k \in 1..n : k - 1 \in G => k \in G
  PROVE  0..n \subseteq G
<1> SUFFICES ASSUME ~(0..n \subseteq G) PROVE FALSE
  OBVIOUS
<1> DEFINE T == (0..n) \ G
<1>1. T \in SUBSET Nat /\ T # {}
  OBVIOUS
<1>2. PICK k \in T : \A m \in T : k <= m
  <2> HIDE DEF T
  <2> QED BY <1>1, LeastOf
<1> QED BY <1>2

(* A loop over 1..n that starts with v0 and whose steps are functions.      *)
Run(f, n, v0, step) == f = [k \in 0..n |-> IF k = 0 THEN v0 ELSE step[k][f[k - 1]]]
LEMMA Runs ==
  ASSUME NEW n \in Nat, NEW V, NEW v0 \in V, NEW step \in [1..n -> [V -> V]]
  PROVE  \E f \in [0..n -> V] : Run(f, n, v0, step)
<1> DEFINE G == {m \in 0..n : \E f \in [0..m -> V] : Run(f, m, v0, step)}
<1>1. 0 \in G
  <2> DEFINE f == [k \in 0..0 |-> v0]
  <2>1. f \in [0..0 -> V] /\ Run(f, 0, v0, step)
    BY DEF Run
  <2> QED BY <2>1
<1>2. ASSUME NEW k \in 1..n, k - 1 \in G PROVE k \in G
  <2>1. PICK f \in [0..(k - 1) -> V] : Run(f, k - 1, v0, step)
    BY <1>2
  <2> DEFINE g == [m \in 0..k |-> IF m = k THEN step[k][f[k - 1]] ELSE f[m]]
  <2>2. g \in [0..k -> V]
    BY <2>1
  <2>3. ASSUME NEW m \in 0..k PROVE g[m] = IF m = 0 THEN v0 ELSE step[m][g[m - 1]]
    <3>1. CASE m = k
      BY <3>1
    <3>2. CASE m # k
      <4>1. m \in 0..(k - 1) /\ (m # 0 => m - 1 \in 0..(k - 1))
        BY <3>2
      <4>2. f[m] = IF m = 0 THEN v0 ELSE step[m][f[m - 1]]
        BY <2>1, <4>1 DEF Run
      <4>3. g[m] = f[m] /\ (m # 0 => g[m - 1] = f[m - 1])
        BY <3>2, <4>1
      <4> QED BY <4>2, <4>3
    <3> QED BY <3>1, <3>2
  <2>4. Run(g, k, v0, step)
    BY <2>2, <2>3 DEF Run
  <2> QED BY <2>2, <2>4
<1>3. 0..n \subseteq G
  <2> HIDE DEF G
  <2> QED BY <1>1, <1>2, UpTo
<1> QED BY <1>3

(* What the loop of Filtered has when it is done with k elements.           *)
Filters(f, n, S, s, T) ==
    /\ f \in [0..n -> Seq(S)] /\ f[0] = << >> /\ Filtered(s, T) = f[n]
    /\ \A k \in 1..n : f[k] = IF s[k] \in T THEN Append(f[k - 1], s[k]) ELSE f[k - 1]

LEMMA FilteredRuns ==
  ASSUME NEW S, NEW s \in Seq(S), NEW T
  PROVE  \E f : Filters(f, Len(s), S, s, T)
<1> DEFINE n == Len(s)
           V == Seq(S)
           Kept(v, k) == IF s[k] \in T THEN Append(v, s[k]) ELSE v
           step == [k \in 1..n |-> [v \in V |-> Kept(v, k)]]
           Loop(g) == g = [k \in 0..n |-> IF k = 0 THEN << >> ELSE Kept(g[k - 1], k)]
<1>1. n \in Nat /\ << >> \in V /\ \A k \in 1..n : s[k] \in S
  OBVIOUS
<1>2. \A k \in 1..n, v \in V : Kept(v, k) \in V
  BY <1>1
<1>3. step \in [1..n -> [V -> V]]
  <2> HIDE DEF n, V, Kept
  <2> QED BY <1>2
<1>4. PICK f \in [0..n -> V] : Run(f, n, << >>, step)
  <2> HIDE DEF n, V, step
  <2> QED BY <1>1, <1>3, Runs
<1>5. Loop(f)
  <2>1. f = [k \in 0..n |-> IF k = 0 THEN << >> ELSE step[k][f[k - 1]]]
    BY <1>4 DEF Run
  <2>2. \A k \in 0..n : k # 0 => k \in 1..n /\ f[k - 1] \in V
    <3> HIDE DEF n, V, step
    <3> QED BY <1>1, <1>4
  <2>3. \A k \in 1..n, v \in V : step[k][v] = Kept(v, k)
    OBVIOUS
  <2> HIDE DEF n, V, step, Kept
  <2> QED BY <2>1, <2>2, <2>3
<1> DEFINE g == CHOOSE g : Loop(g)
<1>6. Loop(g)
  <2> HIDE DEF Loop
  <2> QED BY <1>5
<1>7. Filtered(s, T) = g[n]
  BY DEF Filtered
<1> HIDE DEF g
<1>8. /\ g[0] = << >> /\ g = [k \in 0..n |-> g[k]]
      /\ \A k \in 1..n : g[k] = Kept(g[k - 1], k)
  <2>1. g = [k \in 0..n |-> IF k = 0 THEN << >> ELSE Kept(g[k - 1], k)]
    BY <1>6
  <2> HIDE DEF Kept, n, V, step, Loop
  <2>2. 0 \in 0..n /\ \A k \in 1..n : k \in 0..n /\ k # 0
    BY <1>1
  <2>3. g[0] = << >>
    BY <2>1, <2>2
  <2>4. g = [k \in 0..n |-> g[k]]
    BY <2>1
  <2>5. \A k \in 1..n : g[k] = Kept(g[k - 1], k)
    BY <2>1, <2>2
  <2> QED BY <2>3, <2>4, <2>5
<1>9. \A k \in 0..n : g[k] \in V
  <2> DEFINE G == {k \in 0..n : g[k] \in V}
  <2>1. 0 \in G
    <3> HIDE DEF V, n
    <3> QED BY <1>1, <1>8
  <2>2. ASSUME NEW k \in 1..n, k - 1 \in G PROVE k \in G
    <3> HIDE DEF Kept, V
    <3> QED BY <1>2, <1>8, <2>2
  <2>3. 0..n \subseteq G
    <3> HIDE DEF G, V, n
    <3> QED BY <1>1, <2>1, <2>2, UpTo
  <2> QED BY <2>3
<1>10. g \in [0..n -> V]
  <2> HIDE DEF V, n
  <2> QED BY <1>8, <1>9
<1>11. Filters(g, n, S, s, T)
  <2> HIDE DEF V, n
  <2> QED BY <1>7, <1>8, <1>10 DEF V, Filters
<1> QED BY <1>11

(* Where the elements of r, what the loop leaves of the first k of s, stand *)
(* in s: in the same order, all that are in T and no others.                *)
Places(h, r, s, T, k) ==
    /\ h \in [1..Len(r) -> 1..k]
    /\ \A i, j \in 1..Len(r) : i < j => h[i] < h[j]
    /\ \A i \in 1..Len(r) : r[i] = s[h[i]] /\ r[i] \in T
    /\ \A m \in 1..k : s[m] \in T => \E i \in 1..Len(r) : h[i] = m

LEMMA FilteredFacts ==
  ASSUME NEW S, NEW s \in Seq(S), NEW T
  PROVE  /\ Filtered(s, T) \in Seq(S)
         /\ \E h : Places(h, Filtered(s, T), s, T, Len(s))
<1> DEFINE n == Len(s)
<1>1. PICK f : Filters(f, n, S, s, T)
  BY FilteredRuns, Zenon
<1>2. n \in Nat /\ \A k \in 1..n : s[k] \in S
  OBVIOUS
<1> HIDE DEF n
<1> DEFINE G == {k \in 0..n : \E h : Places(h, f[k], s, T, k)}
<1>3. 0 \in G
  <2> DEFINE h == [i \in 1..0 |-> i]
  <2>1. Places(h, << >>, s, T, 0)
    BY DEF Places
  <2> QED BY <1>1, <1>2, <2>1 DEF Filters
<1>4. ASSUME NEW k \in 1..n, k - 1 \in G PROVE k \in G
  <2> DEFINE old == f[k - 1]
             new == f[k]
  <2>1. PICK h : Places(h, old, s, T, k - 1)
    BY <1>4
  <2>2. old \in Seq(S) /\ k \in Nat /\ s[k] \in S
    BY <1>1, <1>2 DEF Filters
  <2>3. CASE s[k] \in T
    <3>1. new = Append(old, s[k])
      BY <1>1, <2>3 DEF Filters
    <3> HIDE DEF old, new
    <3>2. /\ Len(new) = Len(old) + 1 /\ Len(old) \in Nat /\ new[Len(old) + 1] = s[k]
          /\ \A i \in 1..Len(old) : new[i] = old[i]
      BY <2>2, <3>1
    <3> DEFINE g == [i \in 1..(Len(old) + 1) |-> IF i = Len(old) + 1 THEN k ELSE h[i]]
    <3>3. h \in [1..Len(old) -> 1..(k - 1)]
      BY <2>1 DEF Places
    <3>4. \A i \in 1..(Len(old) + 1) : i = Len(old) + 1 \/ i \in 1..Len(old)
      BY <3>2
    <3>5. /\ g \in [1..(Len(old) + 1) -> 1..k] /\ g[Len(old) + 1] = k
          /\ \A i \in 1..Len(old) : g[i] = h[i] /\ h[i] \in 1..(k - 1)
      BY <2>2, <3>2, <3>3, <3>4
    <3> HIDE DEF g
    <3>6. \A i, j \in 1..(Len(old) + 1) : i < j => g[i] < g[j]
      <4> SUFFICES ASSUME NEW i \in 1..(Len(old) + 1), NEW j \in 1..(Len(old) + 1), i < j
                   PROVE  g[i] < g[j]
        OBVIOUS
      <4>1. i \in 1..Len(old)
        BY <3>2
      <4>2. CASE j = Len(old) + 1
        BY <2>2, <3>5, <4>1, <4>2
      <4>3. CASE j \in 1..Len(old)
        BY <2>1, <3>5, <4>1, <4>3 DEF Places
      <4> QED BY <3>4, <4>2, <4>3
    <3>7. \A i \in 1..(Len(old) + 1) : new[i] = s[g[i]] /\ new[i] \in T
      BY <2>1, <2>3, <3>2, <3>4, <3>5 DEF Places
    <3>8. \A m \in 1..k : s[m] \in T => \E i \in 1..(Len(old) + 1) : g[i] = m
      <4> SUFFICES ASSUME NEW m \in 1..k, s[m] \in T
                   PROVE  \E i \in 1..(Len(old) + 1) : g[i] = m
        OBVIOUS
      <4>1. CASE m = k
        BY <3>2, <3>5, <4>1
      <4>2. CASE m \in 1..(k - 1)
        <5>1. PICK i \in 1..Len(old) : h[i] = m
          BY <2>1, <4>2 DEF Places
        <5> QED BY <3>2, <3>5, <5>1
      <4> QED BY <2>2, <4>1, <4>2
    <3>9. Places(g, new, s, T, k)
      BY <3>2, <3>5, <3>6, <3>7, <3>8 DEF Places
    <3> QED BY <3>9 DEF new
  <2>4. CASE s[k] \notin T
    <3>1. new = old
      BY <1>1, <2>4 DEF Filters
    <3> HIDE DEF old, new
    <3>2. Places(h, new, s, T, k)
      BY <2>1, <2>2, <2>4, <3>1 DEF Places
    <3> QED BY <3>2 DEF new
  <2> QED BY <2>3, <2>4
<1>5. 0..n \subseteq G
  <2> HIDE DEF G
  <2> QED BY <1>2, <1>3, <1>4, UpTo
<1>6. n \in G
  BY <1>2, <1>5
<1>7. Filtered(s, T) \in Seq(S) /\ \E h : Places(h, Filtered(s, T), s, T, n)
  BY <1>1, <1>2, <1>6 DEF Filters
<1> QED BY <1>7 DEF n

-----------------------------------------------------------------------------
(* The steps of a task.                                                     *)

(* Types of steps: those the repository may give, and ours.                 *)
StepTypes == STRING \union {"checkout", "terraformInit", "terraformPlan", "envScan",
                            "terraformApply", "terraformDestroy", "ansiblePlay"}
StepRow == [type : StepTypes, destroy : BOOLEAN]
Step(type, destroy) == [type |-> type, destroy |-> destroy]

(* A sequence is a function over the first numbers.                         *)
LEMMA SeqFacts ==
  ASSUME NEW S, NEW n \in Nat, NEW s \in [1..n -> S]
  PROVE  s \in Seq(S) /\ Len(s) = n
<1>1. s \in Seq(S)
  BY SeqDef
<1> QED BY <1>1, LenProperties

Over(n, S) == [1..n -> S]
Joined(r, s, t, m, n) ==
    /\ \A k \in 1..m : r[k] = s[k]
    /\ \A k \in 1..n : r[m + k] = t[k]

LEMMA ConcatFacts ==
  ASSUME NEW S, NEW m \in Nat, NEW n \in Nat, NEW s \in Over(m, S), NEW t \in Over(n, S)
  PROVE  s \o t \in Over(m + n, S) /\ Joined(s \o t, s, t, m, n)
<1>1. s \in Seq(S) /\ t \in Seq(S) /\ Len(s) = m /\ Len(t) = n
  BY SeqFacts DEF Over
<1>2. s \o t \in Seq(S) /\ Len(s \o t) = m + n
  BY <1>1, ConcatProperties
<1>3. s \o t \in Over(m + n, S)
  BY <1>2, LenProperties DEF Over
<1>4. \A k \in 1..(m + n) : (s \o t)[k] = IF k <= m THEN s[k] ELSE t[k - m]
  BY <1>1, ConcatProperties
<1>5. ASSUME NEW k \in 1..n PROVE (s \o t)[m + k] = t[k]
  <2>1. m + k \in 1..(m + n) /\ ~(m + k <= m) /\ (m + k) - m = k
    OBVIOUS
  <2> QED BY <1>4, <2>1
<1>6. ASSUME NEW k \in 1..m PROVE (s \o t)[k] = s[k]
  <2>1. k \in 1..(m + n) /\ k <= m
    OBVIOUS
  <2> QED BY <1>4, <2>1
<1> QED BY <1>3, <1>5, <1>6 DEF Joined

LEMMA TupleFacts ==
  ASSUME NEW S, NEW a \in S, NEW b \in S, NEW c \in S, NEW d \in S
  PROVE  /\ <<a>> \in Over(1, S) /\ <<a>>[1] = a
         /\ <<a, b>> \in Over(2, S) /\ <<a, b>>[1] = a /\ <<a, b>>[2] = b
         /\ <<a, b, c, d>> \in Over(4, S) /\ <<a, b, c, d>>[1] = a /\ <<a, b, c, d>>[2] = b
         /\ <<a, b, c, d>>[3] = c /\ <<a, b, c, d>>[4] = d
  BY DEF Over

LEMMA PlainFacts ==
  ASSUME NEW n \in Nat, NEW types \in Over(n, StepTypes)
  PROVE  /\ Plain(types) \in Over(n, StepRow)
         /\ \A k \in 1..n : Plain(types)[k] = Step(types[k], FALSE)
  BY DEF Plain, Over, StepRow, Step

(* The default flow.                                                        *)
LEMMA PartFacts ==
  /\ Checkout \in Over(2, StepRow) /\ Checkout[1] = Step("checkout", FALSE)
  /\ Checkout[2] = Step("terraformInit", FALSE)
  /\ Deploy \in Over(2, StepRow) /\ Deploy[1] = Step("terraformApply", FALSE)
  /\ Deploy[2] = Step("ansiblePlay", FALSE)
  /\ PlanDestroy \in Over(1, StepRow) /\ PlanDestroy[1] = Step("terraformPlan", TRUE)
  /\ LET s == Plain(<<"terraformPlan", "envScan">>)
     IN  /\ s \in Over(2, StepRow) /\ s[1] = Step("terraformPlan", FALSE)
         /\ s[2] = Step("envScan", FALSE)
  /\ LET s == Plain(<<"terraformDestroy">>)
     IN  s \in Over(1, StepRow) /\ s[1] = Step("terraformDestroy", FALSE)
<1>1. ASSUME NEW a \in StepTypes, NEW b \in StepTypes
      PROVE  LET s == Plain(<<a, b>>)
             IN  s \in Over(2, StepRow) /\ s[1] = Step(a, FALSE) /\ s[2] = Step(b, FALSE)
  <2> DEFINE types == <<a, b>>
  <2>1. types \in Over(2, StepTypes) /\ types[1] = a /\ types[2] = b
    BY TupleFacts
  <2> HIDE DEF types
  <2>2. Plain(types) \in Over(2, StepRow) /\ \A k \in 1..2 : Plain(types)[k] = Step(types[k], FALSE)
    BY <2>1, PlainFacts
  <2>3. 1 \in 1..2 /\ 2 \in 1..2
    OBVIOUS
  <2> QED BY <2>1, <2>2, <2>3, Zenon DEF types
<1>2. ASSUME NEW a \in StepTypes
      PROVE  LET s == Plain(<<a>>) IN s \in Over(1, StepRow) /\ s[1] = Step(a, FALSE)
  <2> DEFINE types == <<a>>
  <2>1. types \in Over(1, StepTypes) /\ types[1] = a
    BY TupleFacts
  <2> HIDE DEF types
  <2>2. Plain(types) \in Over(1, StepRow) /\ \A k \in 1..1 : Plain(types)[k] = Step(types[k], FALSE)
    BY <2>1, PlainFacts
  <2>3. 1 \in 1..1
    OBVIOUS
  <2> QED BY <2>1, <2>2, <2>3, Zenon DEF types
<1>3. /\ "checkout" \in StepTypes /\ "terraformInit" \in StepTypes
      /\ "terraformPlan" \in StepTypes /\ "envScan" \in StepTypes
      /\ "terraformApply" \in StepTypes /\ "terraformDestroy" \in StepTypes
      /\ "ansiblePlay" \in StepTypes
  BY DEF StepTypes
<1>4. PlanDestroy \in Over(1, StepRow) /\ PlanDestroy[1] = Step("terraformPlan", TRUE)
  <2>1. Step("terraformPlan", TRUE) \in StepRow
    BY <1>3 DEF Step, StepRow
  <2>2. PlanDestroy = << Step("terraformPlan", TRUE) >>
    BY DEF PlanDestroy, Step
  <2> QED BY <2>1, <2>2, TupleFacts
<1> QED BY <1>1, <1>2, <1>3, <1>4, Zenon DEF Checkout, Deploy

LEMMA PlanFlow ==
  LET s == PipelineV0dot4["plan"]
  IN  /\ s \in Over(4, StepRow)
      /\ s[1] = Step("checkout", FALSE) /\ s[2] = Step("terraformInit", FALSE)
      /\ s[3] = Step("terraformPlan", FALSE) /\ s[4] = Step("envScan", FALSE)
<1> DEFINE s == PipelineV0dot4["plan"]
           last == Plain(<<"terraformPlan", "envScan">>)
<1>1. s = Checkout \o last
  BY DEF PipelineV0dot4
<1> HIDE DEF s, last
<1>2. 2 \in Nat
  OBVIOUS
<1>3. s \in Over(2 + 2, StepRow) /\ Joined(s, Checkout, last, 2, 2)
  BY <1>1, <1>2, PartFacts, ConcatFacts, Zenon DEF last
<1>4. s[1] = Checkout[1] /\ s[2] = Checkout[2] /\ s[3] = last[1] /\ s[4] = last[2]
  BY <1>3 DEF Joined
<1>5. 2 + 2 = 4
  OBVIOUS
<1> QED BY <1>3, <1>4, <1>5, PartFacts DEF s, last

LEMMA ApplyFlow ==
  LET s == PipelineV0dot4["apply"]
  IN  /\ s \in Over(6, StepRow)
      /\ s[1] = Step("checkout", FALSE) /\ s[2] = Step("terraformInit", FALSE)
      /\ s[3] = Step("terraformPlan", FALSE) /\ s[4] = Step("envScan", FALSE)
      /\ s[5] = Step("terraformApply", FALSE) /\ s[6] = Step("ansiblePlay", FALSE)
<1> DEFINE s == PipelineV0dot4["apply"]
           plan == PipelineV0dot4["plan"]
<1>1. s = plan \o Deploy
  BY DEF PipelineV0dot4
<1> HIDE DEF s, plan
<1>2. 2 \in Nat /\ 4 \in Nat
  OBVIOUS
<1>3. s \in Over(4 + 2, StepRow) /\ Joined(s, plan, Deploy, 4, 2)
  BY <1>1, <1>2, PartFacts, PlanFlow, ConcatFacts, Zenon DEF plan
<1>4. /\ s[1] = plan[1] /\ s[2] = plan[2] /\ s[3] = plan[3] /\ s[4] = plan[4]
      /\ s[5] = Deploy[1] /\ s[6] = Deploy[2]
  BY <1>3 DEF Joined
<1>5. 4 + 2 = 6
  OBVIOUS
<1> QED BY <1>3, <1>4, <1>5, PartFacts, PlanFlow DEF s, plan

LEMMA DestroyFlow ==
  LET s == PipelineV0dot4["destroy"]
  IN  /\ s \in Over(4, StepRow)
      /\ s[1] = Step("checkout", FALSE) /\ s[2] = Step("terraformInit", FALSE)
      /\ s[3] = Step("terraformPlan", TRUE) /\ s[4] = Step("terraformDestroy", FALSE)
<1> DEFINE s == PipelineV0dot4["destroy"]
           last == Plain(<<"terraformDestroy">>)
           plan == Checkout \o PlanDestroy
<1>1. s = plan \o last
  BY DEF PipelineV0dot4, Destroy
<1>2. 1 \in Nat /\ 2 \in Nat /\ 3 \in Nat
  OBVIOUS
<1> HIDE DEF s, last
<1>3. plan \in Over(2 + 1, StepRow) /\ Joined(plan, Checkout, PlanDestroy, 2, 1)
  BY <1>2, PartFacts, ConcatFacts, Zenon
<1> HIDE DEF plan
<1>4. plan[1] = Checkout[1] /\ plan[2] = Checkout[2] /\ plan[3] = PlanDestroy[1]
  BY <1>3 DEF Joined
<1>5. 2 + 1 = 3 /\ 3 + 1 = 4
  OBVIOUS
<1>6. plan \in Over(3, StepRow)
  BY <1>3, <1>5
<1>7. s \in Over(3 + 1, StepRow) /\ Joined(s, plan, last, 3, 1)
  BY <1>1, <1>2, <1>6, PartFacts, ConcatFacts, Zenon DEF last
<1>8. s[1] = plan[1] /\ s[2] = plan[2] /\ s[3] = plan[3] /\ s[4] = last[1]
  BY <1>7 DEF Joined
<1> QED BY <1>4, <1>5, <1>7, <1>8, PartFacts DEF s, last

(* A flow with a plan, one scan at most and one effect is sound.            *)
LEMMA ShapeSound ==
  ASSUME NEW s, NEW type, NEW scanned, NEW effect \in {4, 5}, DOMAIN s \subseteq Nat \ {0},
         \A k \in DOMAIN s : s[k].type \in ScanTypes => k = 4,
         \A k \in DOMAIN s : s[k].type \in EffectTypes => k = effect,
         type # "plan", s[3].type = "terraformPlan",
         s[3].destroy = (s[effect].type = "terraformDestroy"),
         type = "apply" \/ scanned => effect = 5 /\ s[4].type \in ScanTypes
  PROVE  SoundFlow(s, type, scanned)
<1>1. 3 \in 1..(effect - 1) /\ (effect = 5 => 4 \in 1..(effect - 1))
  OBVIOUS
<1>2. \A i, j \in DOMAIN s : s[i].type \in ScanTypes /\ s[j].type \in ScanTypes => i = j
  OBVIOUS
<1>3. ASSUME NEW k \in DOMAIN s, s[k].type \in EffectTypes
      PROVE  /\ \E i \in 1..(k - 1) :
                  /\ s[i].type = "terraformPlan"
                  /\ s[i].destroy = (s[k].type = "terraformDestroy")
             /\ type = "apply" \/ scanned => \E i \in 1..(k - 1) : s[i].type \in ScanTypes
  <2>1. k = effect
    BY <1>3
  <2> QED BY <1>1, <2>1, Zenon
<1> QED BY <1>2, <1>3 DEF SoundFlow

LEMMA DefaultSound ==
  ASSUME NEW type \in Types
  PROVE  LET s == PipelineV0dot4[type] IN s \in Seq(StepRow) /\ SoundFlow(s, type, FALSE)
<1> DEFINE s == PipelineV0dot4[type]
<1>1. CASE type = "plan"
  <2>1. /\ s \in Over(4, StepRow)
        /\ s[1].type = "checkout" /\ s[2].type = "terraformInit"
        /\ s[3].type = "terraformPlan" /\ s[4].type = "envScan"
    BY <1>1, PlanFlow DEF Step
  <2> HIDE DEF s
  <2>2. SoundFlow(s, type, FALSE)
    BY <2>1 DEF SoundFlow, ScanTypes, EffectTypes, Over
  <2> QED BY <2>1, <2>2, SeqFacts DEF s, Over
<1>2. CASE type = "apply"
  <2>1. /\ s \in Over(6, StepRow)
        /\ s[1].type = "checkout" /\ s[2].type = "terraformInit"
        /\ s[3].type = "terraformPlan" /\ s[3].destroy = FALSE /\ s[4].type = "envScan"
        /\ s[5].type = "terraformApply" /\ s[6].type = "ansiblePlay"
    BY <1>2, ApplyFlow DEF Step
  <2> HIDE DEF s
  <2>2. /\ \A k \in DOMAIN s : s[k].type \in ScanTypes => k = 4
        /\ \A k \in DOMAIN s : s[k].type \in EffectTypes => k = 5
        /\ DOMAIN s \subseteq Nat \ {0} /\ s[4].type \in ScanTypes
        /\ ~(s[5].type = "terraformDestroy")
    BY <2>1 DEF ScanTypes, EffectTypes, Over
  <2>3. s[3].destroy = (s[5].type = "terraformDestroy")
    BY <2>1, <2>2, Zenon
  <2>4. SoundFlow(s, type, FALSE)
    BY <1>2, <2>1, <2>2, <2>3, ShapeSound
  <2> QED BY <2>1, <2>4, SeqFacts DEF s, Over
<1>3. CASE type = "destroy"
  <2>1. /\ s \in Over(4, StepRow)
        /\ s[1].type = "checkout" /\ s[2].type = "terraformInit"
        /\ s[3].type = "terraformPlan" /\ s[3].destroy = TRUE /\ s[4].type = "terraformDestroy"
    BY <1>3, DestroyFlow DEF Step
  <2> HIDE DEF s
  <2>2. /\ \A k \in DOMAIN s : s[k].type \in ScanTypes => k = 4
        /\ \A k \in DOMAIN s : s[k].type \in EffectTypes => k = 4
        /\ DOMAIN s \subseteq Nat \ {0}
    BY <2>1 DEF ScanTypes, EffectTypes, Over
  <2>3. s[3].destroy = (s[4].type = "terraformDestroy")
    BY <2>1, Zenon
  <2>4. SoundFlow(s, type, FALSE)
    BY <1>3, <2>1, <2>2, <2>3, ShapeSound
  <2> QED BY <2>1, <2>4, SeqFacts DEF s, Over
<1> QED BY <1>1, <1>2, <1>3 DEF Types

(* The flow of a file in version 0.5.                                       *)
LEMMA NamesFacts ==
  /\ LET s == StepNames["plan"]
     IN  /\ s \in Over(4, StepTypes) /\ s[1] = "checkout" /\ s[2] = "terraformInit"
         /\ s[3] = "terraformPlan" /\ s[4] = "envScan"
  /\ LET s == StepNames["apply"]
     IN  /\ s \in Over(6, StepTypes) /\ s[1] = "checkout" /\ s[2] = "terraformInit"
         /\ s[3] = "terraformPlan" /\ s[4] = "envScan"
         /\ s[5] = "terraformApply" /\ s[6] = "ansiblePlay"
  /\ LET s == StepNames["destroy"]
     IN  /\ s \in Over(5, StepTypes) /\ s[1] = "checkout" /\ s[2] = "terraformInit"
         /\ s[3] = "terraformPlan" /\ s[4] = "envScan" /\ s[5] = "terraformDestroy"
<1> DEFINE plan == <<"checkout", "terraformInit", "terraformPlan", "envScan">>
           deploy == <<"terraformApply", "ansiblePlay">>
           last == <<"terraformDestroy">>
           apply == plan \o deploy
           destroy == plan \o last
<1>1. /\ "checkout" \in StepTypes /\ "terraformInit" \in StepTypes
      /\ "terraformPlan" \in StepTypes /\ "envScan" \in StepTypes
      /\ "terraformApply" \in StepTypes /\ "terraformDestroy" \in StepTypes
      /\ "ansiblePlay" \in StepTypes
  BY DEF StepTypes
<1>2. /\ plan \in Over(4, StepTypes) /\ plan[1] = "checkout" /\ plan[2] = "terraformInit"
      /\ plan[3] = "terraformPlan" /\ plan[4] = "envScan"
  BY <1>1, TupleFacts
<1>3. deploy \in Over(2, StepTypes) /\ deploy[1] = "terraformApply" /\ deploy[2] = "ansiblePlay"
  BY <1>1, TupleFacts
<1>4. last \in Over(1, StepTypes) /\ last[1] = "terraformDestroy"
  BY <1>1, TupleFacts
<1>5. StepNames["plan"] = plan /\ StepNames["apply"] = apply /\ StepNames["destroy"] = destroy
  BY DEF StepNames
<1> HIDE DEF plan, deploy, last
<1>6. 1 \in Nat /\ 2 \in Nat /\ 4 \in Nat
  OBVIOUS
<1>7. /\ apply \in Over(4 + 2, StepTypes) /\ Joined(apply, plan, deploy, 4, 2)
      /\ destroy \in Over(4 + 1, StepTypes) /\ Joined(destroy, plan, last, 4, 1)
  BY <1>2, <1>3, <1>4, <1>6, ConcatFacts, Zenon
<1> HIDE DEF apply, destroy
<1>8. /\ apply[1] = plan[1] /\ apply[2] = plan[2] /\ apply[3] = plan[3] /\ apply[4] = plan[4]
      /\ apply[5] = deploy[1] /\ apply[6] = deploy[2]
      /\ destroy[1] = plan[1] /\ destroy[2] = plan[2] /\ destroy[3] = plan[3]
      /\ destroy[4] = plan[4] /\ destroy[5] = last[1]
  BY <1>7 DEF Joined
<1>9. 4 + 2 = 6 /\ 4 + 1 = 5
  OBVIOUS
<1>10. apply \in Over(6, StepTypes) /\ destroy \in Over(5, StepTypes)
  BY <1>7, <1>9
<1> QED BY <1>2, <1>3, <1>4, <1>5, <1>8, <1>10

LEMMA NamedSound ==
  ASSUME NEW type \in Types, NEW file, File(file), file.version = "0.5", SoundFile(file)
  PROVE  LET s == CompletePipelineDot5(file.tasks, type)
         IN  s \in Seq(StepRow) /\ s # << >> /\ SoundFlow(s, type, TRUE)
<1> DEFINE names == StepNames[type]
           named == file.tasks[type]
           Arg(name) == \/ name \in DOMAIN named /\ named[name]
                        \/ type = "destroy" /\ name = "terraformPlan"
           s == CompletePipelineDot5(file.tasks, type)
<1>1. s = [k \in DOMAIN names |-> [type |-> names[k], destroy |-> Arg(names[k])]]
  BY DEF CompletePipelineDot5
<1>2. \A name : Arg(name) \in BOOLEAN
  BY Zenon
<1>3. /\ type = "apply" => ~Arg("terraformPlan")
      /\ type = "destroy" => Arg("terraformPlan")
  BY Zenon DEF SoundFile
<1>4. PICK n \in {4, 5, 6} :
        /\ names \in Over(n, StepTypes) /\ names[1] = "checkout" /\ names[2] = "terraformInit"
        /\ names[3] = "terraformPlan" /\ names[4] = "envScan"
        /\ type = "plan" => n = 4
        /\ type = "apply" => n = 6 /\ names[5] = "terraformApply" /\ names[6] = "ansiblePlay"
        /\ type = "destroy" => n = 5 /\ names[5] = "terraformDestroy"
  BY NamesFacts DEF Types
<1> HIDE DEF Arg
<1>5. s = [k \in 1..n |-> [type |-> names[k], destroy |-> Arg(names[k])]]
  BY <1>1, <1>4 DEF Over
<1>6. /\ s \in Over(n, StepRow) /\ \A k \in 1..n : s[k].type = names[k]
      /\ s[3].destroy = Arg("terraformPlan")
  BY <1>2, <1>4, <1>5 DEF StepRow, Over
<1> HIDE DEF s, names
<1>7. s \in Seq(StepRow) /\ s # << >>
  BY <1>4, <1>6, SeqFacts DEF Over
<1>8. SoundFlow(s, type, TRUE)
  <2>1. CASE type = "plan"
    BY <1>4, <1>6, <2>1 DEF SoundFlow, ScanTypes, EffectTypes, Over
  <2>2. CASE type = "apply"
    <3>1. /\ \A k \in DOMAIN s : s[k].type \in ScanTypes => k = 4
          /\ \A k \in DOMAIN s : s[k].type \in EffectTypes => k = 5
          /\ DOMAIN s \subseteq Nat \ {0} /\ s[4].type \in ScanTypes
          /\ s[3].type = "terraformPlan" /\ s[5].type = "terraformApply"
      BY <1>4, <1>6, <2>2 DEF ScanTypes, EffectTypes, Over
    <3>2. s[3].destroy = (s[5].type = "terraformDestroy")
      <4>1. Arg("terraformPlan") = FALSE
        BY <1>2, <1>3, <2>2
      <4>2. ~(s[5].type = "terraformDestroy")
        BY <3>1
      <4> QED BY <1>6, <4>1, <4>2, Zenon
    <3> QED BY <2>2, <3>1, <3>2, ShapeSound
  <2>3. CASE type = "destroy"
    <3>1. /\ \A k \in DOMAIN s : s[k].type \in ScanTypes => k = 4
          /\ \A k \in DOMAIN s : s[k].type \in EffectTypes => k = 5
          /\ DOMAIN s \subseteq Nat \ {0} /\ s[4].type \in ScanTypes
          /\ s[3].type = "terraformPlan" /\ s[5].type = "terraformDestroy"
      BY <1>4, <1>6, <2>3 DEF ScanTypes, EffectTypes, Over
    <3>2. s[3].destroy = (s[5].type = "terraformDestroy")
      <4>1. Arg("terraformPlan") = TRUE
        BY <1>2, <1>3, <2>3
      <4> QED BY <1>6, <3>1, <4>1, Zenon
    <3> QED BY <2>3, <3>1, <3>2, ShapeSound
  <2> QED BY <2>1, <2>2, <2>3 DEF Types
<1> QED BY <1>7, <1>8 DEF s

(* The flow of a task, of a file that says nothing unsound.                 *)
LEMMA FlowSound ==
  ASSUME NEW type \in Types, NEW file, File(file), SoundFile(file)
  PROVE  LET s == GetTaskFlowWithPipeline(file, type)
         IN  s \in Seq(StepRow) /\ SoundFlow(s, type, file.version = "0.5")
<1> DEFINE s == GetTaskFlowWithPipeline(file, type)
           custom == CustomSteps(file, type)
<1>1. s = IF custom = << >> THEN PipelineV0dot4[type] ELSE custom
  BY DEF GetTaskFlowWithPipeline
<1>2. PipelineV0dot4[type] \in Seq(StepRow) /\ SoundFlow(PipelineV0dot4[type], type, FALSE)
  BY DefaultSound
<1>3. CASE file.version = "none"
  <2>1. custom = PipelineV0dot4[type]
    BY <1>3 DEF CustomSteps
  <2> QED BY <1>1, <1>2, <1>3, <2>1, Zenon
<1>4. CASE file.version \in {"0.3", "0.4"}
  <2>1. custom = file.tasks[type]
    BY <1>4 DEF CustomSteps
  <2>2. SoundFlow(custom, type, FALSE)
    BY <1>4, <2>1, Zenon DEF SoundFile
  <2>4. [type : STRING, destroy : BOOLEAN] \subseteq StepRow
    BY DEF StepRow, StepTypes
  <2>5. custom \in Seq([type : STRING, destroy : BOOLEAN])
    BY <1>4, <2>1, Zenon DEF File
  <2>6. custom \in Seq(StepRow)
    BY <2>4, <2>5, SeqMonotonic
  <2>3. (file.version = "0.5") = FALSE
    BY <1>4
  <2> QED BY <1>1, <1>2, <2>2, <2>3, <2>6, Zenon
<1>5. CASE file.version = "0.5"
  <2>1. custom = CompletePipelineDot5(file.tasks, type)
    BY <1>5 DEF CustomSteps
  <2>2. (file.version = "0.5") = TRUE
    BY <1>5
  <2> QED BY <1>1, <1>5, <2>1, <2>2, NamedSound, ZenonT(60)
<1> QED BY <1>3, <1>4, <1>5 DEF File

(* A flow keeps being sound as steps are left out that no effect needs.     *)
LEMMA StepsPrepared ==
  ASSUME NEW file, NEW type, NEW policy, NEW playbook, NEW auto, NEW scanned \in BOOLEAN,
         LET flow == GetTaskFlowWithPipeline(file, type)
         IN  flow \in Seq(StepRow) /\ SoundFlow(flow, type, scanned)
  PROVE  LET s == CreateTaskSteps(file, type, policy, playbook, auto)
         IN  /\ \A k \in DOMAIN s : s[k].type \in ScanTypes => policy
             /\ \A i, j \in DOMAIN s : s[i].type \in ScanTypes /\ s[j].type \in ScanTypes => i = j
             /\ \A k \in DOMAIN s : s[k].type \in EffectTypes =>
                  /\ type # "plan" /\ s[k].mustApproval = ~auto
                  /\ \E i \in 1..(k - 1) :
                       /\ s[i].type = "terraformPlan"
                       /\ s[i].destroy = (s[k].type = "terraformDestroy")
                  /\ policy /\ (type = "apply" \/ scanned) =>
                       \E i \in 1..(k - 1) : s[i].type \in ScanTypes
<1> DEFINE flow == GetTaskFlowWithPipeline(file, type)
           T == {step \in {flow[k] : k \in DOMAIN flow} : Wanted(step, policy, playbook)}
           steps == Filtered(flow, T)
           approves(k) == ~auto /\ steps[k].type \in EffectTypes
           s == CreateTaskSteps(file, type, policy, playbook, auto)
<1>1. s = [k \in DOMAIN steps |->
             [type |-> steps[k].type, destroy |-> steps[k].destroy, mustApproval |-> approves(k)]]
  BY DEF CreateTaskSteps
<1>2. flow \in Seq(StepRow) /\ SoundFlow(flow, type, scanned)
  OBVIOUS
<1> HIDE DEF flow
<1>3. /\ \A m \in DOMAIN flow : flow[m] \in T <=> Wanted(flow[m], policy, playbook)
      /\ DOMAIN flow = 1..Len(flow) /\ Len(flow) \in Nat
  BY <1>2
<1>4. PICK h : steps \in Seq(StepRow) /\ Places(h, steps, flow, T, Len(flow))
  <2> HIDE DEF T
  <2> QED BY <1>2, FilteredFacts
<1> HIDE DEF T, steps, s
<1>5. DOMAIN steps = 1..Len(steps) /\ Len(steps) \in Nat /\ DOMAIN s = DOMAIN steps
  BY <1>1, <1>4
<1>6. ASSUME NEW k \in DOMAIN s
      PROVE  /\ h[k] \in DOMAIN flow /\ Wanted(flow[h[k]], policy, playbook)
             /\ s[k].type = flow[h[k]].type /\ s[k].destroy = flow[h[k]].destroy
             /\ s[k].mustApproval = (~auto /\ s[k].type \in EffectTypes)
  <2>1. h[k] \in 1..Len(flow) /\ steps[k] = flow[h[k]] /\ steps[k] \in T
    BY <1>4, <1>5 DEF Places
  <2>2. s[k] = [type |-> steps[k].type, destroy |-> steps[k].destroy, mustApproval |-> approves(k)]
    BY <1>1, <1>5
  <2>3. Wanted(flow[h[k]], policy, playbook)
    BY <1>3, <2>1
  <2> HIDE DEF approves
  <2>4. s[k].type = steps[k].type /\ s[k].destroy = steps[k].destroy /\ s[k].mustApproval = approves(k)
    BY <2>2
  <2> QED BY <1>3, <2>1, <2>3, <2>4 DEF approves
<1>7. ASSUME NEW m \in DOMAIN flow, Wanted(flow[m], policy, playbook)
      PROVE  \E i \in DOMAIN s : h[i] = m
  BY <1>3, <1>4, <1>5, <1>7 DEF Places
<1>8. \A i, j \in DOMAIN s : h[i] < h[j] => i < j
  <2>1. \A i \in DOMAIN s : h[i] \in Nat
    BY <1>4, <1>5 DEF Places
  <2> QED BY <1>4, <1>5, <2>1 DEF Places
<1>9. \A i, j \in DOMAIN s : h[i] = h[j] => i = j
  <2>1. \A i \in DOMAIN s : h[i] \in Nat
    BY <1>4, <1>5 DEF Places
  <2> QED BY <1>4, <1>5, <2>1 DEF Places
<1>10. ASSUME NEW k \in DOMAIN s, s[k].type \in ScanTypes PROVE policy
  BY <1>6, <1>10 DEF Wanted
<1>11. ASSUME NEW i \in DOMAIN s, NEW j \in DOMAIN s, s[i].type \in ScanTypes, s[j].type \in ScanTypes
       PROVE  i = j
  <2>1. h[i] = h[j]
    BY <1>2, <1>6, <1>11 DEF SoundFlow
  <2> QED BY <1>9, <2>1
<1>12. ASSUME NEW k \in DOMAIN s, s[k].type \in EffectTypes
       PROVE  /\ type # "plan" /\ s[k].mustApproval = ~auto
              /\ \E i \in 1..(k - 1) :
                   /\ s[i].type = "terraformPlan"
                   /\ s[i].destroy = (s[k].type = "terraformDestroy")
              /\ policy /\ (type = "apply" \/ scanned) =>
                   \E i \in 1..(k - 1) : s[i].type \in ScanTypes
  <2>1. h[k] \in DOMAIN flow /\ flow[h[k]].type = s[k].type
    BY <1>6
  <2>2. s[k].mustApproval = ~auto
    BY <1>6, <1>12, Zenon
  <2>3. ASSUME NEW m \in 1..(h[k] - 1), Wanted(flow[m], policy, playbook)
        PROVE  \E i \in 1..(k - 1) : s[i].type = flow[m].type /\ s[i].destroy = flow[m].destroy
    <3>1. m \in DOMAIN flow /\ m < h[k] /\ h[k] \in Nat
      BY <1>3, <2>1
    <3>2. PICK i \in DOMAIN s : h[i] = m
      BY <1>7, <2>3, <3>1
    <3>3. i < k
      BY <1>8, <3>1, <3>2
    <3>4. i \in 1..(k - 1)
      BY <1>5, <3>3
    <3> QED BY <1>6, <3>2, <3>4
  <2>4. \E i \in 1..(k - 1) : /\ s[i].type = "terraformPlan"
                              /\ s[i].destroy = (s[k].type = "terraformDestroy")
    <3>1. PICK m \in 1..(h[k] - 1) : /\ flow[m].type = "terraformPlan"
                                     /\ flow[m].destroy = (flow[h[k]].type = "terraformDestroy")
      BY <1>2, <1>12, <2>1 DEF SoundFlow
    <3>2. Wanted(flow[m], policy, playbook)
      BY <3>1 DEF Wanted, ScanTypes
    <3> QED BY <2>1, <2>3, <3>1, <3>2, Zenon
  <2>5. ASSUME policy, type = "apply" \/ scanned
        PROVE  \E i \in 1..(k - 1) : s[i].type \in ScanTypes
    <3>1. PICK m \in 1..(h[k] - 1) : flow[m].type \in ScanTypes
      BY <1>2, <1>12, <2>1, <2>5 DEF SoundFlow
    <3>2. Wanted(flow[m], policy, playbook)
      BY <2>5, <3>1 DEF Wanted, ScanTypes
    <3> QED BY <2>3, <3>1, <3>2, Zenon
  <2>6. type # "plan"
    BY <1>2, <1>12, <2>1 DEF SoundFlow
  <2> QED BY <2>2, <2>4, <2>5, <2>6
<1> QED BY <1>10, <1>11, <1>12, Zenon DEF s

(* A set of numbers any two of which are equal has one at most.             *)
LEMMA OneAtMost ==
  ASSUME NEW K, \A i, j \in K : i = j
  PROVE  Cardinality(K) <= 1 /\ (K = {} => Cardinality(K) = 0)
<1>1. CASE K = {}
  BY <1>1, FS_EmptySet
<1>2. CASE K # {}
  <2>1. PICK k : K = {k}
    BY <1>2
  <2>2. Cardinality({k}) = 1
    BY FS_Singleton
  <2> QED BY <1>2, <2>1, <2>2
<1> QED BY <1>1, <1>2

LEMMA TaskPrepared ==
  ASSUME NEW p, NEW runner, proc[p].work.env \in Envs, proc[p].work.type \in Types,
         SoundFile(Setup[proc[p].work.env].file)
  PROVE  Prepared(NewTask(p, runner))
<1> DEFINE w == proc[p].work
           t == NewTask(p, runner)
           setup == Setup[w.env]
           s == CreateTaskSteps(setup.file, w.type, setup.policy, setup.playbook, w.auto)
           named == setup.file.version = "0.5"
           scans == {k \in DOMAIN s : s[k].type \in ScanTypes}
<1>1. File(setup.file) /\ setup.policy \in BOOLEAN
  BY SetupAssumption
<1>2. t.env = w.env /\ t.type = w.type /\ t.auto = w.auto /\ t.steps = s
  BY DEF NewTask
<1> HIDE DEF t
<1>3. /\ GetTaskFlowWithPipeline(setup.file, w.type) \in Seq(StepRow)
      /\ SoundFlow(GetTaskFlowWithPipeline(setup.file, w.type), w.type, named)
  BY <1>1, FlowSound
<1>4. named \in BOOLEAN
  OBVIOUS
<1> HIDE DEF named
<1>5. /\ \A k \in DOMAIN s : s[k].type \in ScanTypes => setup.policy
      /\ \A i, j \in DOMAIN s : s[i].type \in ScanTypes /\ s[j].type \in ScanTypes => i = j
      /\ \A k \in DOMAIN s : s[k].type \in EffectTypes =>
           /\ w.type # "plan" /\ s[k].mustApproval = ~w.auto
           /\ \E i \in 1..(k - 1) :
                /\ s[i].type = "terraformPlan"
                /\ s[i].destroy = (s[k].type = "terraformDestroy")
           /\ setup.policy /\ (w.type = "apply" \/ named) =>
                \E i \in 1..(k - 1) : s[i].type \in ScanTypes
  <2> HIDE DEF w, setup
  <2> QED BY <1>3, <1>4, StepsPrepared
<1> HIDE DEF s
<1>6. Mirrors(s) <= 1 /\ (Mirrors(s) = 1 => setup.policy)
  <2>1. \A i, j \in scans : i = j
    BY <1>5
  <2>2. scans # {} => setup.policy
    BY <1>5
  <2>3. Cardinality(scans) <= 1 /\ (scans = {} => Cardinality(scans) = 0)
    <3> HIDE DEF scans
    <3> QED BY <2>1, OneAtMost
  <2>4. Mirrors(s) = Cardinality(scans)
    BY DEF Mirrors
  <2> HIDE DEF scans, setup
  <2> QED BY <2>2, <2>3, <2>4
<1>7. Setup[t.env] = setup
  BY <1>2
<1> HIDE DEF w, setup
<1>8. named <=> Setup[t.env].file.version = "0.5"
  BY <1>7 DEF named
<1>9. ASSUME NEW k \in DOMAIN t.steps, t.steps[k].type \in EffectTypes
      PROVE  /\ t.type # "plan" /\ t.steps[k].mustApproval = ~t.auto
             /\ \E i \in 1..(k - 1) :
                  /\ t.steps[i].type = "terraformPlan"
                  /\ t.steps[i].destroy = (t.steps[k].type = "terraformDestroy")
             /\ Setup[t.env].policy /\ (t.type = "apply" \/ named) =>
                  \E i \in 1..(k - 1) : t.steps[i].type \in ScanTypes
  <2>1. k \in DOMAIN s /\ s[k].type \in EffectTypes
    BY <1>2, <1>9
  <2>2. /\ w.type # "plan" /\ s[k].mustApproval = ~w.auto
        /\ \E i \in 1..(k - 1) :
             /\ s[i].type = "terraformPlan"
             /\ s[i].destroy = (s[k].type = "terraformDestroy")
        /\ setup.policy /\ (w.type = "apply" \/ named) =>
             \E i \in 1..(k - 1) : s[i].type \in ScanTypes
    BY <1>5, <2>1, Zenon
  <2> QED BY <1>2, <1>7, <2>2, Zenon
<1>10. Mirrors(t.steps) <= 1 /\ (Mirrors(t.steps) = 1 => Setup[t.env].policy)
  BY <1>2, <1>6, <1>7, Zenon
<1>11. Prepared(t)
  BY <1>8, <1>9, <1>10, Zenon DEF Prepared
<1> QED BY <1>11 DEF t

-----------------------------------------------------------------------------
USE WebhookAssumption

-----------------------------------------------------------------------------
(* Types.                                                                   *)

LEMMA ElemsFacts ==
  /\ Repos[1] \in Elems(Repos) /\ \A k \in DOMAIN Repos : Repos[k] \in Elems(Repos)
  BY DEF Elems

WorkRow == [env : Envs, type : Types, auto : BOOLEAN]
Mark == [event : Nat, hook : Nat]

(* A request has its fields, ...                                            *)
Shaped(x) == x \in [pc : {x.pc}, op : {x.op}, by : {x.by}, work : {x.work}, row : {x.row},
                    form : {x.form}, triggers : {x.triggers}, repo : {x.repo}, hook : {x.hook},
                    tpl : {x.tpl}, due : {x.due}, todo : {x.todo}, made : {x.made},
                    failed : {x.failed}, list : {x.list}, rid : {x.rid}]

(* ... each is what it should be, ...                                       *)
Fields(x) ==
    /\ x.by \in Mark /\ x.row \in EnvRow /\ x.form \in FormRow
    /\ x.triggers \subseteq {"commit", "prmr"}
    /\ x.repo \in Elems(Repos) /\ x.tpl \in TplRow
    /\ x.due \subseteq WorkRow /\ x.todo \subseteq WorkRow
    /\ x.failed \in BOOLEAN /\ x.rid \in Nat

(* ... and it is at a point of the call it serves.                          *)
AtHook == {"list", "check", "delete", "add"}
Control(x) ==
    \/ x.op = "none" /\ x.pc = "idle" /\ x.made = {}
    \/ x.op = "create" /\ x.pc \in {"load", "store", "commit"} \union AtHook /\ x.work \in WorkRow
    \/ x.op = "deploy" /\ x.pc \in {"load", "store", "save", "commit"} \union AtHook
         /\ x.work \in WorkRow
    \/ x.op = "update" /\ x.pc \in {"commit"} \union AtHook /\ x.work.env \in Envs
    \/ x.op = "template" /\ x.pc \in AtHook
    \/ x.op = "deliver" /\ x.pc \in {"scan", "load", "store", "commit"}
         /\ (x.pc = "store" => x.work \in WorkRow)

Request(x) == Shaped(x) /\ Fields(x) /\ Control(x)

Typed ==
    /\ TypeOK
    /\ nextHook \in Nat \ {0}
    /\ left \in [calls : Nat, events : Nat, changes : Nat, faults : Nat]
    /\ \A m \in mail : m.by \in Mark
    /\ proc = [p \in Procs |-> proc[p]] /\ \A p \in Procs : Request(proc[p])

LEMMA IdleFacts ==
  /\ Request(Idle) /\ Idle.op = "none" /\ Idle.pc = "idle" /\ Idle.made = {} /\ Idle.todo = {}
  /\ Idle.due = {} /\ Idle.failed = FALSE /\ Idle.tpl = NoTpl /\ Idle.row = NoEnv
  /\ Idle.by = [event |-> 0, hook |-> 0] /\ Idle.form = Nothing
<1>1. NoTpl \in TplRow
  BY ElemsFacts DEF NoTpl, TplRow
<1>2. NoEnv \in EnvRow /\ Nothing \in FormRow /\ [event |-> 0, hook |-> 0] \in Mark
  BY DEF NoEnv, EnvRow, Nothing, FormRow, Mark, Types
<1>3. Shaped(Idle)
  BY DEF Shaped, Idle
<1>4. Fields(Idle)
  BY <1>1, <1>2, ElemsFacts DEF Fields, Idle
<1> QED BY <1>3, <1>4 DEF Request, Control, Idle

(* What a call has when it begins.                                          *)
Fresh(x, op, work) ==
    /\ Shaped(x) /\ Fields(x) /\ x.op = op /\ x.work = work
    /\ x.repo = tpl.repo /\ x.by.event = 0
    /\ x.made = {} /\ x.todo = {} /\ x.due = {} /\ x.failed = FALSE /\ x.row = NoEnv

LEMMA BegunFacts ==
  ASSUME Typed, NEW op, NEW e, NEW type, NEW auto
  PROVE  Fresh(Begun(op, e, type, auto), op, [env |-> e, type |-> type, auto |-> auto])
<1> DEFINE x == Begun(op, e, type, auto)
<1>1. tpl.repo \in Elems(Repos) /\ left.calls \in Nat
  BY DEF Typed, TypeOK, TplRow
<1>2. Shaped(Idle) /\ Fields(Idle)
  BY IdleFacts DEF Request
<1>3. /\ Shaped(x) /\ x.op = op /\ x.pc = Idle.pc /\ x.repo = tpl.repo
      /\ x.work = [env |-> e, type |-> type, auto |-> auto]
      /\ x.by = [event |-> 0, hook |-> left.calls]
      /\ x.made = Idle.made /\ x.todo = Idle.todo /\ x.due = Idle.due /\ x.failed = Idle.failed
      /\ x.tpl = Idle.tpl /\ x.row = Idle.row /\ x.form = Idle.form
      /\ x.triggers = Idle.triggers /\ x.rid = Idle.rid
  BY DEF Begun, Idle, Shaped
<1> HIDE DEF x
<1>4. Fields(x)
  BY <1>1, <1>2, <1>3 DEF Fields, Mark
<1>5. x.by.event = 0
  BY <1>3
<1> QED BY <1>3, <1>4, <1>5, IdleFacts DEF Fresh, x

(* Only the request p goes on.                                              *)
Only(p) == /\ proc' = [q \in Procs |-> proc'[q]]
           /\ \A q \in Procs \ {p} : proc'[q] = proc[q]

LEMMA GoesFacts ==
  ASSUME Typed, NEW p \in Procs, NEW y, Goes(p, y)
  PROVE  Only(p) /\ proc'[p] = y
  BY DEF Typed, Goes, Only

(* What a request carries stays the same.                                   *)
Same(x, y) ==
    /\ y.op = x.op /\ y.by = x.by /\ y.work = x.work /\ y.row = x.row /\ y.form = x.form
    /\ y.triggers = x.triggers /\ y.repo = x.repo /\ y.tpl = x.tpl
    /\ y.due = x.due /\ y.todo = x.todo /\ y.made = x.made /\ y.failed = x.failed

LEMMA MoveFacts ==
  ASSUME NEW x, Request(x), NEW pc
  PROVE  LET y == [x EXCEPT !.pc = pc]
         IN  Shaped(y) /\ Fields(y) /\ Same(x, y) /\ y.pc = pc
<1> DEFINE y == [x EXCEPT !.pc = pc]
<1>1. Shaped(y) /\ Same(x, y) /\ y.pc = pc /\ y.rid = x.rid
  BY DEF Request, Shaped, Same
<1> HIDE DEF y
<1>2. Fields(y)
  BY <1>1 DEF Request, Fields, Same
<1> QED BY <1>1, <1>2 DEF y

(* The calls to the hook.                                                   *)
LEMMA AfterHookEffect ==
  ASSUME Typed, NEW p \in Procs, proc[p].pc \in AtHook, AfterHook(p)
  PROVE  /\ Only(p) /\ Request(proc'[p])
         /\ IF proc[p].op \in {"update", "deploy"}
            THEN Same(proc[p], proc'[p]) /\ proc'[p].pc = "commit" ELSE proc'[p] = Idle
<1>1. Request(proc[p])
  BY DEF Typed
<1>2. CASE proc[p].op \in {"update", "deploy"}
  <2> DEFINE y == [proc[p] EXCEPT !.pc = "commit"]
  <2>1. Goes(p, y)
    BY <1>2 DEF AfterHook
  <2>2. Shaped(y) /\ Fields(y) /\ Same(proc[p], y) /\ y.pc = "commit"
    BY <1>1, MoveFacts
  <2> HIDE DEF y
  <2>3. Only(p) /\ proc'[p] = y
    BY <2>1, GoesFacts
  <2>4. Control(y)
    BY <1>1, <1>2, <2>2 DEF Request, Control, Same
  <2> QED BY <1>2, <2>2, <2>3, <2>4 DEF Request
<1>3. CASE proc[p].op \notin {"update", "deploy"}
  BY <1>3, GoesFacts, IdleFacts DEF AfterHook
<1> QED BY <1>2, <1>3

LEMMA ListEffect ==
  ASSUME Typed, NEW p \in Procs, ListWebhook(p)
  PROVE  /\ Only(p) /\ Request(proc'[p]) /\ proc[p].pc = "list"
         /\ IF proc[p].triggers # {} /\ hooks[proc[p].repo] # {} THEN AfterHook(p)
            ELSE /\ Same(proc[p], proc'[p])
                 /\ proc'[p].pc = IF proc[p].triggers = {} THEN "check" ELSE "add"
<1> DEFINE next == IF proc[p].triggers = {} THEN "check" ELSE "add"
<1>1. Request(proc[p]) /\ proc[p].pc = "list"
  BY DEF Typed, ListWebhook, At
<1>2. CASE proc[p].triggers # {} /\ hooks[proc[p].repo] # {}
  <2>1. AfterHook(p)
    BY <1>2 DEF ListWebhook
  <2> QED BY <1>1, <1>2, <2>1, AfterHookEffect DEF AtHook
<1>3. CASE ~(proc[p].triggers # {} /\ hooks[proc[p].repo] # {})
  <2>1. PICK hook : Goes(p, [proc[p] EXCEPT !.pc = next, !.hook = hook])
    BY <1>3 DEF ListWebhook
  <2> HIDE DEF next
  <2> DEFINE y == [proc[p] EXCEPT !.pc = next, !.hook = hook]
  <2>2. Shaped(y) /\ Same(proc[p], y) /\ y.pc = next /\ y.rid = proc[p].rid
    BY <1>1 DEF Request, Shaped, Same
  <2>3. Goes(p, y)
    BY <2>1
  <2> HIDE DEF y
  <2>7. Fields(y)
    BY <1>1, <2>2 DEF Request, Fields, Same
  <2>4. Only(p) /\ proc'[p] = y
    BY <2>3, GoesFacts
  <2>5. next \in {"check", "add"}
    BY DEF next
  <2>6. Control(y)
    BY <1>1, <2>2, <2>5 DEF Request, Control, Same, AtHook
  <2> QED BY <1>1, <1>3, <2>2, <2>4, <2>6, <2>7 DEF Request, next
<1> QED BY <1>2, <1>3

LEMMA CheckEffect ==
  ASSUME Typed, NEW p \in Procs, CheckExists(p)
  PROVE  /\ Only(p) /\ Request(proc'[p]) /\ proc[p].pc = "check"
         /\ IF \E e \in Envs : env[e].made /\ ~env[e].null THEN AfterHook(p)
            ELSE Same(proc[p], proc'[p]) /\ proc'[p].pc = "delete"
<1>1. Request(proc[p]) /\ proc[p].pc = "check"
  BY DEF Typed, CheckExists, At
<1>2. CASE \E e \in Envs : env[e].made /\ ~env[e].null
  <2>1. AfterHook(p)
    BY <1>2 DEF CheckExists
  <2> QED BY <1>1, <1>2, <2>1, AfterHookEffect DEF AtHook
<1>3. CASE ~\E e \in Envs : env[e].made /\ ~env[e].null
  <2> DEFINE y == [proc[p] EXCEPT !.pc = "delete"]
  <2>1. Goes(p, y)
    BY <1>3 DEF CheckExists
  <2>2. Shaped(y) /\ Fields(y) /\ Same(proc[p], y) /\ y.pc = "delete"
    BY <1>1, MoveFacts
  <2> HIDE DEF y
  <2>3. Only(p) /\ proc'[p] = y
    BY <2>1, GoesFacts
  <2>4. Control(y)
    BY <1>1, <2>2 DEF Request, Control, Same, AtHook
  <2> QED BY <1>1, <1>3, <2>2, <2>3, <2>4 DEF Request
<1> QED BY <1>2, <1>3

LEMMA AddDeleteEffect ==
  ASSUME Typed, NEW p \in Procs, AddWebhook(p) \/ DeleteWebhook(p) \/ HookFails(p)
  PROVE  Only(p) /\ Request(proc'[p]) /\ proc[p].pc \in AtHook /\ AfterHook(p)
<1>1. proc[p].pc \in AtHook /\ AfterHook(p)
  BY DEF AddWebhook, DeleteWebhook, HookFails, At, AtHook
<1> QED BY <1>1, AfterHookEffect

LEMMA TokenEffect ==
  ASSUME Typed, NEW p \in Procs, TokenFails(p)
  PROVE  Only(p) /\ proc'[p] = Idle /\ proc[p].pc = "list"
  BY GoesFacts DEF TokenFails, At

(* What a form makes of the row of an environment.                          *)
LEMMA EditedFacts ==
  ASSUME NEW row \in EnvRow, NEW form \in FormRow
  PROVE  LET new == Edited(row, form)
         IN  /\ new \in EnvRow /\ new.made = row.made
             /\ new.triggers = IF form.key THEN form.triggers ELSE row.triggers
             /\ new.null <=> row.null /\ ~form.key
<1> DEFINE triggers == IF form.key THEN form.triggers ELSE row.triggers
           null == row.null /\ ~form.key
           auto == IF form.autoKey THEN form.auto ELSE row.auto
<1>1. Edited(row, form) = [row EXCEPT !.triggers = triggers, !.null = null, !.auto = auto]
  BY DEF Edited, EnvRow
<1>2. triggers \in SUBSET {"commit", "prmr"} /\ auto \in BOOLEAN
  BY DEF EnvRow, FormRow
<1>3. null \in BOOLEAN
  BY Zenon
<1> HIDE DEF triggers, null, auto
<1>4. LET new == [row EXCEPT !.triggers = triggers, !.null = null, !.auto = auto]
      IN  new \in EnvRow /\ new.made = row.made /\ new.triggers = triggers /\ new.null = null
  BY <1>2, <1>3 DEF EnvRow
<1>5. /\ Edited(row, form) \in EnvRow /\ Edited(row, form).made = row.made
      /\ Edited(row, form).triggers = triggers /\ Edited(row, form).null = null
  BY <1>1, <1>4
<1> QED BY <1>5 DEF triggers, null

(* The calls begin.                                                         *)
LEMMA CreateEffect ==
  ASSUME Typed, NEW p \in Procs, NEW e \in Envs, NEW form \in Forms, CreateEnv(p, e, form)
  PROVE  LET y == proc'[p]
         IN  /\ Only(p) /\ Request(y) /\ proc[p].pc = "idle" /\ y.op = "create" /\ y.pc = "load"
             /\ y.work.env = e /\ y.triggers = form.triggers /\ y.repo = tpl.repo
             /\ y.row.made /\ (y.row.triggers # {} => y.triggers # {} /\ ~y.row.null)
             /\ y.by.event = 0 /\ y.made = {}
<1> DEFINE edited == Edited(NoEnv, form)
           row == [edited EXCEPT !.made = TRUE]
           x == Begun("create", e, form.type, form.auto)
           y == [x EXCEPT !.pc = "load", !.triggers = form.triggers, !.row = row]
<1>1. form \in FormRow /\ NoEnv \in EnvRow
  BY DEF NoEnv, EnvRow
<1>2. /\ edited \in EnvRow
      /\ edited.null <=> NoEnv.null /\ ~form.key
      /\ edited.triggers = IF form.key THEN form.triggers ELSE NoEnv.triggers
  BY <1>1, EditedFacts
<1> HIDE DEF edited
<1>3. /\ row \in EnvRow /\ row.made = TRUE /\ row.triggers = edited.triggers
      /\ row.null = edited.null
  <2>1. edited \in EnvRow
    BY <1>2
  <2> QED BY <2>1 DEF EnvRow
<1> HIDE DEF row
<1>4. Fresh(x, "create", [env |-> e, type |-> form.type, auto |-> form.auto])
  BY BegunFacts
<1> HIDE DEF x
<1>5. /\ Shaped(y) /\ y.op = x.op /\ y.pc = "load" /\ y.work = x.work /\ y.repo = x.repo
      /\ y.by = x.by /\ y.made = x.made /\ y.triggers = form.triggers /\ y.row = row
      /\ y.form = x.form /\ y.tpl = x.tpl /\ y.due = x.due /\ y.todo = x.todo
      /\ y.failed = x.failed /\ y.rid = x.rid
  BY <1>4 DEF Shaped, Fresh
<1>6. Goes(p, y) /\ proc[p].pc = "idle"
  BY DEF CreateEnv, Call, y, x, row, edited
<1> HIDE DEF y
<1>7. Only(p) /\ proc'[p] = y
  BY <1>6, GoesFacts
<1>8. Fields(y)
  BY <1>1, <1>3, <1>4, <1>5 DEF Fields, FormRow, Fresh
<1>9. Control(y)
  <2>1. y.work \in WorkRow
    BY <1>1, <1>4, <1>5 DEF WorkRow, FormRow, Fresh
  <2> QED BY <1>4, <1>5, <2>1 DEF Control, Fresh
<1>10. y.row.triggers # {} => form.triggers # {} /\ ~y.row.null
  <2>1. NoEnv.triggers = {}
    BY DEF NoEnv
  <2>2. row.triggers # {} => form.key /\ form.triggers # {}
    BY <1>2, <1>3, <2>1
  <2> QED BY <1>2, <1>3, <1>5, <2>2, Zenon
<1> QED BY <1>3, <1>4, <1>5, <1>6, <1>7, <1>8, <1>9, <1>10 DEF Request, Fresh

LEMMA DeployEffect ==
  ASSUME Typed, NEW p \in Procs, NEW e \in Envs, NEW form \in Forms, DeployEnv(p, e, form)
  PROVE  LET y == proc'[p]
         IN  /\ Only(p) /\ Request(y) /\ proc[p].pc = "idle" /\ y.op = "deploy" /\ y.pc = "load"
             /\ y.work.env = e /\ y.triggers = form.triggers /\ y.repo = tpl.repo
             /\ env[e].made /\ y.row = Edited(env[e], form)
             /\ y.by.event = 0 /\ y.made = {}
<1> DEFINE row == Edited(env[e], form)
           x == Begun("deploy", e, form.type, row.auto)
           y == [x EXCEPT !.pc = "load", !.triggers = form.triggers, !.row = row]
<1>1. form \in FormRow /\ env[e] \in EnvRow
  BY DEF Typed, TypeOK
<1>2. row \in EnvRow
  BY <1>1, EditedFacts
<1>3. Fresh(x, "deploy", [env |-> e, type |-> form.type, auto |-> row.auto])
  BY BegunFacts
<1>4. Goes(p, y) /\ proc[p].pc = "idle" /\ env[e].made
  BY DEF DeployEnv, Call
<1> HIDE DEF x, row
<1>5. /\ Shaped(y) /\ y.op = x.op /\ y.pc = "load" /\ y.work = x.work /\ y.repo = x.repo
      /\ y.by = x.by /\ y.made = x.made /\ y.triggers = form.triggers /\ y.row = row
      /\ y.form = x.form /\ y.tpl = x.tpl /\ y.due = x.due /\ y.todo = x.todo
      /\ y.failed = x.failed /\ y.rid = x.rid
  BY <1>3 DEF Shaped, Fresh
<1> HIDE DEF y
<1>6. Only(p) /\ proc'[p] = y
  BY <1>4, GoesFacts
<1>7. Fields(y)
  BY <1>1, <1>2, <1>3, <1>5 DEF Fields, FormRow, Fresh
<1>8. Control(y)
  <2>1. y.work \in WorkRow
    BY <1>1, <1>2, <1>3, <1>5 DEF WorkRow, FormRow, Fresh, EnvRow
  <2> QED BY <1>3, <1>5, <2>1 DEF Control, Fresh
<1> QED BY <1>3, <1>4, <1>5, <1>6, <1>7, <1>8 DEF Request, Fresh, row

LEMMA UpdateEffect ==
  ASSUME Typed, NEW p \in Procs, NEW e \in Envs, NEW form \in Forms, UpdateEnv(p, e, form)
  PROVE  LET y == proc'[p]
         IN  /\ Only(p) /\ Request(y) /\ proc[p].pc = "idle" /\ y.op = "update"
             /\ y.pc = IF form.key THEN "list" ELSE "commit"
             /\ y.work.env = e /\ y.triggers = form.triggers /\ y.repo = tpl.repo
             /\ env[e].made /\ y.form = form /\ y.row = NoEnv
             /\ y.by.event = 0 /\ y.made = {}
<1> DEFINE next == IF form.key THEN "list" ELSE "commit"
           x == Begun("update", e, "", FALSE)
           y == [x EXCEPT !.pc = next, !.form = form, !.triggers = form.triggers]
<1>1. form \in FormRow /\ next \in {"list", "commit"}
  OBVIOUS
<1>2. Fresh(x, "update", [env |-> e, type |-> "", auto |-> FALSE])
  BY BegunFacts
<1>3. Goes(p, y) /\ proc[p].pc = "idle" /\ env[e].made
  BY DEF UpdateEnv, Call
<1> HIDE DEF x, next
<1>4. /\ Shaped(y) /\ y.op = x.op /\ y.pc = next /\ y.work = x.work /\ y.repo = x.repo
      /\ y.by = x.by /\ y.made = x.made /\ y.triggers = form.triggers /\ y.row = x.row
      /\ y.form = form /\ y.tpl = x.tpl /\ y.due = x.due /\ y.todo = x.todo
      /\ y.failed = x.failed /\ y.rid = x.rid
  BY <1>2 DEF Shaped, Fresh
<1> HIDE DEF y
<1>5. Only(p) /\ proc'[p] = y
  BY <1>3, GoesFacts
<1>6. Fields(y)
  BY <1>1, <1>2, <1>4 DEF Fields, FormRow, Fresh
<1>7. y.work.env = e
  <2> DEFINE work == [env |-> e, type |-> "", auto |-> FALSE]
  <2>1. work.env = e
    OBVIOUS
  <2>2. y.work = work
    BY <1>2, <1>4 DEF Fresh
  <2> QED BY <2>1, <2>2
<1>8. Control(y)
  BY <1>1, <1>2, <1>4, <1>7 DEF Control, Fresh, AtHook
<1> QED BY <1>2, <1>3, <1>4, <1>5, <1>6, <1>7, <1>8 DEF Request, Fresh, next

LEMMA TemplateEffect ==
  ASSUME Typed, NEW p \in Procs, NEW form \in Forms, NEW repo \in Elems(Repos),
         UpdateTemplate(p, form, repo)
  PROVE  LET y == proc'[p]
         IN  /\ Only(p) /\ Request(y) /\ proc[p].pc = "idle" /\ y.op = "template"
             /\ y.pc = "list" /\ y.repo = repo /\ tpl' \in TplRow /\ tpl'.repo = repo
             /\ y.by.event = 0 /\ y.made = {} /\ y.row = NoEnv /\ y.work.env = ""
<1> DEFINE triggers == IF form.key THEN form.triggers \ {"prmr"} ELSE tpl.triggers
           x == Begun("template", "", "", FALSE)
           y == [x EXCEPT !.pc = "list", !.triggers = triggers, !.repo = repo]
<1>1. triggers \subseteq {"commit"}
  BY DEF Typed, TypeOK, TplRow, FormRow
<1>2. tpl' = [triggers |-> triggers, repo |-> repo] /\ proc[p].pc = "idle"
  BY DEF UpdateTemplate, Call
<1>3. Fresh(x, "template", [env |-> "", type |-> "", auto |-> FALSE])
  BY BegunFacts
<1>4. Goes(p, y)
  BY <1>2 DEF UpdateTemplate
<1> HIDE DEF x, triggers
<1>5. /\ Shaped(y) /\ y.op = x.op /\ y.pc = "list" /\ y.work = x.work /\ y.repo = repo
      /\ y.by = x.by /\ y.made = x.made /\ y.triggers = triggers /\ y.row = x.row
      /\ y.form = x.form /\ y.tpl = x.tpl /\ y.due = x.due /\ y.todo = x.todo
      /\ y.failed = x.failed /\ y.rid = x.rid
  BY <1>3 DEF Shaped, Fresh
<1> HIDE DEF y
<1>6. Only(p) /\ proc'[p] = y
  BY <1>4, GoesFacts
<1>7. Fields(y)
  BY <1>1, <1>3, <1>5 DEF Fields, Fresh
<1>8. Control(y)
  BY <1>3, <1>5 DEF Control, Fresh, AtHook
<1>9. y.work.env = ""
  <2> DEFINE work == [env |-> "", type |-> "", auto |-> FALSE]
  <2>1. work.env = ""
    OBVIOUS
  <2>2. y.work = work
    BY <1>3, <1>5 DEF Fresh
  <2> QED BY <2>1, <2>2
<1>10. tpl' \in TplRow /\ tpl'.repo = repo
  BY <1>1, <1>2 DEF TplRow
<1> QED BY <1>2, <1>3, <1>5, <1>6, <1>7, <1>8, <1>9, <1>10 DEF Request, Fresh

(* The handler of deliveries.                                               *)
LEMMA DueFacts ==
  ASSUME Typed, NEW kind
  PROVE  Due(kind) \subseteq WorkRow
<1> DEFINE Orders(type, of) == {[env |-> e, type |-> type, auto |-> env[e].auto] : e \in of}
<1>1. \A e \in Envs : env[e].auto \in BOOLEAN
  BY DEF Typed, TypeOK, EnvRow
<1>2. \A of \in SUBSET Envs : Orders("plan", of) \subseteq WorkRow /\ Orders("apply", of) \subseteq WorkRow
  BY <1>1 DEF WorkRow, Types
<1>3. \E of \in SUBSET Envs : Due(kind) = Orders("plan", of) \/ Due(kind) = Orders("apply", of)
  <2> DEFINE Wants(e, trigger) == env[e].made /\ ~env[e].archived /\ trigger \in env[e].triggers
             opened == {e \in Envs : Wants(e, "prmr")}
             pushed == {e \in Envs : Wants(e, "commit") /\ ~env[e].locked}
  <2>1. Due(kind) = IF kind = "open" THEN Orders("plan", opened) ELSE Orders("apply", pushed)
    BY DEF Due
  <2>2. opened \in SUBSET Envs /\ pushed \in SUBSET Envs
    OBVIOUS
  <2> HIDE DEF Orders, opened, pushed
  <2> QED BY <2>1, <2>2
<1> QED BY <1>2, <1>3

LEMMA ReceiveEffect ==
  ASSUME Typed, NEW p \in Procs, NEW m \in mail, Receive(p, m)
  PROVE  LET y == proc'[p]
         IN  /\ Only(p) /\ Request(y) /\ proc[p].pc = "idle" /\ y.op = "deliver"
             /\ \/ y.pc = "scan" /\ y.tpl = tpl
                \/ y.pc = "load" /\ y.due # {}
                \/ y.pc = "commit" /\ y.due = {}
             /\ y.by = m.by /\ y.todo = y.due /\ y.made = {} /\ y.failed = FALSE /\ y.row = NoEnv
<1> DEFINE due == IF m.repo = tpl.repo THEN Due(m.kind) ELSE {}
           next == IF m.repo = tpl.repo /\ tpl.triggers # {} THEN "scan" ELSE Then(due)
           y == [Idle EXCEPT !.pc = next, !.op = "deliver", !.by = m.by, !.tpl = tpl,
                             !.due = due, !.todo = due]
<1>1. Goes(p, y) /\ proc[p].pc = "idle"
  BY DEF Receive
<1>2. due \subseteq WorkRow
  BY DueFacts
<1>3. \/ next = "scan"
      \/ next = "load" /\ due # {}
      \/ next = "commit" /\ due = {}
  BY DEF Then
<1>4. m.by \in Mark /\ tpl \in TplRow
  BY DEF Typed, TypeOK
<1> HIDE DEF due, next
<1>5. /\ Shaped(y) /\ y.pc = next /\ y.op = "deliver" /\ y.by = m.by /\ y.tpl = tpl
      /\ y.due = due /\ y.todo = due /\ y.made = Idle.made /\ y.failed = Idle.failed
      /\ y.row = Idle.row /\ y.form = Idle.form /\ y.triggers = Idle.triggers
      /\ y.repo = Idle.repo /\ y.rid = Idle.rid
  BY DEF Idle, Shaped
<1> HIDE DEF y
<1>6. Only(p) /\ proc'[p] = y
  BY <1>1, GoesFacts
<1>7. Fields(y)
  BY <1>2, <1>4, <1>5, IdleFacts DEF Request, Fields
<1>8. Control(y)
  BY <1>3, <1>5 DEF Control
<1> QED BY <1>1, <1>3, <1>5, <1>6, <1>7, <1>8, IdleFacts DEF Request

LEMMA ScanEffect ==
  ASSUME Typed, NEW p \in Procs, CreateTplScan(p)
  PROVE  LET x == proc[p]
             y == proc'[p]
         IN  /\ Only(p) /\ Request(y) /\ x.pc = "scan" /\ x.op = "deliver" /\ y.op = "deliver"
             /\ y.pc = Then(x.todo) /\ y.by = x.by /\ y.due = x.due /\ y.todo = x.todo
             /\ y.made = x.made /\ y.failed = x.failed /\ y.row = x.row
             /\ tpl' = tpl \/ tpl' = x.tpl
<1> DEFINE next == Then(proc[p].todo)
           y == [proc[p] EXCEPT !.pc = next, !.tpl = NoTpl]
<1>1. Request(proc[p]) /\ proc[p].pc = "scan" /\ next \in {"commit", "load"}
  BY DEF Typed, CreateTplScan, At, Then
<1>2. Goes(p, y) /\ (tpl' = tpl \/ tpl' = proc[p].tpl)
  BY DEF CreateTplScan
<1>3. proc[p].op = "deliver"
  BY <1>1 DEF Request, Control, AtHook
<1> HIDE DEF next
<1>4. /\ Shaped(y) /\ y.pc = next /\ y.op = proc[p].op /\ y.by = proc[p].by /\ y.tpl = NoTpl
      /\ y.due = proc[p].due /\ y.todo = proc[p].todo /\ y.made = proc[p].made
      /\ y.failed = proc[p].failed /\ y.row = proc[p].row /\ y.form = proc[p].form
      /\ y.triggers = proc[p].triggers /\ y.repo = proc[p].repo /\ y.rid = proc[p].rid
  BY <1>1 DEF Request, Shaped
<1> HIDE DEF y
<1>5. Only(p) /\ proc'[p] = y
  BY <1>2, GoesFacts
<1>6. NoTpl \in TplRow
  BY ElemsFacts DEF NoTpl, TplRow
<1>7. Fields(y)
  BY <1>1, <1>4, <1>6 DEF Request, Fields
<1>8. Control(y)
  BY <1>1, <1>3, <1>4 DEF Control
<1> QED BY <1>1, <1>2, <1>3, <1>4, <1>5, <1>7, <1>8 DEF Request, next

(* A failure to make a task.                                                *)
LEMMA FailsEffect ==
  ASSUME Typed, NEW p \in Procs, Fails(p), proc[p].pc \in {"load", "store"}
  PROVE  LET x == proc[p]
             y == proc'[p]
         IN  /\ Only(p) /\ Request(y)
             /\ IF x.op = "deliver"
                THEN /\ y.op = "deliver" /\ y.pc = "commit" /\ y.failed = TRUE
                     /\ y.made = {} /\ y.todo = {} /\ y.due = x.due /\ y.by = x.by
                     /\ y.row = x.row
                ELSE y = Idle
<1>1. Request(proc[p])
  BY DEF Typed
<1>2. CASE proc[p].op = "deliver"
  <2> DEFINE y == [proc[p] EXCEPT !.pc = "commit", !.failed = TRUE, !.made = {}, !.todo = {},
                                  !.list = << >>, !.rid = 0]
  <2>1. Goes(p, y)
    BY <1>2 DEF Fails
  <2>2. /\ Shaped(y) /\ y.pc = "commit" /\ y.op = proc[p].op /\ y.by = proc[p].by
        /\ y.tpl = proc[p].tpl /\ y.failed = TRUE /\ y.made = {} /\ y.todo = {}
        /\ y.due = proc[p].due /\ y.row = proc[p].row /\ y.form = proc[p].form
        /\ y.triggers = proc[p].triggers /\ y.repo = proc[p].repo /\ y.rid = 0
    BY <1>1 DEF Request, Shaped
  <2> HIDE DEF y
  <2>3. Only(p) /\ proc'[p] = y
    BY <2>1, GoesFacts
  <2>4. y.failed \in BOOLEAN
    BY <2>2, Zenon
  <2>5. Fields(y)
    BY <1>1, <2>2, <2>4 DEF Request, Fields
  <2>6. Control(y)
    BY <1>2, <2>2 DEF Control
  <2> QED BY <1>2, <2>2, <2>3, <2>5, <2>6 DEF Request
<1>3. CASE proc[p].op # "deliver"
  BY <1>3, GoesFacts, IdleFacts DEF Fails
<1> QED BY <1>2, <1>3

(* A runner is asked for ...                                                *)
LEMMA LoadEffect ==
  ASSUME Typed, NEW p \in Procs, LoadIndex(p)
  PROVE  LET x == proc[p]
             y == proc'[p]
         IN  /\ Only(p) /\ Request(y) /\ x.pc = "load"
             /\ \/ Fails(p)
                \/ /\ y.op = x.op /\ y.pc = "store" /\ y.by = x.by /\ y.due = x.due
                   /\ y.made = x.made /\ y.failed = x.failed /\ y.row = x.row
                   /\ y.triggers = x.triggers /\ y.repo = x.repo /\ y.form = x.form
                   /\ IF x.op = "deliver" THEN y.work \in x.todo /\ y.todo = x.todo \ {y.work}
                      ELSE y.work = x.work
<1>1. Request(proc[p]) /\ proc[p].pc = "load"
  BY DEF Typed, LoadIndex, At
<1>2. CASE Fails(p)
  BY <1>1, <1>2, FailsEffect
<1>3. CASE ~Fails(p)
  <2>1. PICK w \in Work(p) :
          Goes(p, [proc[p] EXCEPT !.pc = "store", !.work = w, !.todo = @ \ {w},
                     !.list = Available(Setup[w.env].tags), !.rid = index[Setup[w.env].tags]])
    BY <1>3 DEF LoadIndex
  <2> DEFINE list == Available(Setup[w.env].tags)
             rid == index[Setup[w.env].tags]
             todo == proc[p].todo \ {w}
             y == [proc[p] EXCEPT !.pc = "store", !.work = w, !.todo = todo,
                                  !.list = list, !.rid = rid]
  <2>2. IF proc[p].op = "deliver" THEN w \in proc[p].todo ELSE w = proc[p].work
    BY DEF Work
  <2>3. w \in WorkRow
    BY <1>1, <2>2 DEF Request, Fields, Control, AtHook
  <2>4. rid \in Nat
    BY <2>3 DEF Typed, TypeOK, Tags, WorkRow
  <2>5. Goes(p, y)
    BY <1>1, <2>1 DEF Request, Shaped
  <2>6. todo \subseteq WorkRow
    BY <1>1 DEF Request, Fields
  <2>7. proc[p].op = "deliver" => todo = proc[p].todo \ {w}
    OBVIOUS
  <2> HIDE DEF list, rid, todo
  <2>8. /\ Shaped(y) /\ y.pc = "store" /\ y.op = proc[p].op /\ y.by = proc[p].by
        /\ y.tpl = proc[p].tpl /\ y.failed = proc[p].failed /\ y.made = proc[p].made
        /\ y.todo = todo /\ y.due = proc[p].due /\ y.row = proc[p].row
        /\ y.form = proc[p].form /\ y.triggers = proc[p].triggers /\ y.repo = proc[p].repo
        /\ y.rid = rid /\ y.work = w
    BY <1>1 DEF Request, Shaped
  <2> HIDE DEF y
  <2>9. Only(p) /\ proc'[p] = y
    BY <2>5, GoesFacts
  <2>10. Fields(y)
    BY <1>1, <2>4, <2>6, <2>8 DEF Request, Fields
  <2>11. Control(y)
    BY <1>1, <2>3, <2>8 DEF Request, Control, AtHook
  <2> QED BY <1>1, <2>2, <2>7, <2>8, <2>9, <2>10, <2>11 DEF Request
<1> QED BY <1>2, <1>3

(* ... and takes its turn: the task that is made is what was asked for.     *)
LEMMA StoreEffect ==
  ASSUME Typed, NEW p \in Procs, StoreIndex(p)
  PROVE  LET x == proc[p]
             y == proc'[p]
         IN  /\ Only(p) /\ Request(y) /\ x.pc = "store"
             /\ \/ Fails(p)
                \/ /\ y.op = x.op /\ y.by = x.by /\ y.due = x.due /\ y.todo = x.todo
                   /\ y.failed = x.failed /\ y.row = x.row /\ y.work = x.work
                   /\ y.triggers = x.triggers /\ y.repo = x.repo /\ y.form = x.form
                   /\ y.pc = CASE x.op = "deliver" -> Then(x.todo)
                               [] x.op = "create" -> "commit"
                               [] x.op = "deploy" -> "save"
                   /\ \E runner : y.made = x.made \cup {NewTask(p, runner)}
<1>1. Request(proc[p]) /\ proc[p].pc = "store"
  BY DEF Typed, StoreIndex, At
<1>2. CASE Fails(p)
  BY <1>1, <1>2, FailsEffect
<1>3. CASE ~Fails(p)
  <2> DEFINE next == CASE proc[p].op = "deliver" -> Then(proc[p].todo)
                       [] proc[p].op = "create" -> "commit"
                       [] proc[p].op = "deploy" -> "save"
             runner == proc[p].list[Taken(proc[p].rid, Len(proc[p].list)) + 1]
             made == proc[p].made \cup {NewTask(p, runner)}
             y == [proc[p] EXCEPT !.pc = next, !.made = made, !.list = << >>, !.rid = 0]
  <2>1. Goes(p, [proc[p] EXCEPT !.pc = next, !.made = @ \cup {NewTask(p, runner)},
                                !.list = << >>, !.rid = 0])
    BY <1>3 DEF StoreIndex
  <2> HIDE DEF next, runner
  <2>2. Goes(p, y)
    BY <1>1, <2>1 DEF Request, Shaped
  <2>3. made = proc[p].made \cup {NewTask(p, runner)}
    OBVIOUS
  <2> HIDE DEF made
  <2>4. /\ Shaped(y) /\ y.pc = next /\ y.op = proc[p].op /\ y.by = proc[p].by
        /\ y.tpl = proc[p].tpl /\ y.failed = proc[p].failed /\ y.made = made
        /\ y.todo = proc[p].todo /\ y.due = proc[p].due /\ y.row = proc[p].row
        /\ y.form = proc[p].form /\ y.triggers = proc[p].triggers /\ y.repo = proc[p].repo
        /\ y.rid = 0 /\ y.work = proc[p].work
    BY <1>1 DEF Request, Shaped
  <2> HIDE DEF y
  <2>5. Only(p) /\ proc'[p] = y
    BY <2>2, GoesFacts
  <2>6. Fields(y)
    BY <1>1, <2>4 DEF Request, Fields
  <2>7. proc[p].op \in {"create", "deploy", "deliver"}
    BY <1>1 DEF Request, Control, AtHook
  <2>8. /\ proc[p].op = "deliver" => next \in {"commit", "load"}
        /\ proc[p].op = "create" => next = "commit"
        /\ proc[p].op = "deploy" => next = "save"
    BY DEF next, Then
  <2>9. Control(y)
    BY <1>1, <2>4, <2>7, <2>8 DEF Request, Control, AtHook
  <2> QED BY <1>1, <2>3, <2>4, <2>5, <2>6, <2>9, ZenonT(60) DEF Request, next
<1> QED BY <1>2, <1>3

(* Rows and commits.                                                        *)
LEMMA SaveEffect ==
  ASSUME Typed, NEW p \in Procs, SaveRow(p)
  PROVE  /\ Only(p) /\ Request(proc'[p]) /\ proc[p].pc = "save" /\ proc[p].op = "deploy"
         /\ Same(proc[p], proc'[p]) /\ proc'[p].pc = "list"
<1> DEFINE y == [proc[p] EXCEPT !.pc = "list"]
<1>1. Request(proc[p]) /\ proc[p].pc = "save" /\ Goes(p, y)
  BY DEF Typed, SaveRow, At
<1>2. proc[p].op = "deploy"
  BY <1>1 DEF Request, Control, AtHook
<1>3. Shaped(y) /\ Fields(y) /\ Same(proc[p], y) /\ y.pc = "list"
  BY <1>1, MoveFacts
<1> HIDE DEF y
<1>4. Only(p) /\ proc'[p] = y
  BY <1>1, GoesFacts
<1>5. Control(y)
  BY <1>1, <1>2, <1>3 DEF Request, Control, Same, AtHook
<1> QED BY <1>1, <1>2, <1>3, <1>4, <1>5 DEF Request

LEMMA CommitCreateEffect ==
  ASSUME Typed, NEW p \in Procs, CommitCreate(p)
  PROVE  LET x == proc[p]
             y == proc'[p]
         IN  /\ Only(p) /\ Request(y) /\ x.pc = "commit" /\ x.op = "create" /\ x.work.env \in Envs
             /\ y.op = "create" /\ y.pc = "list" /\ y.work = x.work /\ y.triggers = x.triggers
             /\ y.repo = x.repo /\ y.row = NoEnv /\ y.by = x.by /\ y.made = {}
             /\ env' = [env EXCEPT ![x.work.env] = x.row]
<1> DEFINE y == [proc[p] EXCEPT !.pc = "list", !.row = NoEnv, !.made = {}]
<1>1. /\ Request(proc[p]) /\ proc[p].pc = "commit" /\ proc[p].op = "create" /\ Goes(p, y)
      /\ env' = [env EXCEPT ![proc[p].work.env] = proc[p].row]
  BY DEF Typed, CommitCreate, At
<1>2. /\ Shaped(y) /\ y.pc = "list" /\ y.op = proc[p].op /\ y.by = proc[p].by
      /\ y.tpl = proc[p].tpl /\ y.failed = proc[p].failed /\ y.made = {}
      /\ y.todo = proc[p].todo /\ y.due = proc[p].due /\ y.row = NoEnv
      /\ y.form = proc[p].form /\ y.triggers = proc[p].triggers /\ y.repo = proc[p].repo
      /\ y.rid = proc[p].rid /\ y.work = proc[p].work
  BY <1>1 DEF Request, Shaped
<1> HIDE DEF y
<1>3. Only(p) /\ proc'[p] = y
  BY <1>1, GoesFacts
<1>4. Fields(y)
  BY <1>1, <1>2, IdleFacts DEF Request, Fields
<1>5. proc[p].work \in WorkRow
  BY <1>1 DEF Request, Control
<1>6. Control(y)
  BY <1>1, <1>2, <1>5 DEF Control, AtHook
<1> QED BY <1>1, <1>2, <1>3, <1>4, <1>5, <1>6 DEF Request, WorkRow

LEMMA CommitDeployEffect ==
  ASSUME Typed, NEW p \in Procs, CommitDeploy(p)
  PROVE  /\ Only(p) /\ proc'[p] = Idle /\ proc[p].pc = "commit" /\ proc[p].op = "deploy"
         /\ proc[p].work.env \in Envs
         /\ env' = [env EXCEPT ![proc[p].work.env] = proc[p].row]
<1>1. /\ Request(proc[p]) /\ proc[p].pc = "commit" /\ proc[p].op = "deploy" /\ Goes(p, Idle)
      /\ env' = [env EXCEPT ![proc[p].work.env] = proc[p].row]
  BY DEF Typed, CommitDeploy, At
<1> QED BY <1>1, GoesFacts DEF Request, Control, WorkRow

LEMMA UpdatedFacts ==
  ASSUME NEW row \in EnvRow, NEW form \in FormRow
  PROVE  LET new == Updated(row, form)
         IN  /\ new \in EnvRow /\ new.made = row.made
             /\ new.triggers = IF form.key THEN form.triggers ELSE row.triggers
             /\ new.null <=> row.null /\ ~form.key
<1> DEFINE edited == Edited(row, form)
           archived == edited.archived \/ form.archive
<1>1. Updated(row, form) = [edited EXCEPT !.archived = archived]
  BY DEF Updated
<1>2. /\ edited \in EnvRow /\ edited.made = row.made
      /\ edited.triggers = IF form.key THEN form.triggers ELSE row.triggers
      /\ (edited.null <=> row.null /\ ~form.key)
  BY EditedFacts
<1>3. archived \in BOOLEAN
  BY Zenon
<1> HIDE DEF edited, archived
<1>4. LET new == [edited EXCEPT !.archived = archived]
      IN  /\ new \in EnvRow /\ new.made = edited.made /\ new.triggers = edited.triggers
          /\ new.null = edited.null
  BY <1>2, <1>3 DEF EnvRow
<1> QED BY <1>1, <1>2, <1>4

LEMMA CommitUpdateEffect ==
  ASSUME Typed, NEW p \in Procs, CommitUpdate(p)
  PROVE  LET e == proc[p].work.env
         IN  /\ Only(p) /\ proc'[p] = Idle /\ proc[p].pc = "commit" /\ proc[p].op = "update"
             /\ e \in Envs
             /\ \/ env' = env
                \/ \E new \in EnvRow :
                     /\ env' = [env EXCEPT ![e] = new]
                     /\ new.made = env[e].made
                     /\ new.null <=> env[e].null /\ ~proc[p].form.key
                     /\ new.triggers = IF proc[p].form.key THEN proc[p].form.triggers
                                       ELSE env[e].triggers
<1> DEFINE e == proc[p].work.env
           form == proc[p].form
<1>1. /\ Request(proc[p]) /\ proc[p].pc = "commit" /\ proc[p].op = "update" /\ Goes(p, Idle)
  BY DEF Typed, CommitUpdate, At
<1>2. e \in Envs /\ form \in FormRow /\ env[e] \in EnvRow
  BY <1>1 DEF Request, Control, WorkRow, Fields, Typed, TypeOK
<1>3. env' = env \/ env' = [env EXCEPT ![e] = Updated(@, form)]
  BY DEF CommitUpdate
<1>4. CASE env' = [env EXCEPT ![e] = Updated(@, form)]
  <2> DEFINE new == Updated(env[e], form)
  <2>1. /\ new \in EnvRow /\ new.made = env[e].made
        /\ (new.null <=> env[e].null /\ ~form.key)
        /\ new.triggers = IF form.key THEN form.triggers ELSE env[e].triggers
    <3> HIDE DEF form, e
    <3> QED BY <1>2, UpdatedFacts
  <2>2. env' = [env EXCEPT ![e] = new]
    BY <1>4
  <2>3. Only(p) /\ proc'[p] = Idle
    BY <1>1, GoesFacts
  <2> HIDE DEF new
  <2> QED BY <1>1, <1>2, <2>1, <2>2, <2>3
<1> QED BY <1>1, <1>2, <1>3, <1>4, GoesFacts

LEMMA CommitDeliveryEffect ==
  ASSUME Typed, NEW p \in Procs, CommitDelivery(p)
  PROVE  Only(p) /\ proc'[p] = Idle /\ proc[p].pc = "commit" /\ proc[p].op = "deliver"
  BY GoesFacts DEF CommitDelivery, At

-----------------------------------------------------------------------------
Left == [calls : Nat, events : Nat, changes : Nat, faults : Nat]

LEMMA SpendFacts ==
  ASSUME Typed, NEW what \in {"calls", "events", "changes", "faults"}, Spend(what)
  PROVE  /\ left' \in Left /\ left'.events <= left.events
         /\ what = "events" => left.events > left'.events
<1>1. left \in Left /\ left[what] > 0 /\ left' = [left EXCEPT ![what] = left[what] - 1]
  BY DEF Typed, Left, Spend
<1> QED BY <1>1 DEF Left

LEMMA InitType == Init => Typed
<1> SUFFICES ASSUME Init PROVE Typed
  OBVIOUS
<1>1. PICK s \in Starts : tpl = s.tpl /\ env = s.env /\ hooks = s.hooks /\ left = s.left
  BY DEF Init
<1>2. tpl \in TplRow /\ env \in [Envs -> EnvRow] /\ left \in Left
  BY <1>1 DEF Left
<1>3. nextHook = 2 /\ hooks \in [Elems(Repos) -> SUBSET (1..(nextHook - 1))]
  <2>1. nextHook = 2 /\ hooks \in [Elems(Repos) -> SUBSET {1}]
    BY <1>1 DEF Init
  <2>2. {1} = 1..(2 - 1)
    OBVIOUS
  <2> QED BY <2>1, <2>2
<1>4. index \in [Tags -> Nat] /\ up \subseteq Elems(Runners) /\ mail = {}
  BY DEF Init
<1>5. tangled \in BOOLEAN
  BY Zenon DEF Init
<1>6. proc = [p \in Procs |-> proc[p]] /\ \A p \in Procs : Request(proc[p])
  BY IdleFacts DEF Init
<1>7. TypeOK
  BY <1>2, <1>3, <1>4, <1>5 DEF TypeOK
<1> QED BY <1>2, <1>3, <1>4, <1>6, <1>7 DEF Typed, Left

(* The tables keep their types as one request goes on.                      *)
LEMMA RestTyped ==
  ASSUME Typed, NEW p \in Procs, Only(p), Request(proc'[p]),
         tpl' \in TplRow, env' \in [Envs -> EnvRow], left' \in Left, tangled' \in BOOLEAN,
         index' \in [Tags -> Nat], UNCHANGED <<hooks, nextHook, up>>, mail' \subseteq mail
  PROVE  Typed'
<1>1. TypeOK'
  BY DEF Typed, TypeOK
<1>2. \A q \in Procs : Request(proc'[q])
  BY DEF Typed, Only
<1> QED BY <1>1, <1>2 DEF Typed, Only, Left

LEMMA CallsType ==
  ASSUME Typed, Calls
  PROVE  Typed'
<1>1. /\ tpl \in TplRow /\ env \in [Envs -> EnvRow] /\ index \in [Tags -> Nat]
      /\ tangled \in BOOLEAN
  BY DEF Typed, TypeOK
<1>2. ASSUME NEW p \in Procs, NEW e \in Envs, NEW form \in Forms,
             CreateEnv(p, e, form) \/ DeployEnv(p, e, form) \/ UpdateEnv(p, e, form)
      PROVE  Typed'
  <2>1. Spend("calls") /\ UNCHANGED <<portal, world, tasks, history>>
    BY <1>2 DEF CreateEnv, DeployEnv, UpdateEnv, Call
  <2>2. Only(p) /\ Request(proc'[p])
    BY <1>2, CreateEffect, DeployEffect, UpdateEffect
  <2>3. left' \in Left
    BY <2>1, SpendFacts
  <2> QED BY <1>1, <2>1, <2>2, <2>3, RestTyped DEF portal, world, history
<1>3. ASSUME NEW p \in Procs, NEW form \in Forms, NEW k \in DOMAIN Repos,
             UpdateTemplate(p, form, Repos[k])
      PROVE  Typed'
  <2> DEFINE repo == Repos[k]
  <2>1. repo \in Elems(Repos) /\ UpdateTemplate(p, form, repo)
    BY <1>3, ElemsFacts
  <2> HIDE DEF repo
  <2>2. Only(p) /\ Request(proc'[p]) /\ tpl' \in TplRow
    BY <2>1, TemplateEffect
  <2>3. Spend("calls") /\ UNCHANGED <<env, index, world>>
    BY <2>1 DEF UpdateTemplate, Call
  <2>4. tangled' \in BOOLEAN
    BY <2>1, Zenon DEF UpdateTemplate
  <2>5. left' \in Left
    BY <2>3, SpendFacts
  <2> QED BY <1>1, <2>2, <2>3, <2>4, <2>5, RestTyped DEF world
<1>4. ASSUME NEW e \in Envs, LockEnv(e) PROVE Typed'
  <2>1. /\ Spend("calls") /\ UNCHANGED <<tpl, index, world, proc, tasks, history>>
        /\ env' = [env EXCEPT ![e].locked = ~env[e].locked]
    BY <1>4 DEF LockEnv
  <2>2. left' \in Left
    BY <2>1, SpendFacts
  <2>3. env' \in [Envs -> EnvRow]
    <3> DEFINE locked == ~env[e].locked
               new == [env[e] EXCEPT !.locked = locked]
    <3>1. locked \in BOOLEAN
      BY Zenon
    <3>2. env[e] \in EnvRow
      BY <1>1
    <3> HIDE DEF locked
    <3>3. new \in EnvRow
      BY <3>1, <3>2 DEF EnvRow
    <3>4. env' = [env EXCEPT ![e] = new]
      BY <2>1 DEF locked
    <3> HIDE DEF new
    <3> QED BY <1>1, <3>3, <3>4
  <2>4. TypeOK'
    BY <2>1, <2>3 DEF Typed, TypeOK, world, history
  <2> QED BY <2>1, <2>2, <2>4 DEF Typed, world, history, Left
<1> QED BY <1>2, <1>3, <1>4 DEF Calls

LEMMA HookType ==
  ASSUME Typed, NEW p \in Procs,
         \/ ListWebhook(p) \/ CheckExists(p) \/ DeleteWebhook(p) \/ AddWebhook(p)
         \/ HookFails(p) \/ TokenFails(p)
  PROVE  Typed'
<1>1. /\ tpl \in TplRow /\ env \in [Envs -> EnvRow] /\ index \in [Tags -> Nat]
      /\ tangled \in BOOLEAN /\ left \in Left
  BY DEF Typed, TypeOK, Left
<1>2. Only(p) /\ Request(proc'[p])
  BY ListEffect, CheckEffect, AddDeleteEffect, TokenEffect, IdleFacts
<1>3. CASE ListWebhook(p) \/ CheckExists(p)
  <2>1. UNCHANGED <<portal, world, left>>
    BY <1>3 DEF ListWebhook, CheckExists
  <2>2. tangled' \in BOOLEAN
    BY <1>3, Zenon DEF ListWebhook, CheckExists
  <2> QED BY <1>1, <1>2, <2>1, <2>2, RestTyped DEF portal, world
<1>4. CASE HookFails(p) \/ TokenFails(p)
  <2>1. UNCHANGED <<portal, world>> /\ Spend("faults")
    BY <1>4 DEF HookFails, TokenFails, Fault
  <2>2. tangled' \in BOOLEAN
    BY <1>4, Zenon DEF HookFails, TokenFails
  <2>3. left' \in Left
    BY <2>1, SpendFacts
  <2> QED BY <1>1, <1>2, <2>1, <2>2, <2>3, RestTyped DEF portal, world
<1>5. CASE DeleteWebhook(p) \/ AddWebhook(p)
  <2>1. UNCHANGED <<portal, mail, up, left, history>>
    BY <1>5 DEF DeleteWebhook, AddWebhook
  <2>2. nextHook' \in Nat \ {0} /\ hooks' \in [Elems(Repos) -> SUBSET (1..(nextHook' - 1))]
    <3> DEFINE old == 1..(nextHook - 1)
               new == 1..(nextHook' - 1)
               repo == proc[p].repo
    <3>1. nextHook \in Nat \ {0} /\ hooks \in [Elems(Repos) -> SUBSET old]
      BY DEF Typed, TypeOK
    <3>2. CASE DeleteWebhook(p)
      BY <3>1, <3>2 DEF DeleteWebhook
    <3>3. CASE AddWebhook(p)
      <4>1. nextHook' = nextHook + 1 /\ hooks' = [hooks EXCEPT ![repo] = @ \cup {nextHook}]
        BY <3>3 DEF AddWebhook
      <4>2. old \subseteq new /\ nextHook \in new
        BY <3>1, <4>1
      <4>3. nextHook' \in Nat \ {0}
        BY <3>1, <4>1
      <4> HIDE DEF old, new
      <4>4. hooks' \in [Elems(Repos) -> SUBSET new]
        BY <3>1, <4>1, <4>2
      <4> QED BY <4>3, <4>4 DEF new
    <3> QED BY <1>5, <3>2, <3>3
  <2>3. TypeOK'
    BY <2>1, <2>2 DEF Typed, TypeOK, portal, history
  <2>4. \A q \in Procs : Request(proc'[q])
    BY <1>2 DEF Typed, Only
  <2> QED BY <1>2, <2>1, <2>2, <2>3, <2>4 DEF Typed, Only
<1> QED BY <1>3, <1>4, <1>5

LEMMA WorldType ==
  ASSUME Typed, (\E kind : Event(kind)) \/ \E r \in Elems(Runners) : RunnerChanges(r)
  PROVE  Typed'
<1>1. ASSUME NEW kind, Event(kind) PROVE Typed'
  <2>1. /\ Spend("events") /\ UNCHANGED <<portal, hooks, nextHook, up, proc, tasks, history>>
        /\ mail' = mail \cup UNION {{[by |-> [event |-> left.events, hook |-> h], kind |-> kind,
                                      repo |-> r] : h \in hooks[r]} : r \in Elems(Repos)}
    BY <1>1 DEF Event
  <2>2. left' \in Left
    BY <2>1, SpendFacts
  <2>3. ASSUME NEW m \in mail' PROVE m.by \in Mark
    <3>1. CASE m \in mail
      BY <3>1 DEF Typed
    <3>2. CASE m \notin mail
      <4>1. PICK r \in Elems(Repos) :
              \E h \in hooks[r] :
                 m = [by |-> [event |-> left.events, hook |-> h], kind |-> kind, repo |-> r]
        BY <2>1, <2>3, <3>2
      <4>2. PICK h \in hooks[r] :
              m = [by |-> [event |-> left.events, hook |-> h], kind |-> kind, repo |-> r]
        BY <4>1
      <4>3. h \in Nat /\ left.events \in Nat
        BY DEF Typed, TypeOK
      <4> QED BY <4>2, <4>3 DEF Mark
    <3> QED BY <3>1, <3>2
  <2>4. TypeOK'
    BY <2>1 DEF Typed, TypeOK, portal, history
  <2> QED BY <2>1, <2>2, <2>3, <2>4 DEF Typed, Left
<1>2. ASSUME NEW r \in Elems(Runners), RunnerChanges(r) PROVE Typed'
  <2>1. /\ Spend("changes") /\ UNCHANGED <<portal, hooks, nextHook, mail, proc, tasks, history>>
        /\ up' = IF r \in up THEN up \ {r} ELSE up \cup {r}
    BY <1>2 DEF RunnerChanges
  <2>2. left' \in Left
    BY <2>1, SpendFacts
  <2>3. TypeOK'
    BY <2>1 DEF Typed, TypeOK, portal, history
  <2> QED BY <2>1, <2>2, <2>3 DEF Typed, Left
<1> QED BY <1>1, <1>2

LEMMA WorkType ==
  ASSUME Typed, NEW p \in Procs,
         \/ \E m \in mail : Receive(p, m)
         \/ CreateTplScan(p) \/ LoadIndex(p) \/ StoreIndex(p)
  PROVE  Typed'
<1>1. /\ tpl \in TplRow /\ env \in [Envs -> EnvRow] /\ index \in [Tags -> Nat]
      /\ tangled \in BOOLEAN /\ left \in Left /\ Request(proc[p])
  BY DEF Typed, TypeOK, Left
<1>2. ASSUME NEW m \in mail, Receive(p, m) PROVE Typed'
  <2>1. UNCHANGED <<portal, hooks, nextHook, up, left, history>> /\ mail' = mail \ {m}
    BY <1>2 DEF Receive
  <2>2. Only(p) /\ Request(proc'[p])
    BY <1>2, ReceiveEffect
  <2> QED BY <1>1, <2>1, <2>2, RestTyped DEF portal, history
<1>3. CASE CreateTplScan(p)
  <2>1. UNCHANGED <<env, index, world, history>> /\ (left' = left \/ Spend("faults"))
    BY <1>3 DEF CreateTplScan, Fault
  <2>2. Only(p) /\ Request(proc'[p]) /\ (tpl' = tpl \/ tpl' = proc[p].tpl)
    BY <1>3, ScanEffect
  <2>3. left' \in Left /\ tpl' \in TplRow
    BY <1>1, <2>1, <2>2, SpendFacts DEF Request, Fields
  <2> QED BY <1>1, <2>1, <2>2, <2>3, RestTyped DEF world, history
<1>4. CASE LoadIndex(p)
  <2>1. UNCHANGED <<portal, world, history>> /\ (left' = left \/ Spend("faults"))
    BY <1>4 DEF LoadIndex, Fault
  <2>2. Only(p) /\ Request(proc'[p])
    BY <1>4, LoadEffect
  <2>3. left' \in Left
    BY <1>1, <2>1, SpendFacts
  <2> QED BY <1>1, <2>1, <2>2, <2>3, RestTyped DEF portal, world, history
<1>5. CASE StoreIndex(p)
  <2> DEFINE tags == Setup[proc[p].work.env].tags
             rid == Stored(proc[p].rid, Len(proc[p].list))
  <2>1. /\ UNCHANGED <<tpl, env, world, handled, tangled>> /\ (left' = left \/ Spend("faults"))
        /\ index' = [index EXCEPT ![tags] = rid]
    BY <1>5 DEF StoreIndex, Fault
  <2>2. Only(p) /\ Request(proc'[p])
    BY <1>5, StoreEffect
  <2>3. left' \in Left
    BY <1>1, <2>1, SpendFacts
  <2>4. rid \in Nat
    BY <1>1 DEF Stored, Request, Fields
  <2> HIDE DEF rid, tags
  <2>5. index' \in [Tags -> Nat]
    BY <1>1, <2>1, <2>4
  <2> QED BY <1>1, <2>1, <2>2, <2>3, <2>5, RestTyped DEF world
<1> QED BY <1>2, <1>3, <1>4, <1>5

LEMMA CommitType ==
  ASSUME Typed, NEW p \in Procs,
         \/ SaveRow(p) \/ CommitCreate(p) \/ CommitDeploy(p) \/ CommitUpdate(p)
         \/ CommitDelivery(p)
  PROVE  Typed'
<1>1. /\ tpl \in TplRow /\ env \in [Envs -> EnvRow] /\ index \in [Tags -> Nat]
      /\ tangled \in BOOLEAN /\ left \in Left /\ Request(proc[p])
  BY DEF Typed, TypeOK, Left
<1>2. Only(p) /\ Request(proc'[p])
  BY SaveEffect, CommitCreateEffect, CommitDeployEffect, CommitUpdateEffect,
     CommitDeliveryEffect, IdleFacts
<1>3. tpl' = tpl /\ index' = index /\ UNCHANGED world
  BY DEF SaveRow, CommitCreate, CommitDeploy, CommitUpdate, CommitDelivery, portal
<1>4. left' \in Left
  <2>1. left' = left \/ Spend("faults")
    BY DEF SaveRow, CommitCreate, CommitDeploy, CommitUpdate, CommitDelivery, Fault
  <2> QED BY <1>1, <2>1, SpendFacts
<1>5. tangled' \in BOOLEAN
  <2>1. CASE CommitDeploy(p)
    BY <2>1, Zenon DEF CommitDeploy
  <2>2. CASE ~CommitDeploy(p)
    BY <1>1, <2>2 DEF SaveRow, CommitCreate, CommitUpdate, CommitDelivery, history
  <2> QED BY <2>1, <2>2
<1>6. env' \in [Envs -> EnvRow]
  <2>1. CASE SaveRow(p) \/ CommitDelivery(p)
    BY <1>1, <2>1 DEF SaveRow, CommitDelivery, portal
  <2>2. CASE CommitCreate(p) \/ CommitDeploy(p)
    <3>1. env' = [env EXCEPT ![proc[p].work.env] = proc[p].row]
      BY <2>2, CommitCreateEffect, CommitDeployEffect
    <3> QED BY <1>1, <3>1 DEF Request, Fields
  <2>3. CASE CommitUpdate(p)
    BY <1>1, <2>3, CommitUpdateEffect
  <2> QED BY <2>1, <2>2, <2>3
<1> QED BY <1>1, <1>2, <1>3, <1>4, <1>5, <1>6, RestTyped DEF world

LEMMA TypedStep == Typed /\ [Next]_vars => Typed'
<1> SUFFICES ASSUME Typed, [Next]_vars PROVE Typed'
  OBVIOUS
<1>1. CASE UNCHANGED vars
  BY <1>1 DEF vars, portal, world, history, Typed, TypeOK
<1>2. CASE Next
  BY <1>2, CallsType, HookType, WorldType, WorkType, CommitType DEF Next
<1> QED BY <1>1, <1>2

LEMMA TypedAlways == Spec => []Typed
  BY InitType, TypedStep, PTL DEF Spec

(* Every table has its type, whatever environments, forms and requests      *)
(* there are.                                                               *)
THEOREM TypeCorrect == Spec => []TypeOK
<1>1. Typed => TypeOK
  BY DEF Typed
<1> QED BY <1>1, TypedAlways, PTL

-----------------------------------------------------------------------------
(* A delivery is whole.                                                     *)

(* What a task was made for, as a delivery asks for it.                     *)
Orders(made) == {[env |-> t.env, type |-> t.type, auto |-> t.auto] : t \in made}

(* What a delivery has made, what it is making and what it has yet to make  *)
(* are what was due; what is made is of the request, and a call has no      *)
(* event.                                                                   *)
Balanced(x) ==
    /\ \A t \in x.made : t.by = x.by
    /\ x.op # "deliver" => x.by.event = 0
    /\ x.op = "deliver" /\ x.failed => x.made = {} /\ x.todo = {} /\ x.pc = "commit"
    /\ x.op = "deliver" /\ ~x.failed =>
         Orders(x.made) \union x.todo \union (IF x.pc = "store" THEN {x.work} ELSE {}) = x.due
    /\ x.op = "deliver" /\ x.pc = "commit" => x.todo = {}

(* No two deliveries, on their way, under way or over, have one mark.       *)
Apart ==
    /\ \A q, r \in Elems(Repos) : q # r => hooks[q] \intersect hooks[r] = {}
    /\ \A m \in mail : m.by.event > left.events
    /\ \A m, n \in mail : m.by = n.by => m = n
    /\ \A h \in handled :
         h.by \in Mark /\ h.by.event > left.events /\ \A m \in mail : m.by # h.by
    /\ \A p \in Procs : proc[p].op = "deliver" =>
         /\ proc[p].by.event > left.events
         /\ \A m \in mail : m.by # proc[p].by
         /\ \A h \in handled : h.by # proc[p].by
         /\ \A q \in Procs \ {p} : proc[q].op = "deliver" => proc[q].by # proc[p].by

(* A task of a delivery is of one that is over.                             *)
Booked == \A t \in tasks : t.by.event = 0 \/ \E h \in handled : h.by = t.by

Delivered == Apart /\ Booked /\ DeliveryIsWhole /\ \A p \in Procs : Balanced(proc[p])

LEMMA IdleBalanced == Balanced(Idle)
  BY IdleFacts DEF Balanced

LEMMA InitDelivered == Init => Delivered
<1> SUFFICES ASSUME Init PROVE Delivered
  OBVIOUS
<1>1. PICK s \in Starts : tpl = s.tpl /\ hooks = s.hooks
  BY DEF Init
<1>2. \A q, r \in Elems(Repos) : q # r => hooks[q] \intersect hooks[r] = {}
  BY <1>1
<1>3. mail = {} /\ tasks = {} /\ handled = {} /\ \A p \in Procs : proc[p] = Idle
  BY DEF Init
<1>4. Apart
  BY <1>2, <1>3, IdleFacts DEF Apart
<1> QED BY <1>3, <1>4, IdleBalanced DEF Delivered, Booked, DeliveryIsWhole

(* Events are only spent.                                                   *)
LEMMA EventsFall == Typed /\ Next => left.events \in Nat /\ left'.events \in Nat
                                     /\ left'.events <= left.events
<1> SUFFICES ASSUME Typed, Next
    PROVE  left.events \in Nat /\ left'.events \in Nat /\ left'.events <= left.events
  OBVIOUS
<1>1. left.events \in Nat
  BY DEF Typed
<1>2. CASE left' = left
  BY <1>1, <1>2
<1>3. CASE \E what \in {"calls", "events", "changes", "faults"} : Spend(what)
  BY <1>1, <1>3, SpendFacts DEF Left
<1>4. left' = left \/ \E what \in {"calls", "events", "changes", "faults"} : Spend(what)
  BY ZenonT(60) DEF Next, Calls, CreateEnv, DeployEnv, UpdateEnv, UpdateTemplate, LockEnv, Call, Event,
         RunnerChanges, ListWebhook, CheckExists, DeleteWebhook, AddWebhook, HookFails,
         TokenFails, Fault, Receive, CreateTplScan, LoadIndex, StoreIndex, SaveRow,
         CommitCreate, CommitDeploy, CommitUpdate, CommitDelivery
<1> QED BY <1>2, <1>3, <1>4

(* A request that is no delivery goes on; what it commits has no event.     *)
LEMMA CallGoesOn ==
  ASSUME Typed, Typed', Delivered, Next, NEW p \in Procs, Only(p), NEW made,
         proc[p].op # "deliver", proc'[p].op # "deliver", Balanced(proc'[p]),
         UNCHANGED <<hooks, mail, handled>>, tasks' = tasks \union made,
         \A t \in made : t.by.event = 0
  PROVE  Delivered'
<1>1. \A q \in Procs : proc'[q].op = "deliver" => q # p /\ proc'[q] = proc[q]
  BY DEF Only
<1>2. \A m \in mail : m.by.event \in Nat
  BY DEF Typed, Mark
<1>3. \A q \in Procs : proc[q].by.event \in Nat
  BY DEF Typed, Request, Fields, Mark
<1>4. \A h \in handled : h.by \in Mark /\ h.by.event \in Nat /\ h.by.event > left.events
  BY DEF Delivered, Apart, Mark
<1>5. Apart'
  <2>1. left.events \in Nat /\ left'.events \in Nat /\ left'.events <= left.events
    BY EventsFall
  <2>2. \A m \in mail : m.by.event > left'.events
    BY <1>2, <2>1 DEF Delivered, Apart
  <2>3. \A h \in handled : h.by.event > left'.events
    BY <1>4, <2>1
  <2>4. ASSUME NEW q \in Procs, proc'[q].op = "deliver"
        PROVE  /\ proc'[q].by.event > left'.events
               /\ \A m \in mail : m.by # proc'[q].by
               /\ \A h \in handled : h.by # proc'[q].by
               /\ \A r \in Procs \ {q} : proc'[r].op = "deliver" => proc'[r].by # proc'[q].by
    BY <1>1, <1>3, <2>1, <2>4, SMTT(30) DEF Delivered, Apart
  <2> QED BY <1>4, <2>2, <2>3, <2>4 DEF Delivered, Apart
<1>6. Booked'
  BY DEF Delivered, Booked
<1>7. DeliveryIsWhole'
  <2>1. ASSUME NEW h \in handled
        PROVE  {t \in tasks' : t.by = h.by} = {t \in tasks : t.by = h.by}
    <3>1. left.events \in Nat
      BY DEF Typed
    <3>2. h.by.event # 0
      BY <1>4, <3>1
    <3> QED BY <3>2
  <2> QED BY <2>1 DEF Delivered, DeliveryIsWhole
<1>8. \A q \in Procs : Balanced(proc'[q])
  BY DEF Delivered, Only
<1> QED BY <1>5, <1>6, <1>7, <1>8 DEF Delivered

(* A delivery goes on.                                                      *)
LEMMA DeliveryGoesOn ==
  ASSUME Typed, Typed', Delivered, Next, NEW p \in Procs, Only(p),
         proc[p].op = "deliver", proc'[p].op = "deliver", proc'[p].by = proc[p].by,
         Balanced(proc'[p]), UNCHANGED <<hooks, mail, handled, tasks>>
  PROVE  Delivered'
<1>1. \A q \in Procs : proc'[q].by = proc[q].by /\ proc'[q].op = proc[q].op
  BY DEF Only
<1>2. \A m \in mail : m.by.event \in Nat
  BY DEF Typed, Mark
<1>3. \A q \in Procs : proc[q].by.event \in Nat
  BY DEF Typed, Request, Fields, Mark
<1>4. \A h \in handled : h.by \in Mark /\ h.by.event \in Nat /\ h.by.event > left.events
  BY DEF Delivered, Apart, Mark
<1>5. Apart'
  <2>1. left.events \in Nat /\ left'.events \in Nat /\ left'.events <= left.events
    BY EventsFall
  <2>2. \A m \in mail : m.by.event > left'.events
    BY <1>2, <2>1 DEF Delivered, Apart
  <2>3. \A h \in handled : h.by.event > left'.events
    BY <1>4, <2>1
  <2>4. ASSUME NEW q \in Procs, proc'[q].op = "deliver"
        PROVE  /\ proc'[q].by.event > left'.events
               /\ \A m \in mail : m.by # proc'[q].by
               /\ \A h \in handled : h.by # proc'[q].by
               /\ \A r \in Procs \ {q} : proc'[r].op = "deliver" => proc'[r].by # proc'[q].by
    BY <1>1, <1>3, <2>1, <2>4, SMTT(30) DEF Delivered, Apart
  <2> QED BY <1>4, <2>2, <2>3, <2>4 DEF Delivered, Apart
<1>6. Booked' /\ DeliveryIsWhole'
  BY DEF Delivered, Booked, DeliveryIsWhole
<1>7. \A q \in Procs : Balanced(proc'[q])
  BY DEF Delivered, Only
<1> QED BY <1>5, <1>6, <1>7 DEF Delivered

(* The calls have no event.                                                 *)
LEMMA CallsDelivered ==
  ASSUME Typed, Typed', Delivered, Next, Calls
  PROVE  Delivered'
<1>1. ASSUME NEW p \in Procs, Only(p), proc[p].pc = "idle", proc'[p].op # "deliver",
             proc'[p].by.event = 0, proc'[p].made = {},
             UNCHANGED <<hooks, mail, handled, tasks>>
      PROVE  Delivered'
  <2>1. proc[p].op # "deliver"
    BY <1>1 DEF Typed, Request, Control
  <2>2. Balanced(proc'[p])
    BY <1>1 DEF Balanced
  <2>3. tasks' = tasks \union {}
    BY <1>1
  <2> QED BY <1>1, <2>1, <2>2, <2>3, CallGoesOn
<1>2. ASSUME NEW p \in Procs, NEW e \in Envs, NEW form \in Forms,
             CreateEnv(p, e, form) \/ DeployEnv(p, e, form) \/ UpdateEnv(p, e, form)
      PROVE  Delivered'
  <2>1. UNCHANGED <<hooks, mail, handled, tasks>>
    BY <1>2 DEF CreateEnv, DeployEnv, UpdateEnv, world, history
  <2> QED BY <1>1, <1>2, <2>1, CreateEffect, DeployEffect, UpdateEffect
<1>3. ASSUME NEW p \in Procs, NEW form \in Forms, NEW k \in DOMAIN Repos,
             UpdateTemplate(p, form, Repos[k])
      PROVE  Delivered'
  <2> DEFINE repo == Repos[k]
  <2>1. repo \in Elems(Repos) /\ UpdateTemplate(p, form, repo)
    BY <1>3, ElemsFacts
  <2> HIDE DEF repo
  <2>2. UNCHANGED <<hooks, mail, handled, tasks>>
    BY <2>1 DEF UpdateTemplate, world
  <2> QED BY <1>1, <2>1, <2>2, TemplateEffect
<1>4. ASSUME NEW e \in Envs, LockEnv(e) PROVE Delivered'
  <2>1. UNCHANGED <<hooks, mail, handled, tasks, proc>>
    BY <1>4 DEF LockEnv, world, history
  <2>2. left'.events = left.events
    BY <1>4 DEF LockEnv, Spend, Typed
  <2> QED BY <2>1, <2>2 DEF Delivered, Apart, Booked, DeliveryIsWhole
<1> QED BY <1>2, <1>3, <1>4 DEF Calls

(* The calls to the hook: a new hook has a new identifier.                  *)
LEMMA HookDelivered ==
  ASSUME Typed, Typed', Delivered, Next, NEW p \in Procs,
         \/ ListWebhook(p) \/ CheckExists(p) \/ DeleteWebhook(p) \/ AddWebhook(p)
         \/ HookFails(p) \/ TokenFails(p)
  PROVE  Delivered'
<1>1. /\ Only(p) /\ proc[p].pc \in AtHook
      /\ Same(proc[p], proc'[p]) \/ proc'[p] = Idle
  BY ListEffect, CheckEffect, AddDeleteEffect, TokenEffect, AfterHookEffect DEF AtHook
<1>2. proc[p].op # "deliver"
  BY <1>1 DEF Typed, Request, Control, AtHook
<1>3. Balanced(proc[p]) /\ proc'[p].op # "deliver"
  BY <1>1, <1>2, IdleFacts DEF Delivered, Same
<1>4. Balanced(proc'[p])
  BY <1>1, <1>2, <1>3, IdleBalanced DEF Balanced, Same
<1>5. UNCHANGED <<mail, handled, tasks>>
  BY DEF ListWebhook, CheckExists, DeleteWebhook, AddWebhook, HookFails, TokenFails, world, history
<1>6. CASE ~(DeleteWebhook(p) \/ AddWebhook(p))
  <2>1. hooks' = hooks
    BY <1>6 DEF ListWebhook, CheckExists, HookFails, TokenFails, world
  <2>2. tasks' = tasks \union {}
    BY <1>5
  <2> QED BY <1>1, <1>2, <1>3, <1>4, <1>5, <2>1, <2>2, CallGoesOn
<1>7. CASE DeleteWebhook(p) \/ AddWebhook(p)
  <2> DEFINE repo == proc[p].repo
  <2>1. hooks \in [Elems(Repos) -> SUBSET (1..(nextHook - 1))] /\ nextHook \in Nat
    BY DEF Typed, TypeOK
  <2>2. \/ hooks' = [hooks EXCEPT ![repo] = hooks[repo] \ {proc[p].hook}]
        \/ hooks' = [hooks EXCEPT ![repo] = hooks[repo] \cup {nextHook}]
    BY <1>7 DEF DeleteWebhook, AddWebhook
  <2>3. \A r \in Elems(Repos) : nextHook \notin hooks[r]
    BY <2>1
  <2>4. ASSUME NEW q \in Elems(Repos), NEW r \in Elems(Repos), q # r
        PROVE  hooks'[q] \intersect hooks'[r] = {}
    <3>1. hooks[q] \intersect hooks[r] = {}
      BY <2>4 DEF Delivered, Apart
    <3> HIDE DEF repo
    <3>2. \A o \in {q, r} : \/ hooks'[o] \subseteq hooks[o]
                           \/ (o = repo /\ hooks'[o] = hooks[o] \cup {nextHook})
      BY <2>1, <2>2
    <3> QED BY <2>3, <2>4, <3>1, <3>2
  <2>5. left' = left
    BY <1>7 DEF DeleteWebhook, AddWebhook
  <2>6. \A q \in Procs : proc'[q].op = "deliver" => q # p /\ proc'[q] = proc[q]
    BY <1>1, <1>3 DEF Only
  <2>7. ASSUME NEW q \in Procs, proc'[q].op = "deliver"
        PROVE  /\ proc'[q].by.event > left'.events
               /\ \A m \in mail : m.by # proc'[q].by
               /\ \A h \in handled : h.by # proc'[q].by
               /\ \A r \in Procs \ {q} : proc'[r].op = "deliver" => proc'[r].by # proc'[q].by
    BY <2>5, <2>6, <2>7 DEF Delivered, Apart
  <2>8. Apart'
    BY <1>5, <2>4, <2>5, <2>7 DEF Delivered, Apart
  <2>9. Booked' /\ DeliveryIsWhole'
    BY <1>5 DEF Delivered, Booked, DeliveryIsWhole
  <2>10. \A q \in Procs : Balanced(proc'[q])
    BY <1>1, <1>4 DEF Delivered, Only
  <2> QED BY <2>8, <2>9, <2>10 DEF Delivered
<1> QED BY <1>6, <1>7

(* An event has a new number, and is delivered once for each hook.          *)
LEMMA EventDelivered ==
  ASSUME Typed, Typed', Delivered, Next, NEW kind, Event(kind)
  PROVE  Delivered'
<1> DEFINE Mail(r, h) == [by |-> [event |-> left.events, hook |-> h], kind |-> kind, repo |-> r]
<1>1. /\ UNCHANGED <<hooks, proc, tasks, handled>> /\ Spend("events")
      /\ mail' = mail \cup UNION {{Mail(r, h) : h \in hooks[r]} : r \in Elems(Repos)}
  BY DEF Event, history
<1>2. left.events \in Nat /\ left'.events \in Nat /\ left.events > left'.events
  <2>1. left.events \in Nat
    BY DEF Typed
  <2> QED BY <1>1, <2>1, SpendFacts DEF Left
<1>3. \A m \in mail' \ mail : \E r \in Elems(Repos) : \E h \in hooks[r] : m = Mail(r, h)
  BY <1>1
<1>4. \A r, h : Mail(r, h).by.event = left.events /\ Mail(r, h).by.hook = h
  OBVIOUS
<1>5. \A m \in mail : m.by.event \in Nat /\ m.by.event > left.events
  BY DEF Typed, Mark, Delivered, Apart
<1>6. \A h \in handled : h.by \in Mark /\ h.by.event \in Nat /\ h.by.event > left.events
  BY DEF Delivered, Apart, Mark
<1>7. \A q \in Procs : proc[q].by.event \in Nat
  BY DEF Typed, Request, Fields, Mark
<1>8. \A m \in mail' \ mail : m.by.event = left.events
  <2> HIDE DEF Mail
  <2> QED BY <1>3, <1>4
<1>9. \A m \in mail' : m.by.event > left'.events
  BY <1>2, <1>5, <1>8
<1>10. ASSUME NEW m \in mail', NEW n \in mail', m.by = n.by PROVE m = n
  <2>1. m.by.event = n.by.event /\ m.by.hook = n.by.hook
    BY <1>10
  <2>2. CASE m \in mail /\ n \in mail
    BY <1>10, <2>2 DEF Delivered, Apart
  <2>3. CASE m \notin mail /\ n \notin mail
    <3>1. PICK r \in Elems(Repos) : \E h \in hooks[r] : m = Mail(r, h)
      BY <1>3, <2>3
    <3>2. PICK h \in hooks[r] : m = Mail(r, h)
      BY <3>1
    <3>3. PICK q \in Elems(Repos) : \E k \in hooks[q] : n = Mail(q, k)
      BY <1>3, <2>3
    <3>4. PICK k \in hooks[q] : n = Mail(q, k)
      BY <3>3
    <3> HIDE DEF Mail
    <3>5. h = k
      BY <1>4, <2>1, <3>2, <3>4
    <3>6. r = q
      BY <3>5 DEF Delivered, Apart
    <3> QED BY <3>2, <3>4, <3>5, <3>6
  <2>4. CASE (m \in mail) # (n \in mail)
    BY <1>2, <1>5, <1>8, <2>1, <2>4
  <2> QED BY <2>2, <2>3, <2>4
<1>11. \A h \in handled : h.by.event > left'.events /\ \A m \in mail' : m.by # h.by
  <2>1. ASSUME NEW h \in handled, NEW m \in mail' PROVE m.by # h.by
    <3>1. CASE m \in mail
      BY <3>1 DEF Delivered, Apart
    <3>2. CASE m \notin mail
      BY <1>2, <1>6, <1>8, <3>2
    <3> QED BY <3>1, <3>2
  <2>2. \A h \in handled : h.by.event > left'.events
    BY <1>2, <1>6
  <2> QED BY <2>1, <2>2
<1>12. ASSUME NEW p \in Procs, proc[p].op = "deliver"
       PROVE  /\ proc[p].by.event > left'.events
              /\ \A m \in mail' : m.by # proc[p].by
              /\ \A h \in handled : h.by # proc[p].by
              /\ \A q \in Procs \ {p} : proc[q].op = "deliver" => proc[q].by # proc[p].by
  <2>1. proc[p].by.event > left.events
    BY <1>12 DEF Delivered, Apart
  <2>2. ASSUME NEW m \in mail' PROVE m.by # proc[p].by
    <3>1. CASE m \in mail
      BY <1>12, <3>1 DEF Delivered, Apart
    <3>2. CASE m \notin mail
      BY <1>2, <1>7, <1>8, <2>1, <3>2
    <3> QED BY <3>1, <3>2
  <2>3. proc[p].by.event > left'.events
    BY <1>2, <1>7, <2>1
  <2> QED BY <1>12, <2>2, <2>3 DEF Delivered, Apart
<1>13. Apart'
  <2> HIDE DEF Mail
  <2> QED BY <1>1, <1>6, <1>9, <1>10, <1>11, <1>12 DEF Delivered, Apart
<1>14. Booked' /\ DeliveryIsWhole'
  BY <1>1 DEF Delivered, Booked, DeliveryIsWhole
<1> QED BY <1>1, <1>13, <1>14 DEF Delivered

LEMMA WorldDelivered ==
  ASSUME Typed, Delivered, NEW r, RunnerChanges(r)
  PROVE  Delivered'
<1>1. UNCHANGED <<hooks, mail, proc, tasks, handled>>
  BY DEF RunnerChanges, history
<1>2. left'.events = left.events
  BY DEF RunnerChanges, Spend, Typed
<1> QED BY <1>1, <1>2 DEF Delivered, Apart, Booked, DeliveryIsWhole

(* A delivery is taken from the mail.                                       *)
LEMMA ReceiveDelivered ==
  ASSUME Typed, Typed', Delivered, Next, NEW p \in Procs, NEW m \in mail, Receive(p, m)
  PROVE  Delivered'
<1> DEFINE y == proc'[p]
<1>1. /\ Only(p) /\ y.op = "deliver" /\ y.by = m.by /\ y.todo = y.due /\ y.made = {}
      /\ y.failed = FALSE /\ y.pc # "store" /\ (y.pc = "commit" => y.due = {})
      /\ proc[p].pc = "idle"
  BY ReceiveEffect
<1>2. UNCHANGED <<hooks, left, tasks, handled>> /\ mail' = mail \ {m}
  BY DEF Receive, history
<1>3. proc[p].op # "deliver"
  BY <1>1 DEF Typed, Request, Control
<1>4. ASSUME NEW q \in Procs, proc'[q].op = "deliver"
      PROVE  /\ proc'[q].by.event > left.events
             /\ \A n \in mail' : n.by # proc'[q].by
             /\ \A h \in handled : h.by # proc'[q].by
             /\ \A r \in Procs \ {q} : proc'[r].op = "deliver" => proc'[r].by # proc'[q].by
  <2>1. CASE q = p
    <3>1. m.by.event > left.events /\ \A h \in handled : h.by # m.by
      BY DEF Delivered, Apart
    <3>2. \A n \in mail' : n.by # m.by
      BY <1>2 DEF Delivered, Apart
    <3>3. \A r \in Procs \ {p} : proc[r].op = "deliver" => proc[r].by # m.by
      BY DEF Delivered, Apart
    <3>4. \A r \in Procs \ {p} : proc'[r] = proc[r]
      BY <1>1 DEF Only
    <3> QED BY <1>1, <2>1, <3>1, <3>2, <3>3, <3>4
  <2>2. CASE q # p
    <3>1. proc'[q] = proc[q] /\ \A r \in Procs \ {p} : proc'[r] = proc[r]
      BY <1>1, <2>2 DEF Only
    <3>2. proc'[q].by # m.by
      BY <1>4, <3>1 DEF Delivered, Apart
    <3> QED BY <1>1, <1>2, <1>4, <3>1, <3>2 DEF Delivered, Apart
  <2> QED BY <2>1, <2>2
<1>5. Apart'
  BY <1>2, <1>4 DEF Delivered, Apart
<1>6. Booked' /\ DeliveryIsWhole'
  BY <1>2 DEF Delivered, Booked, DeliveryIsWhole
<1>7. Balanced(y)
  <2>1. Orders({}) = {}
    BY DEF Orders
  <2> HIDE DEF y
  <2> QED BY <1>1, <2>1 DEF Balanced
<1>8. \A q \in Procs : Balanced(proc'[q])
  BY <1>1, <1>7 DEF Delivered, Only
<1> QED BY <1>5, <1>6, <1>8 DEF Delivered

LEMMA FailsBalanced ==
  ASSUME Typed, Delivered, NEW p \in Procs, Fails(p), proc[p].pc \in {"load", "store"}
  PROVE  /\ Balanced(proc'[p]) /\ (proc'[p].op = "deliver" <=> proc[p].op = "deliver")
         /\ (proc[p].op = "deliver" => proc'[p].by = proc[p].by)
  BY FailsEffect, IdleBalanced, IdleFacts DEF Balanced, Delivered

(* Of what was due, one is taken; a task is made of it.                     *)
LEMMA WorkDelivered ==
  ASSUME Typed, Typed', Delivered, Next, NEW p \in Procs,
         CreateTplScan(p) \/ LoadIndex(p) \/ StoreIndex(p)
  PROVE  Delivered'
<1> DEFINE x == proc[p]
           y == proc'[p]
<1>1. UNCHANGED <<hooks, mail, handled, tasks>>
  BY DEF CreateTplScan, LoadIndex, StoreIndex, world, history
<1>2. Only(p) /\ Request(x) /\ Balanced(x)
  BY ScanEffect, LoadEffect, StoreEffect DEF Typed, Delivered
<1>3. /\ Balanced(y) /\ (y.op = "deliver" <=> x.op = "deliver")
      /\ (x.op = "deliver" => y.by = x.by)
  <2>1. CASE Fails(p) /\ (LoadIndex(p) \/ StoreIndex(p))
    <3>1. x.pc \in {"load", "store"}
      BY <2>1 DEF LoadIndex, StoreIndex, At
    <3> QED BY <2>1, <3>1, FailsBalanced
  <2>2. CASE CreateTplScan(p)
    <3>1. /\ x.pc = "scan" /\ x.op = "deliver" /\ y.op = "deliver" /\ y.pc = Then(x.todo)
          /\ y.by = x.by /\ y.due = x.due /\ y.todo = x.todo /\ y.made = x.made
          /\ y.failed = x.failed
      BY <2>2, ScanEffect
    <3>2. y.pc # "store" /\ (y.pc = "commit" => x.todo = {})
      BY <3>1 DEF Then
    <3> HIDE DEF x, y
    <3> QED BY <1>2, <3>1, <3>2 DEF Balanced
  <2>3. CASE LoadIndex(p) /\ ~Fails(p)
    <3>1. /\ x.pc = "load" /\ y.op = x.op /\ y.pc = "store" /\ y.by = x.by /\ y.due = x.due
          /\ y.made = x.made /\ y.failed = x.failed
          /\ x.op = "deliver" => y.work \in x.todo /\ y.todo = x.todo \ {y.work}
      BY <2>3, LoadEffect
    <3>2. x.op = "deliver" => x.todo = y.todo \union {y.work}
      BY <3>1
    <3> HIDE DEF x, y
    <3> QED BY <1>2, <3>1, <3>2 DEF Balanced
  <2>4. CASE StoreIndex(p) /\ ~Fails(p)
    <3>1. /\ x.pc = "store" /\ y.op = x.op /\ y.by = x.by /\ y.due = x.due /\ y.todo = x.todo
          /\ y.failed = x.failed /\ (x.op = "deliver" => y.pc = Then(x.todo))
      BY <2>4, StoreEffect
    <3>2. PICK runner : y.made = x.made \cup {NewTask(p, runner)}
      BY <2>4, StoreEffect
    <3> DEFINE t == NewTask(p, runner)
    <3>3. t.by = x.by /\ t.env = x.work.env /\ t.type = x.work.type /\ t.auto = x.work.auto
      BY DEF NewTask
    <3>4. x.op = "deliver" =>
            y.pc # "store" /\ (y.pc = "commit" => x.todo = {}) /\ x.work \in WorkRow
      BY <1>2, <3>1 DEF Then, Request, Control, AtHook
    <3>5. y.made = x.made \cup {t}
      BY <3>2
    <3> HIDE DEF x, y, t
    <3>6. x.op = "deliver" => x.work = [env |-> t.env, type |-> t.type, auto |-> t.auto]
      BY <3>3, <3>4 DEF WorkRow
    <3>7. x.op = "deliver" => Orders(y.made) = Orders(x.made) \union {x.work}
      BY <3>5, <3>6 DEF Orders
    <3>8. \A made \in y.made : made.by = y.by
      BY <1>2, <3>1, <3>3, <3>5 DEF Balanced
    <3>9. x.op = "deliver" /\ ~x.failed =>
            Orders(y.made) \union y.todo \union (IF y.pc = "store" THEN {y.work} ELSE {}) = y.due
      BY <1>2, <3>1, <3>4, <3>7 DEF Balanced
    <3>10. x.op = "deliver" => ~x.failed
      BY <1>2, <3>1 DEF Balanced
    <3> QED BY <1>2, <3>1, <3>4, <3>8, <3>9, <3>10 DEF Balanced
  <2> QED BY <2>1, <2>2, <2>3, <2>4
<1>4. CASE x.op = "deliver"
  BY <1>1, <1>2, <1>3, <1>4, DeliveryGoesOn
<1>5. CASE x.op # "deliver"
  <2>1. tasks' = tasks \union {}
    BY <1>1
  <2> QED BY <1>1, <1>2, <1>3, <1>5, <2>1, CallGoesOn
<1> QED BY <1>4, <1>5

(* Rows and commits of the calls.                                           *)
LEMMA RowsDelivered ==
  ASSUME Typed, Typed', Delivered, Next, NEW p \in Procs,
         SaveRow(p) \/ CommitCreate(p) \/ CommitDeploy(p) \/ CommitUpdate(p)
  PROVE  Delivered'
<1> DEFINE x == proc[p]
           y == proc'[p]
<1>1. UNCHANGED <<hooks, mail, handled>>
  BY DEF SaveRow, CommitCreate, CommitDeploy, CommitUpdate, world, history
<1>2. Only(p) /\ x.op # "deliver" /\ y.op # "deliver"
  BY SaveEffect, CommitCreateEffect, CommitDeployEffect, CommitUpdateEffect, IdleFacts DEF Same
<1>3. Balanced(x)
  BY DEF Delivered
<1>4. Balanced(y)
  <2>1. CASE SaveRow(p)
    BY <1>2, <1>3, <2>1, SaveEffect DEF Same, Balanced
  <2>2. CASE CommitCreate(p)
    BY <1>2, <1>3, <2>2, CommitCreateEffect DEF Balanced
  <2>3. CASE CommitDeploy(p) \/ CommitUpdate(p)
    BY <2>3, CommitDeployEffect, CommitUpdateEffect, IdleBalanced
  <2> QED BY <2>1, <2>2, <2>3
<1>5. \E made : tasks' = tasks \union made /\ \A t \in made : t.by.event = 0
  <2>1. CASE SaveRow(p) \/ CommitUpdate(p)
    <3>1. tasks' = tasks \union {}
      BY <2>1 DEF SaveRow, CommitUpdate
    <3> QED BY <3>1
  <2>2. CASE CommitCreate(p) \/ CommitDeploy(p)
    <3>1. tasks' = tasks \union x.made
      BY <2>2 DEF CommitCreate, CommitDeploy
    <3>2. \A t \in x.made : t.by.event = 0
      BY <1>2, <1>3 DEF Balanced
    <3> QED BY <3>1, <3>2
  <2> QED BY <2>1, <2>2
<1> QED BY <1>1, <1>2, <1>4, <1>5, CallGoesOn

(* A delivery commits all of its tasks, or none.                            *)
LEMMA CommitDelivered ==
  ASSUME Typed, Typed', Delivered, Next, NEW p \in Procs, CommitDelivery(p)
  PROVE  Delivered'
<1> DEFINE x == proc[p]
<1>1. Only(p) /\ proc'[p] = Idle /\ x.pc = "commit" /\ x.op = "deliver"
  BY CommitDeliveryEffect
<1>2. PICK failed \in {x.failed, TRUE} :
        /\ tasks' = IF failed THEN tasks ELSE tasks \cup x.made
        /\ handled' = handled \cup {[by |-> x.by, due |-> x.due, failed |-> failed]}
  BY DEF CommitDelivery
<1>3. UNCHANGED <<hooks, mail>>
  BY DEF CommitDelivery, world
<1> DEFINE new == [by |-> x.by, due |-> x.due, failed |-> failed]
<1>4. new.by = x.by /\ new.due = x.due /\ new.failed = failed /\ handled' = handled \cup {new}
  BY <1>2
<1>5. Balanced(x) /\ Request(x)
  BY DEF Delivered, Typed
<1>6. x.by \in Mark /\ x.failed \in BOOLEAN
  BY <1>5 DEF Request, Fields
<1>7. /\ x.by.event > left.events /\ \A m \in mail : m.by # x.by
      /\ \A h \in handled : h.by # x.by
      /\ \A q \in Procs \ {p} : proc[q].op = "deliver" => proc[q].by # x.by
  BY <1>1 DEF Delivered, Apart
<1>8. left.events \in Nat /\ left'.events \in Nat /\ left'.events <= left.events
  BY EventsFall
<1> HIDE DEF new
<1>9. \A q \in Procs : proc'[q].op = "deliver" => q # p /\ proc'[q] = proc[q]
  BY <1>1, IdleFacts DEF Only
<1>10. Apart'
  <2>1. \A h \in handled' : h.by \in Mark /\ h.by.event > left.events /\ \A m \in mail : m.by # h.by
    BY <1>4, <1>6, <1>7 DEF Delivered, Apart
  <2>2. \A h \in handled' : h.by.event > left'.events
    BY <1>8, <2>1 DEF Mark
  <2>3. \A m \in mail : m.by.event > left'.events
    <3>1. \A m \in mail : m.by.event \in Nat /\ m.by.event > left.events
      BY DEF Typed, Mark, Delivered, Apart
    <3> QED BY <1>8, <3>1
  <2>4. ASSUME NEW q \in Procs, proc'[q].op = "deliver"
        PROVE  /\ proc'[q].by.event > left'.events
               /\ \A m \in mail : m.by # proc'[q].by
               /\ \A h \in handled' : h.by # proc'[q].by
               /\ \A r \in Procs \ {q} : proc'[r].op = "deliver" => proc'[r].by # proc'[q].by
    <3>1. q # p /\ proc'[q] = proc[q]
      BY <1>9, <2>4
    <3>2. proc[q].by.event \in Nat /\ proc[q].by.event > left.events
      BY <2>4, <3>1 DEF Typed, Request, Fields, Mark, Delivered, Apart
    <3>3. \A h \in handled' : h.by # proc[q].by
      BY <1>4, <1>7, <2>4, <3>1 DEF Delivered, Apart
    <3>4. proc[q].by.event > left'.events
      BY <1>8, <3>2
    <3> QED BY <1>9, <2>4, <3>1, <3>3, <3>4 DEF Delivered, Apart
  <2> QED BY <1>3, <2>1, <2>2, <2>3, <2>4 DEF Delivered, Apart
<1>11. \A t \in tasks : t.by # x.by
  <2>1. x.by.event # 0
    BY <1>6, <1>7, <1>8 DEF Mark
  <2> QED BY <1>7, <2>1 DEF Delivered, Booked
<1>12. \A t \in x.made : t.by = x.by
  BY <1>5 DEF Balanced
<1>13. Booked'
  <2>1. new \in handled' /\ \A h \in handled : h \in handled'
    BY <1>4
  <2>2. \A t \in tasks' : t \in tasks \/ t \in x.made
    BY <1>2
  <2> QED BY <1>4, <1>12, <2>1, <2>2 DEF Delivered, Booked
<1>14. DeliveryIsWhole'
  <2>1. ASSUME NEW h \in handled'
        PROVE  Orders({t \in tasks' : t.by = h.by}) = IF h.failed THEN {} ELSE h.due
    <3>1. CASE h \in handled
      <4>1. {t \in tasks' : t.by = h.by} = {t \in tasks : t.by = h.by}
        BY <1>2, <1>7, <1>12, <3>1
      <4> QED BY <3>1, <4>1 DEF Delivered, DeliveryIsWhole, Orders
    <3>2. CASE h \notin handled
      <4>1. h = new
        BY <1>4, <3>2
      <4>2. CASE failed
        <5>1. {t \in tasks' : t.by = h.by} = {}
          BY <1>2, <1>4, <1>11, <4>1, <4>2
        <5> QED BY <1>4, <4>1, <4>2, <5>1 DEF Orders
      <4>3. CASE ~failed
        <5>1. {t \in tasks' : t.by = h.by} = x.made
          BY <1>2, <1>4, <1>11, <1>12, <4>1, <4>3
        <5>2. ~x.failed
          BY <1>2, <4>3
        <5>3. Orders(x.made) = x.due
          BY <1>1, <1>5, <5>2 DEF Balanced
        <5> QED BY <1>4, <4>1, <4>3, <5>1, <5>3
      <4> QED BY <4>2, <4>3
    <3> QED BY <3>1, <3>2
  <2> QED BY <2>1 DEF DeliveryIsWhole, Orders
<1>15. \A q \in Procs : Balanced(proc'[q])
  BY <1>1, IdleBalanced DEF Delivered, Only
<1> QED BY <1>10, <1>13, <1>14, <1>15 DEF Delivered

LEMMA DeliveredStep == Typed /\ Typed' /\ Delivered /\ [Next]_vars => Delivered'
<1> SUFFICES ASSUME Typed, Typed', Delivered, [Next]_vars PROVE Delivered'
  OBVIOUS
<1>1. CASE UNCHANGED vars
  BY <1>1 DEF vars, portal, world, history, Delivered, Apart, Booked, DeliveryIsWhole
<1>2. CASE Next
  BY <1>2, CallsDelivered, HookDelivered, EventDelivered, ReceiveDelivered, WorkDelivered,
     RowsDelivered, CommitDelivered, WorldDelivered DEF Next
<1> QED BY <1>1, <1>2

(* Whatever fails, at whatever task, a delivery makes all the tasks that    *)
(* were due or none.                                                        *)
THEOREM DeliveryCorrect == Spec => []DeliveryIsWhole
<1>1. Delivered => DeliveryIsWhole
  BY DEF Delivered
<1> QED BY <1>1, InitDelivered, DeliveredStep, TypedAlways, PTL DEF Spec

-----------------------------------------------------------------------------
(* While calls do not meet, none fails, the template stays where it is and  *)
(* no deployment takes the first triggers back: one hook, and that there.   *)

Calling(x) == x.op \notin {"none", "deliver"}

(* A call that has looked at the hooks, and has not finished with what it   *)
(* found: there is one at most.                                             *)
Engaged(x) ==
    \/ x.pc \in {"check", "delete", "add"}
    \/ x.pc = "commit" /\ (x.op = "deploy" \/ (x.op = "update" /\ x.form.key))
OneEngaged == \A q, r \in Procs : Engaged(proc[q]) /\ Engaged(proc[r]) => q = r

(* Every call looks where the template is, which no delivery moves.         *)
Placed(x) == /\ Calling(x) => x.repo = tpl.repo
             /\ x.pc = "scan" => x.tpl.repo = tpl.repo

(* Two creations are of two environments.                                   *)
Makes(x, e) == x.op = "create" /\ x.work.env = e
OneMakes == \A e \in Envs : \A q, r \in Procs : Makes(proc[q], e) /\ Makes(proc[r], e) => q = r

(* What the calls carry of the row they are about to write.                 *)
Uncommitted(x) == x.op = "create" /\ x.pc \in {"load", "store", "commit"}
Carries(x) ==
    /\ Uncommitted(x) =>
         /\ ~env[x.work.env].made /\ x.row.made
         /\ x.row.triggers # {} => ~x.row.null /\ x.triggers # {}
    /\ x.op = "deploy" =>
         /\ env[x.work.env].made /\ x.row.made
         /\ x.row.triggers # {} => ~x.row.null
    /\ x.op = "update" => env[x.work.env].made /\ x.triggers = x.form.triggers

(* An environment needs the hook when it has triggers, or when a deployment *)
(* that sets no hook of its own is about to write the triggers it has read. *)
Restores(x, e) ==
    x.op = "deploy" /\ x.work.env = e /\ x.row.triggers # {} /\ x.triggers = {}
Needs(e) == env[e].triggers # {} \/ \E q \in Procs : Restores(proc[q], e)

(* The hook is still to come where the environment is being created.        *)
Promises(x, e) == Makes(x, e) /\ x.triggers # {}
Promised(e) == \E q \in Procs : Promises(proc[q], e)

(* What a call that has looked knows: of the hooks, ...                     *)
Knows(x) ==
    /\ x.pc \in {"check", "delete"} => x.triggers = {}
    /\ x.pc = "add" => x.triggers # {} /\ hooks[tpl.repo] = {}
    /\ Engaged(x) /\ x.pc = "commit" /\ x.triggers # {} => hooks[tpl.repo] # {}

(* ... and of the environments, where it deletes the hook.                  *)
Cleared == (\E q \in Procs : proc[q].pc = "delete") => \A e \in Envs : Needs(e) => Promised(e)

Marked == \A e \in Envs : Needs(e) => env[e].made /\ ~env[e].null
OneHook == \A g, h \in hooks[tpl.repo] : g = h
Served == \A e \in Envs : Needs(e) => hooks[tpl.repo] # {} \/ Promised(e)

Serving ==
    /\ OneEngaged /\ OneMakes
    /\ \A q \in Procs : Placed(proc[q]) /\ Carries(proc[q]) /\ Knows(proc[q])
    /\ Cleared /\ Marked /\ OneHook /\ Served
HookInv == ~tangled => Serving

LEMMA IdleServing ==
  ASSUME NEW e
  PROVE  ~Calling(Idle) /\ ~Engaged(Idle) /\ ~Makes(Idle, e) /\ ~Uncommitted(Idle)
         /\ ~Restores(Idle, e) /\ Placed(Idle) /\ Carries(Idle) /\ Knows(Idle)
  BY DEF Idle, Calling, Engaged, Makes, Uncommitted, Restores, Placed, Carries, Knows

LEMMA InitServing == Init => HookInv
<1> SUFFICES ASSUME Init PROVE Serving
  BY DEF HookInv
<1>1. \A q \in Procs : proc[q] = Idle
  BY DEF Init
<1>2. /\ \A g, h \in hooks[tpl.repo] : g = h
      /\ \A e \in Envs : env[e].triggers # {} =>
           env[e].made /\ ~env[e].null /\ hooks[tpl.repo] # {}
  <2>1. PICK s \in Starts : tpl = s.tpl /\ env = s.env /\ hooks = s.hooks
    BY DEF Init
  <2>2. s.hooks[s.tpl.repo] \subseteq {1}
    BY DEF TplRow
  <2> QED BY <2>1, <2>2
<1>3. \A e \in Envs : Needs(e) => env[e].triggers # {}
  BY <1>1, IdleServing DEF Needs
<1>4. OneEngaged /\ OneMakes
  BY <1>1, IdleServing DEF OneEngaged, OneMakes
<1>5. Cleared
  BY <1>1, IdleFacts DEF Cleared
<1> QED BY <1>1, <1>2, <1>3, <1>4, <1>5, IdleServing DEF Serving, Marked, OneHook, Served

(* A step that changes neither rows of environments nor hooks: what must be *)
(* true of the request that takes it.                                       *)
LEMMA StepServing ==
  ASSUME Serving, NEW p \in Procs, Only(p), UNCHANGED <<env, hooks>>, tpl'.repo = tpl.repo,
         NEW y, proc'[p] = y,
         Placed(y), Carries(y), Knows(y),
         Engaged(y) => \A q \in Procs \ {p} : ~Engaged(proc[q]),
         y.pc = "delete" => \A e \in Envs : ~Needs(e),
         \A e \in Envs : Restores(y, e) => Needs(e),
         \A e \in Envs : Makes(y, e) =>
            Makes(proc[p], e) \/ \A q \in Procs \ {p} : ~Makes(proc[q], e),
         \A e \in Envs : Promises(proc[p], e) /\ ~Promises(y, e) =>
            \/ ~env[e].made
            \/ hooks[tpl.repo] # {} /\ \A q \in Procs \ {p} : ~Engaged(proc[q])
  PROVE  Serving'
<1>1. \A q \in Procs \ {p} : proc'[q] = proc[q]
  BY DEF Only
<1>2. OneEngaged'
  BY <1>1 DEF Serving, OneEngaged
<1>3. OneMakes'
  BY <1>1 DEF Serving, OneMakes
<1>4. ASSUME NEW q \in Procs
      PROVE  (Placed(proc[q]) /\ Carries(proc[q]) /\ Knows(proc[q]))'
  <2>1. CASE q = p
    BY <2>1 DEF Placed, Carries, Knows
  <2>2. CASE q # p
    BY <1>1, <2>2 DEF Serving, Placed, Carries, Knows
  <2> QED BY <2>1, <2>2
<1>5. \A e \in Envs : Needs(e)' => Needs(e)
  BY <1>1 DEF Needs
<1>6. ASSUME NEW e \in Envs, Needs(e), Promised(e)
      PROVE  \/ Promised(e)'
             \/ hooks[tpl.repo] # {} /\ \A q \in Procs \ {p} : ~Engaged(proc[q])
  <2>1. env[e].made
    BY <1>6 DEF Serving, Marked
  <2>2. PICK r \in Procs : Promises(proc[r], e)
    BY <1>6 DEF Promised
  <2>3. CASE r = p
    BY <2>1, <2>2, <2>3 DEF Promised
  <2>4. CASE r # p
    BY <1>1, <2>2, <2>4 DEF Promised
  <2> QED BY <2>3, <2>4
<1>7. Cleared'
  <2> SUFFICES ASSUME NEW q \in Procs, proc'[q].pc = "delete", NEW e \in Envs, Needs(e)'
               PROVE  Promised(e)'
    BY DEF Cleared
  <2>1. Needs(e)
    BY <1>5
  <2>2. q # p /\ proc[q].pc = "delete" /\ Engaged(proc[q])
    BY <1>1, <2>1 DEF Engaged
  <2>3. Promised(e)
    BY <2>1, <2>2 DEF Serving, Cleared
  <2> QED BY <1>6, <2>1, <2>2, <2>3
<1>8. Marked' /\ OneHook'
  BY <1>5 DEF Serving, Marked, OneHook
<1>9. Served'
  BY <1>5, <1>6 DEF Serving, Served
<1> QED BY <1>2, <1>3, <1>4, <1>7, <1>8, <1>9 DEF Serving

(* The calls begin.                                                         *)
LEMMA CallsServing ==
  ASSUME Typed, Serving, ~tangled', Calls
  PROVE  Serving'
<1>1. ASSUME NEW p \in Procs, NEW e \in Envs, NEW form \in Forms, CreateEnv(p, e, form)
      PROVE  Serving'
  <2> DEFINE y == proc'[p]
  <2>1. /\ Only(p) /\ proc[p].pc = "idle" /\ y.op = "create" /\ y.pc = "load"
        /\ y.work.env = e /\ y.repo = tpl.repo
        /\ y.row.made /\ (y.row.triggers # {} => y.triggers # {} /\ ~y.row.null)
    BY <1>1, CreateEffect
  <2>2. /\ UNCHANGED <<env, hooks, tpl>> /\ ~env[e].made
        /\ \A q \in Procs : proc[q].op = "create" => proc[q].work.env # e
    BY <1>1 DEF CreateEnv, portal, world
  <2>3. proc[p].op = "none"
    BY <2>1 DEF Typed, Request, Control, AtHook
  <2> HIDE DEF y
  <2>4. Placed(y) /\ Carries(y) /\ Knows(y) /\ ~Engaged(y)
    BY <2>1, <2>2 DEF Placed, Carries, Uncommitted, Knows, Engaged
  <2>5. \A d \in Envs : /\ ~Restores(y, d) /\ ~Promises(proc[p], d)
                        /\ Makes(y, d) => \A q \in Procs : ~Makes(proc[q], d)
    BY <2>1, <2>2, <2>3 DEF Restores, Promises, Makes
  <2> QED BY <2>1, <2>2, <2>4, <2>5, StepServing DEF y
<1>2. ASSUME NEW p \in Procs, NEW e \in Envs, NEW form \in Forms, DeployEnv(p, e, form)
      PROVE  Serving'
  <2> DEFINE y == proc'[p]
  <2>1. /\ Only(p) /\ proc[p].pc = "idle" /\ y.op = "deploy" /\ y.pc = "load"
        /\ y.work.env = e /\ y.triggers = form.triggers /\ y.repo = tpl.repo
        /\ env[e].made /\ y.row = Edited(env[e], form)
    BY <1>2, DeployEffect
  <2>2. UNCHANGED <<env, hooks, tpl>>
    BY <1>2 DEF DeployEnv, portal, world
  <2>3. proc[p].op = "none"
    BY <2>1 DEF Typed, Request, Control, AtHook
  <2> HIDE DEF y
  <2>4. env[e] \in EnvRow /\ form \in FormRow
    BY DEF Typed, TypeOK
  <2>5. /\ y.row.made = env[e].made
        /\ y.row.triggers = IF form.key THEN form.triggers ELSE env[e].triggers
        /\ y.row.null <=> env[e].null /\ ~form.key
    <3>1. LET new == Edited(env[e], form)
          IN  /\ new.made = env[e].made
              /\ new.triggers = IF form.key THEN form.triggers ELSE env[e].triggers
              /\ new.null <=> env[e].null /\ ~form.key
      BY <2>4, EditedFacts
    <3> QED BY <2>1, <3>1, Zenon
  <2>6. env[e].triggers # {} => ~env[e].null
    BY DEF Serving, Marked, Needs
  <2>7. y.row.triggers # {} => ~y.row.null
    BY <2>5, <2>6
  <2>8. Placed(y) /\ Carries(y) /\ Knows(y) /\ ~Engaged(y)
    BY <2>1, <2>5, <2>7 DEF Placed, Carries, Uncommitted, Knows, Engaged
  <2>9. \A d \in Envs : /\ Restores(y, d) => Needs(d)
                        /\ ~Makes(y, d) /\ ~Promises(proc[p], d)
    BY <2>1, <2>3, <2>5 DEF Restores, Needs, Promises, Makes
  <2> QED BY <2>1, <2>2, <2>8, <2>9, StepServing DEF y
<1>3. ASSUME NEW p \in Procs, NEW e \in Envs, NEW form \in Forms, UpdateEnv(p, e, form)
      PROVE  Serving'
  <2> DEFINE y == proc'[p]
  <2>1. /\ Only(p) /\ proc[p].pc = "idle" /\ y.op = "update"
        /\ y.pc = IF form.key THEN "list" ELSE "commit"
        /\ y.work.env = e /\ y.triggers = form.triggers /\ y.repo = tpl.repo
        /\ env[e].made /\ y.form = form
    BY <1>3, UpdateEffect
  <2>2. UNCHANGED <<env, hooks, tpl>>
    BY <1>3 DEF UpdateEnv, portal, world
  <2>3. proc[p].op = "none"
    BY <2>1 DEF Typed, Request, Control, AtHook
  <2> HIDE DEF y
  <2>4. Placed(y) /\ Carries(y) /\ Knows(y) /\ ~Engaged(y)
    BY <2>1 DEF Placed, Carries, Uncommitted, Knows, Engaged
  <2>5. \A d \in Envs : ~Restores(y, d) /\ ~Makes(y, d) /\ ~Promises(proc[p], d)
    BY <2>1, <2>3 DEF Restores, Promises, Makes
  <2>6. y.pc # "delete"
    BY <2>1
  <2> QED BY <2>1, <2>2, <2>4, <2>5, <2>6, StepServing DEF y
<1>4. ASSUME NEW p \in Procs, NEW form \in Forms, NEW k \in DOMAIN Repos,
             UpdateTemplate(p, form, Repos[k])
      PROVE  Serving'
  <2> DEFINE y == proc'[p]
  <2>1. /\ Only(p) /\ proc[p].pc = "idle" /\ y.op = "template"
        /\ y.pc = "list" /\ y.repo = tpl'.repo
    <3> DEFINE repo == Repos[k]
    <3>1. repo \in Elems(Repos) /\ UpdateTemplate(p, form, repo)
      BY <1>4, ElemsFacts
    <3> HIDE DEF repo
    <3> QED BY <3>1, TemplateEffect, ZenonT(60)
  <2>2. UNCHANGED <<env, hooks>> /\ tpl'.repo = tpl.repo
    BY <1>4 DEF UpdateTemplate, world
  <2>3. proc[p].op = "none"
    BY <2>1 DEF Typed, Request, Control, AtHook
  <2> HIDE DEF y
  <2>4. Placed(y) /\ Carries(y) /\ Knows(y) /\ ~Engaged(y)
    BY <2>1, <2>2 DEF Placed, Carries, Uncommitted, Knows, Engaged
  <2>5. \A d \in Envs : ~Restores(y, d) /\ ~Makes(y, d) /\ ~Promises(proc[p], d)
    BY <2>1, <2>3 DEF Restores, Promises, Makes
  <2> QED BY <2>1, <2>2, <2>4, <2>5, StepServing DEF y
<1>5. ASSUME NEW e \in Envs, LockEnv(e)
      PROVE  Serving'
  <2>1. UNCHANGED <<hooks, tpl, proc>> /\ env' = [env EXCEPT ![e].locked = ~@]
    BY <1>5 DEF LockEnv, world
  <2>2. \A d \in Envs : /\ env'[d].made = env[d].made /\ env'[d].triggers = env[d].triggers
                        /\ env'[d].null = env[d].null
    BY <2>1 DEF Typed, TypeOK, EnvRow
  <2>3. \A q \in Procs : Carries(proc[q])'
    <3> SUFFICES ASSUME NEW q \in Procs PROVE Carries(proc[q])'
      OBVIOUS
    <3>1. Uncommitted(proc[q]) \/ proc[q].op \in {"deploy", "update"} => proc[q].work.env \in Envs
      BY DEF Typed, Request, Control, Uncommitted, WorkRow
    <3> QED BY <2>1, <2>2, <3>1 DEF Serving, Carries
  <2>4. \A q \in Procs : Placed(proc[q])' /\ Knows(proc[q])'
    BY <2>1 DEF Serving, Placed, Knows
  <2>5. \A d \in Envs : Needs(d)' = Needs(d) /\ Promised(d)' = Promised(d)
    BY <2>1, <2>2 DEF Needs, Promised
  <2>6. (OneEngaged /\ OneMakes /\ Cleared /\ Marked /\ OneHook /\ Served)'
    BY <2>1, <2>2, <2>5 DEF Serving, OneEngaged, OneMakes, Cleared, Marked, OneHook, Served
  <2> QED BY <2>3, <2>4, <2>6 DEF Serving
<1> QED BY <1>1, <1>2, <1>3, <1>4, <1>5 DEF Calls

(* A call goes by the hook.                                                 *)
LEMMA SamePart ==
  ASSUME NEW x, NEW y, Same(x, y), NEW e
  PROVE  /\ Restores(y, e) = Restores(x, e) /\ Makes(y, e) = Makes(x, e)
         /\ Promises(y, e) = Promises(x, e) /\ Calling(y) = Calling(x)
  BY DEF Same, Restores, Makes, Promises, Calling

LEMMA AloneServing ==
  ASSUME Serving, NEW p \in Procs, ~Overlaps(p), NEW q \in Procs \ {p}, Typed
  PROVE  ~Engaged(proc[q])
  BY DEF Overlaps, InHook, Engaged, Typed, Request, Control

LEMMA ListServing ==
  ASSUME Typed, Serving, ~tangled', NEW p \in Procs, ListWebhook(p)
  PROVE  Serving'
<1> DEFINE x == proc[p]
           y == proc'[p]
<1>1. UNCHANGED <<env, hooks, tpl>> /\ ~Overlaps(p)
  BY DEF ListWebhook, portal, world
<1>2. \A q \in Procs \ {p} : ~Engaged(proc[q])
  BY <1>1, AloneServing
<1>3. /\ Only(p) /\ x.pc = "list"
      /\ IF x.triggers # {} /\ hooks[x.repo] # {} THEN AfterHook(p)
         ELSE Same(x, y) /\ y.pc = IF x.triggers = {} THEN "check" ELSE "add"
  BY ListEffect
<1>4. Placed(x) /\ Carries(x) /\ Calling(x)
  BY <1>3 DEF Serving, Calling, Typed, Request, Control
<1>5. x.repo = tpl.repo
  BY <1>4 DEF Placed
<1>6. CASE x.triggers # {} /\ hooks[x.repo] # {}
  <2>1. IF x.op \in {"update", "deploy"} THEN Same(x, y) /\ y.pc = "commit" ELSE y = Idle
    BY <1>3, <1>6, AfterHookEffect DEF AtHook
  <2> HIDE DEF x, y
  <2>2. CASE x.op \in {"update", "deploy"}
    <3>1. Same(x, y) /\ y.pc = "commit"
      BY <2>1, <2>2
    <3>2. Placed(y) /\ Carries(y) /\ Knows(y)
      BY <1>4, <1>5, <1>6, <2>2, <3>1 DEF Placed, Carries, Knows, Same, Uncommitted
    <3>3. \A e \in Envs : /\ Restores(y, e) = Restores(x, e) /\ Makes(y, e) = Makes(x, e)
                          /\ Promises(y, e) = Promises(x, e)
      BY <3>1, SamePart
    <3>4. \A e \in Envs : Restores(x, e) => Needs(e)
      BY DEF Needs, x
    <3> QED BY <1>1, <1>2, <1>3, <3>1, <3>2, <3>3, <3>4, StepServing DEF x, y
  <2>3. CASE x.op \notin {"update", "deploy"}
    <3>1. y = Idle
      BY <2>1, <2>3
    <3>2. hooks[tpl.repo] # {}
      BY <1>5, <1>6
    <3> QED BY <1>1, <1>2, <1>3, <3>1, <3>2, IdleServing, IdleFacts, StepServing DEF x, y
  <2> QED BY <2>2, <2>3
<1>7. CASE ~(x.triggers # {} /\ hooks[x.repo] # {})
  <2>1. Same(x, y) /\ y.pc = IF x.triggers = {} THEN "check" ELSE "add"
    BY <1>3, <1>7
  <2> HIDE DEF x, y
  <2>2. Placed(y) /\ Carries(y) /\ Knows(y) /\ y.pc # "delete"
    BY <1>4, <1>5, <1>7, <2>1 DEF Placed, Carries, Knows, Same, Uncommitted, Engaged
  <2>3. \A e \in Envs : /\ Restores(y, e) = Restores(x, e) /\ Makes(y, e) = Makes(x, e)
                        /\ Promises(y, e) = Promises(x, e)
    BY <2>1, SamePart
  <2>4. \A e \in Envs : Restores(x, e) => Needs(e)
    BY DEF Needs, x
  <2> QED BY <1>1, <1>2, <1>3, <2>2, <2>3, <2>4, StepServing DEF x, y
<1> QED BY <1>6, <1>7

LEMMA CheckServing ==
  ASSUME Typed, Serving, ~tangled', NEW p \in Procs, CheckExists(p)
  PROVE  Serving'
<1> DEFINE x == proc[p]
           y == proc'[p]
<1>1. UNCHANGED <<env, hooks, tpl>> /\ ~Overlaps(p)
  BY DEF CheckExists, portal, world
<1>2. \A q \in Procs \ {p} : ~Engaged(proc[q])
  BY <1>1, AloneServing
<1>3. /\ Only(p) /\ x.pc = "check"
      /\ IF \E e \in Envs : env[e].made /\ ~env[e].null THEN AfterHook(p)
         ELSE Same(x, y) /\ y.pc = "delete"
  BY CheckEffect
<1>4. Placed(x) /\ Carries(x) /\ Calling(x) /\ x.triggers = {}
  BY <1>3 DEF Serving, Knows, Calling, Typed, Request, Control
<1>5. \A e \in Envs : Restores(x, e) => Needs(e)
  BY DEF Needs
<1>6. \A e \in Envs : ~Promises(x, e)
  BY <1>4 DEF Promises
<1>7. CASE Same(x, y) /\ y.pc \in {"commit", "delete"}
  <2>1. y.pc = "delete" => \A e \in Envs : ~Needs(e)
    <3> SUFFICES ASSUME y.pc = "delete", NEW e \in Envs, Needs(e) PROVE FALSE
      OBVIOUS
    <3>1. env[e].made /\ ~env[e].null
      BY DEF Serving, Marked
    <3>2. AfterHook(p)
      BY <1>3, <3>1
    <3>3. IF x.op \in {"update", "deploy"} THEN y.pc = "commit" ELSE y = Idle
      BY <1>3, <3>2, AfterHookEffect DEF AtHook
    <3> QED BY <3>3, IdleFacts
  <2> HIDE DEF x, y
  <2>2. Placed(y) /\ Carries(y) /\ Knows(y)
    <3>1. x.op # "create" \/ y.pc = "delete"
      BY <1>3, <1>7, AfterHookEffect, IdleFacts DEF AtHook, x, y
    <3> QED BY <1>4, <1>7, <3>1 DEF Placed, Carries, Knows, Same, Uncommitted, Calling
  <2>3. \A e \in Envs : /\ Restores(y, e) = Restores(x, e) /\ Makes(y, e) = Makes(x, e)
                        /\ Promises(y, e) = Promises(x, e)
    BY <1>7, SamePart
  <2> QED BY <1>1, <1>2, <1>3, <1>5, <2>1, <2>2, <2>3, StepServing DEF x, y
<1>8. CASE y = Idle
  <2> HIDE DEF x, y
  <2> QED BY <1>1, <1>2, <1>3, <1>6, <1>8, IdleServing, IdleFacts, StepServing DEF x, y
<1>9. y = Idle \/ (Same(x, y) /\ y.pc \in {"commit", "delete"})
  BY <1>3, AfterHookEffect DEF AtHook
<1> QED BY <1>7, <1>8, <1>9

(* A call changes the hooks: all calls that know of them are this one.      *)
LEMMA ChangeServing ==
  ASSUME Typed, Serving, NEW p \in Procs, AfterHook(p), proc[p].pc \in {"add", "delete"},
         UNCHANGED <<env, tpl>>
  PROVE  /\ OneEngaged' /\ OneMakes' /\ Marked' /\ \A e \in Envs : Needs(e)' => Needs(e)
         /\ \A q \in Procs : Placed(proc[q])' /\ Carries(proc[q])'
         /\ \A q \in Procs \ {p} : proc'[q] = proc[q] /\ ~Engaged(proc[q])
         /\ proc'[p] = Idle \/ (Same(proc[p], proc'[p]) /\ proc'[p].pc = "commit")
         /\ Placed(proc[p]) /\ proc[p].repo = tpl.repo
<1> DEFINE x == proc[p]
           y == proc'[p]
<1>1. Only(p) /\ IF x.op \in {"update", "deploy"} THEN Same(x, y) /\ y.pc = "commit" ELSE y = Idle
  BY AfterHookEffect DEF AtHook
<1>2. \A q \in Procs \ {p} : proc'[q] = proc[q]
  BY <1>1 DEF Only
<1>3. Engaged(x)
  BY DEF Engaged
<1>4. \A q \in Procs \ {p} : ~Engaged(proc[q])
  BY <1>3 DEF Serving, OneEngaged
<1>5. Placed(x) /\ Carries(x) /\ Calling(x)
  BY <1>3 DEF Serving, Calling, Typed, Request, Control
<1> HIDE DEF x, y
<1>6. Placed(y) /\ Carries(y)
  <2>1. CASE x.op \in {"update", "deploy"}
    BY <1>1, <1>5, <2>1 DEF Placed, Carries, Same, Uncommitted
  <2>2. CASE x.op \notin {"update", "deploy"}
    BY <1>1, <2>2, IdleServing
  <2> QED BY <2>1, <2>2
<1>7. \A e \in Envs : /\ Restores(y, e) => Restores(x, e)
                      /\ Makes(y, e) => Makes(x, e)
  <2>1. CASE x.op \in {"update", "deploy"}
    BY <1>1, <2>1, SamePart
  <2>2. CASE x.op \notin {"update", "deploy"}
    BY <1>1, <2>2, IdleServing
  <2> QED BY <2>1, <2>2
<1>8. \A q \in Procs : Placed(proc[q])' /\ Carries(proc[q])'
  <2> SUFFICES ASSUME NEW q \in Procs PROVE Placed(proc[q])' /\ Carries(proc[q])'
    OBVIOUS
  <2>1. CASE q = p
    BY <1>6, <2>1 DEF Placed, Carries, y
  <2>2. CASE q # p
    BY <1>2, <2>2 DEF Serving, Placed, Carries
  <2> QED BY <2>1, <2>2
<1>9. OneEngaged'
  BY <1>2, <1>4 DEF OneEngaged
<1>10. OneMakes'
  <2>1. \A e \in Envs : \A q \in Procs : Makes(proc'[q], e) => Makes(proc[q], e)
    BY <1>2, <1>7 DEF x, y
  <2> QED BY <2>1 DEF Serving, OneMakes
<1>11. \A e \in Envs : Needs(e)' => Needs(e)
  <2>1. \A e \in Envs : \A q \in Procs : Restores(proc'[q], e) => Restores(proc[q], e)
    BY <1>2, <1>7 DEF x, y
  <2> QED BY <2>1 DEF Needs
<1>12. Marked'
  BY <1>11 DEF Serving, Marked
<1> QED BY <1>1, <1>2, <1>4, <1>5, <1>8, <1>9, <1>10, <1>11, <1>12 DEF Placed, x, y

LEMMA AddServing ==
  ASSUME Typed, Serving, NEW p \in Procs, AddWebhook(p)
  PROVE  Serving'
<1> DEFINE y == proc'[p]
<1>1. /\ proc[p].pc = "add" /\ AfterHook(p) /\ UNCHANGED <<env, tpl>>
      /\ hooks' = [hooks EXCEPT ![proc[p].repo] = @ \cup {nextHook}]
  BY DEF AddWebhook, At, portal
<1>2. /\ OneEngaged' /\ OneMakes' /\ Marked' /\ \A e \in Envs : Needs(e)' => Needs(e)
      /\ \A q \in Procs : Placed(proc[q])' /\ Carries(proc[q])'
      /\ \A q \in Procs \ {p} : proc'[q] = proc[q] /\ ~Engaged(proc[q])
      /\ y = Idle \/ (Same(proc[p], y) /\ y.pc = "commit")
      /\ proc[p].repo = tpl.repo
  BY <1>1, ChangeServing
<1>3. hooks[tpl.repo] = {}
  BY <1>1 DEF Serving, Knows
<1>4. hooks'[tpl'.repo] = {nextHook}
  <2>1. hooks'[tpl.repo] = hooks[tpl.repo] \cup {nextHook}
    BY <1>1, <1>2 DEF Typed, TypeOK, TplRow
  <2> QED BY <1>1, <1>3, <2>1
<1>5. OneHook' /\ Served'
  BY <1>4 DEF OneHook, Served
<1>6. \A q \in Procs : proc'[q].pc \notin {"check", "delete", "add"}
  <2>1. y.pc \notin {"check", "delete", "add"}
    BY <1>2, IdleFacts
  <2> QED BY <1>2, <2>1 DEF Engaged
<1>7. Cleared' /\ \A q \in Procs : Knows(proc[q])'
  BY <1>4, <1>6 DEF Cleared, Knows
<1> QED BY <1>2, <1>5, <1>7 DEF Serving

LEMMA DeleteServing ==
  ASSUME Typed, Serving, NEW p \in Procs, DeleteWebhook(p)
  PROVE  Serving'
<1> DEFINE y == proc'[p]
<1>1. /\ proc[p].pc = "delete" /\ AfterHook(p) /\ UNCHANGED <<env, tpl>>
      /\ hooks' = [hooks EXCEPT ![proc[p].repo] = @ \ {proc[p].hook}]
  BY DEF DeleteWebhook, At, portal
<1>2. /\ OneEngaged' /\ OneMakes' /\ Marked' /\ \A e \in Envs : Needs(e)' => Needs(e)
      /\ \A q \in Procs : Placed(proc[q])' /\ Carries(proc[q])'
      /\ \A q \in Procs \ {p} : proc'[q] = proc[q] /\ ~Engaged(proc[q])
      /\ y = Idle \/ (Same(proc[p], y) /\ y.pc = "commit")
      /\ proc[p].repo = tpl.repo
  BY <1>1, ChangeServing
<1>3. proc[p].triggers = {}
  BY <1>1 DEF Serving, Knows
<1>4. hooks'[tpl'.repo] \subseteq hooks[tpl.repo]
  <2>1. hooks'[tpl.repo] = hooks[tpl.repo] \ {proc[p].hook}
    BY <1>1, <1>2 DEF Typed, TypeOK, TplRow
  <2> QED BY <1>1, <2>1
<1>5. OneHook'
  BY <1>4 DEF Serving, OneHook
<1>6. ASSUME NEW e \in Envs, Needs(e)'
      PROVE  Promised(e)'
  <2>1. Promised(e)
    BY <1>1, <1>2, <1>6 DEF Serving, Cleared
  <2>2. PICK r \in Procs : Promises(proc[r], e)
    BY <2>1 DEF Promised
  <2>3. r # p
    BY <1>3, <2>2 DEF Promises
  <2> QED BY <1>2, <2>2, <2>3 DEF Promised
<1>7. Served' /\ Cleared'
  BY <1>6 DEF Served, Cleared
<1>8. \A q \in Procs : Knows(proc[q])'
  <2>1. Knows(proc[p])'
    <3>1. Idle.triggers = {}
      BY DEF Idle
    <3>2. y.pc \notin {"check", "delete", "add"} /\ y.triggers = {}
      BY <1>2, <1>3, <3>1, IdleFacts DEF Same
    <3> QED BY <3>2 DEF Knows
  <2>2. ASSUME NEW q \in Procs \ {p}
        PROVE  Knows(proc[q])'
    <3>1. proc'[q] = proc[q] /\ ~Engaged(proc[q])
      BY <1>2
    <3> QED BY <3>1 DEF Knows, Engaged
  <2> QED BY <2>1, <2>2
<1> QED BY <1>2, <1>5, <1>7, <1>8 DEF Serving

(* Deliveries, and what the calls do before they look at the hooks.         *)
LEMMA DeliveryServing ==
  ASSUME Serving, NEW p \in Procs, Only(p), UNCHANGED <<env, hooks>>, tpl'.repo = tpl.repo,
         proc[p].op \in {"none", "deliver"}, NEW y, proc'[p] = y, y.op \in {"none", "deliver"},
         y.pc \in {"idle", "scan", "load", "store", "commit"}, y.pc = "scan" => y.tpl.repo = tpl.repo
  PROVE  Serving'
<1>1. Placed(y) /\ Carries(y) /\ Knows(y) /\ ~Engaged(y) /\ y.pc # "delete"
  BY DEF Placed, Calling, Carries, Uncommitted, Knows, Engaged
<1>2. \A e \in Envs : ~Restores(y, e) /\ ~Makes(y, e) /\ ~Promises(proc[p], e)
  BY DEF Restores, Makes, Promises
<1> QED BY <1>1, <1>2, StepServing

LEMMA FailsServing ==
  ASSUME Typed, Serving, NEW p \in Procs, Fails(p), proc[p].pc \in {"load", "store"},
         UNCHANGED <<env, hooks, tpl>>
  PROVE  Serving'
<1> DEFINE x == proc[p]
           y == proc'[p]
<1>1. /\ Only(p)
      /\ IF x.op = "deliver" THEN y.op = "deliver" /\ y.pc = "commit" ELSE y = Idle
  BY FailsEffect
<1> HIDE DEF y
<1>2. CASE x.op = "deliver"
  BY <1>1, <1>2, DeliveryServing DEF y
<1>3. CASE x.op # "deliver"
  <2>1. y = Idle
    BY <1>1, <1>3
  <2>2. \A e \in Envs : Promises(x, e) => ~env[e].made
    BY DEF Promises, Makes, Serving, Carries, Uncommitted
  <2> QED BY <1>1, <2>1, <2>2, IdleServing, IdleFacts, StepServing DEF y
<1> QED BY <1>2, <1>3

(* A request goes on as what it was, not engaged.                           *)
LEMMA GoesOnServing ==
  ASSUME Typed, Serving, NEW p \in Procs, Only(p), UNCHANGED <<env, hooks, tpl>>,
         NEW y, proc'[p] = y, proc[p].op \in {"create", "deploy"},
         y.op = proc[p].op, y.work = proc[p].work, y.row = proc[p].row,
         y.triggers = proc[p].triggers, y.repo = proc[p].repo,
         proc[p].pc \in {"load", "store", "save"},
         y.pc \in {"store", "save", "list"} \/ (y.op = "create" /\ y.pc = "commit"),
         y.op = "create" => y.pc # "list" 
  PROVE  Serving'
<1> DEFINE x == proc[p]
<1>1. Placed(x) /\ Carries(x)
  BY DEF Serving
<1>2. x.op = "create" => Uncommitted(x)
  BY DEF Uncommitted, Typed, Request, Control, AtHook
<1> HIDE DEF x
<1>3. Placed(y) /\ Carries(y) /\ Knows(y) /\ ~Engaged(y) /\ y.pc # "delete"
  BY <1>1, <1>2 DEF x, Placed, Calling, Carries, Uncommitted, Knows, Engaged
<1>4. \A e \in Envs : /\ Restores(y, e) => Restores(x, e)
                      /\ Makes(y, e) => Makes(x, e)
                      /\ Promises(x, e) => Promises(y, e)
  BY DEF x, Restores, Makes, Promises
<1>5. \A e \in Envs : Restores(x, e) => Needs(e)
  BY DEF Needs, x
<1> QED BY <1>3, <1>4, <1>5, StepServing DEF x

LEMMA WorkServing ==
  ASSUME Typed, Serving, NEW p \in Procs,
         \/ \E m \in mail : Receive(p, m)
         \/ CreateTplScan(p) \/ LoadIndex(p) \/ StoreIndex(p) \/ SaveRow(p) \/ CommitDelivery(p)
  PROVE  Serving'
<1> DEFINE x == proc[p]
           y == proc'[p]
<1>0. Request(x)
  BY DEF Typed
<1>1. ASSUME NEW m \in mail, Receive(p, m)
      PROVE  Serving'
  <2>1. /\ Only(p) /\ x.pc = "idle" /\ y.op = "deliver"
        /\ (y.pc = "scan" /\ y.tpl = tpl) \/ y.pc \in {"load", "commit"}
    BY <1>1, ReceiveEffect
  <2>2. UNCHANGED <<env, hooks, tpl>>
    <3>1. UNCHANGED <<portal, hooks>>
      BY <1>1, Zenon DEF Receive
    <3> QED BY <3>1 DEF portal
  <2>3. x.op = "none"
    BY <1>0, <2>1 DEF Request, Control, AtHook
  <2> HIDE DEF y
  <2> QED BY <2>1, <2>2, <2>3, DeliveryServing DEF y
<1>2. CASE CreateTplScan(p)
  <2>1. /\ Only(p) /\ x.pc = "scan" /\ x.op = "deliver" /\ y.op = "deliver"
        /\ y.pc = Then(x.todo) /\ (tpl' = tpl \/ tpl' = x.tpl)
    BY <1>2, ScanEffect
  <2>2. UNCHANGED <<env, hooks>> /\ y.pc \in {"load", "commit"}
    BY <1>2, <2>1 DEF CreateTplScan, world, Then
  <2>3. tpl'.repo = tpl.repo
    BY <2>1 DEF Serving, Placed
  <2> HIDE DEF y
  <2> QED BY <2>1, <2>2, <2>3, DeliveryServing DEF y
<1>3. CASE LoadIndex(p)
  <2>1. UNCHANGED <<env, hooks, tpl>>
    <3>1. UNCHANGED <<portal, world>>
      BY <1>3, Zenon DEF LoadIndex
    <3> QED BY <3>1 DEF portal, world
  <2>2. /\ Only(p) /\ x.pc = "load"
        /\ \/ Fails(p)
           \/ /\ y.op = x.op /\ y.pc = "store" /\ y.row = x.row
              /\ y.triggers = x.triggers /\ y.repo = x.repo
              /\ x.op # "deliver" => y.work = x.work
    BY <1>3, LoadEffect
  <2>3. x.op \in {"create", "deploy", "deliver"}
    BY <1>0, <2>2 DEF Request, Control, AtHook
  <2> HIDE DEF y
  <2>4. CASE Fails(p)
    BY <2>1, <2>2, <2>4, FailsServing
  <2>5. CASE ~Fails(p) /\ x.op = "deliver"
    BY <2>1, <2>2, <2>5, DeliveryServing DEF y
  <2>6. CASE ~Fails(p) /\ x.op # "deliver"
    BY <2>1, <2>2, <2>3, <2>6, GoesOnServing DEF y
  <2> QED BY <2>4, <2>5, <2>6
<1>4. CASE StoreIndex(p)
  <2>1. UNCHANGED <<env, hooks, tpl>>
    BY <1>4 DEF StoreIndex, world
  <2>2. /\ Only(p) /\ x.pc = "store"
        /\ \/ Fails(p)
           \/ /\ y.op = x.op /\ y.row = x.row /\ y.work = x.work
              /\ y.triggers = x.triggers /\ y.repo = x.repo
              /\ x.op = "deliver" => y.pc \in {"load", "commit"}
              /\ x.op = "create" => y.pc = "commit"
              /\ x.op = "deploy" => y.pc = "save"
    <3>1. /\ Only(p) /\ x.pc = "store"
          /\ \/ Fails(p)
             \/ /\ y.op = x.op /\ y.row = x.row /\ y.work = x.work
                /\ y.triggers = x.triggers /\ y.repo = x.repo
                /\ y.pc = CASE x.op = "deliver" -> Then(x.todo)
                            [] x.op = "create" -> "commit"
                            [] x.op = "deploy" -> "save"
      BY <1>4, StoreEffect
    <3> HIDE DEF x, y
    <3> QED BY <3>1 DEF Then
  <2>3. x.op \in {"create", "deploy", "deliver"}
    BY <1>0, <2>2 DEF Request, Control, AtHook
  <2> HIDE DEF y
  <2>4. CASE Fails(p)
    BY <2>1, <2>2, <2>4, FailsServing
  <2>5. CASE ~Fails(p) /\ x.op = "deliver"
    BY <2>1, <2>2, <2>5, DeliveryServing DEF y
  <2>6. CASE ~Fails(p) /\ x.op # "deliver"
    BY <2>1, <2>2, <2>3, <2>6, GoesOnServing DEF y
  <2> QED BY <2>4, <2>5, <2>6
<1>5. CASE SaveRow(p)
  <2>1. UNCHANGED <<env, hooks, tpl>>
    BY <1>5 DEF SaveRow, portal, world
  <2>2. Only(p) /\ x.pc = "save" /\ x.op = "deploy" /\ Same(x, y) /\ y.pc = "list"
    BY <1>5, SaveEffect
  <2>3. /\ y.op = x.op /\ y.work = x.work /\ y.row = x.row
        /\ y.triggers = x.triggers /\ y.repo = x.repo
    BY <2>2 DEF Same
  <2> HIDE DEF y
  <2> QED BY <2>1, <2>2, <2>3, GoesOnServing DEF y
<1>6. CASE CommitDelivery(p)
  <2>1. UNCHANGED <<env, hooks, tpl>>
    BY <1>6 DEF CommitDelivery, portal, world
  <2>2. Only(p) /\ y = Idle /\ x.op = "deliver"
    BY <1>6, CommitDeliveryEffect
  <2> HIDE DEF y
  <2> QED BY <2>1, <2>2, IdleFacts, DeliveryServing DEF y
<1> QED BY <1>1, <1>2, <1>3, <1>4, <1>5, <1>6

(* A call commits the row of its environment.                               *)
LEMMA RowServing ==
  ASSUME Typed, Serving, NEW p \in Procs, Only(p), UNCHANGED <<hooks, tpl>>,
         NEW e \in Envs, NEW new, env' = [env EXCEPT ![e] = new], new.made,
         \A q \in Procs \ {p} : ~(Uncommitted(proc[q]) /\ proc[q].work.env = e),
         NEW y, proc'[p] = y, ~Engaged(y), y.pc \in {"idle", "list"},
         Placed(y), ~Uncommitted(y), y.op \notin {"deploy", "update"},
         \A d \in Envs : Makes(y, d) => Makes(proc[p], d),
         \A d \in Envs : Promises(proc[p], d) => Promises(y, d),
         new.triggers # {} \/ (\E q \in Procs \ {p} : Restores(proc[q], e)) => ~new.null,
         new.triggers # {} => \/ Needs(e) \/ Promises(y, e)
                              \/ /\ hooks[tpl.repo] # {}
                                 /\ \A q \in Procs \ {p} : ~Engaged(proc[q])
  PROVE  Serving'
<1>1. \A q \in Procs \ {p} : proc'[q] = proc[q]
  BY DEF Only
<1>2. env'[e] = new /\ \A d \in Envs \ {e} : env'[d] = env[d]
  BY DEF Typed, TypeOK
<1>3. OneEngaged'
  BY <1>1 DEF Serving, OneEngaged
<1>4. OneMakes'
  BY <1>1 DEF Serving, OneMakes
<1>5. \A d \in Envs : ~Restores(y, d)
  BY DEF Restores
<1>6. ASSUME NEW q \in Procs
      PROVE  (Placed(proc[q]) /\ Carries(proc[q]) /\ Knows(proc[q]))'
  <2>1. CASE q = p
    BY <2>1 DEF Placed, Carries, Knows
  <2>2. CASE q # p
    <3>1. proc'[q] = proc[q] /\ Carries(proc[q]) /\ Placed(proc[q]) /\ Knows(proc[q])
      BY <1>1, <2>2 DEF Serving
    <3>2. Uncommitted(proc[q]) \/ proc[q].op \in {"deploy", "update"} => proc[q].work.env \in Envs
      BY DEF Typed, Request, Control, Uncommitted, WorkRow
    <3>3. Carries(proc[q])'
      BY <1>2, <2>2, <3>1, <3>2 DEF Carries
    <3> QED BY <3>1, <3>3 DEF Placed, Knows
  <2> QED BY <2>1, <2>2
<1>7. ASSUME NEW d \in Envs, Promised(d)
      PROVE  Promised(d)'
  <2>1. PICK r \in Procs : Promises(proc[r], d)
    BY <1>7 DEF Promised
  <2> QED BY <1>1, <2>1 DEF Promised
<1>8. ASSUME NEW d \in Envs, Needs(d)'
      PROVE  \/ Needs(d) \/ Promised(d)'
             \/ hooks[tpl.repo] # {} /\ \A q \in Procs \ {p} : ~Engaged(proc[q])
  <2>1. CASE \E q \in Procs : Restores(proc'[q], d)
    BY <1>1, <1>5, <2>1 DEF Needs
  <2>2. CASE env'[d].triggers # {} /\ d # e
    BY <1>2, <2>2 DEF Needs
  <2>3. CASE env'[d].triggers # {} /\ d = e
    <3>1. new.triggers # {}
      BY <1>2, <2>3
    <3>2. Promises(y, e) => Promised(e)'
      BY DEF Promised
    <3> QED BY <2>3, <3>1, <3>2
  <2> QED BY <1>8, <2>1, <2>2, <2>3 DEF Needs
<1>9. Cleared'
  <2> SUFFICES ASSUME NEW q \in Procs, proc'[q].pc = "delete", NEW d \in Envs, Needs(d)'
               PROVE  Promised(d)'
    BY DEF Cleared
  <2>1. q # p /\ proc[q].pc = "delete" /\ Engaged(proc[q])
    BY <1>1 DEF Engaged
  <2>2. Needs(d) => Promised(d)
    BY <2>1 DEF Serving, Cleared
  <2> QED BY <1>7, <1>8, <2>1, <2>2
<1>10. Served' /\ OneHook'
  BY <1>7, <1>8 DEF Serving, Served, OneHook
<1>11. Marked'
  <2> SUFFICES ASSUME NEW d \in Envs, Needs(d)' PROVE env'[d].made /\ ~env'[d].null
    BY DEF Marked
  <2>1. CASE d = e
    BY <1>1, <1>2, <1>5, <2>1 DEF Needs
  <2>2. CASE d # e
    BY <1>1, <1>2, <1>5, <2>2 DEF Needs, Serving, Marked
  <2> QED BY <2>1, <2>2
<1> QED BY <1>3, <1>4, <1>6, <1>9, <1>10, <1>11 DEF Serving

LEMMA CommitServing ==
  ASSUME Typed, Serving, ~tangled', NEW p \in Procs,
         CommitCreate(p) \/ CommitDeploy(p) \/ CommitUpdate(p)
  PROVE  Serving'
<1> DEFINE x == proc[p]
           y == proc'[p]
           e == x.work.env
<1>1. Placed(x) /\ Carries(x) /\ Knows(x)
  BY DEF Serving
<1>2. UNCHANGED <<hooks, tpl>>
  BY DEF CommitCreate, CommitDeploy, CommitUpdate, world
<1>3. \A q \in Procs : env[e].made => ~(Uncommitted(proc[q]) /\ proc[q].work.env = e)
  BY DEF Serving, Carries
<1>4. Engaged(x) => \A q \in Procs \ {p} : ~Engaged(proc[q])
  BY DEF Serving, OneEngaged
<1>5. e \in Envs => (Needs(e) => ~env[e].null)
  BY DEF Serving, Marked
<1>6. CASE CommitCreate(p)
  <2>1. /\ Only(p) /\ x.pc = "commit" /\ x.op = "create" /\ e \in Envs
        /\ y.op = "create" /\ y.pc = "list" /\ y.work = x.work /\ y.triggers = x.triggers
        /\ y.repo = x.repo /\ env' = [env EXCEPT ![e] = x.row]
    BY <1>6, CommitCreateEffect
  <2>2. /\ ~env[e].made /\ x.row.made
        /\ x.row.triggers # {} => ~x.row.null /\ x.triggers # {}
    BY <1>1, <2>1 DEF Carries, Uncommitted
  <2>3. \A q \in Procs \ {p} : ~(Uncommitted(proc[q]) /\ proc[q].work.env = e)
    BY <2>1 DEF Serving, OneMakes, Makes, Uncommitted
  <2>4. \A q \in Procs : ~Restores(proc[q], e)
    BY <2>2 DEF Serving, Carries, Restores
  <2> DEFINE new == x.row
  <2> HIDE DEF x, y, e, new
  <2>5. ~Engaged(y) /\ Placed(y) /\ ~Uncommitted(y)
    BY <1>1, <2>1 DEF Engaged, Placed, Calling, Uncommitted
  <2>6. \A d \in Envs : /\ Makes(y, d) => Makes(x, d)
                        /\ Promises(x, d) => Promises(y, d)
    BY <2>1 DEF Makes, Promises
  <2>7. x.triggers # {} => Promises(y, e)
    BY <2>1 DEF Promises, Makes, e
  <2>8. /\ env' = [env EXCEPT ![e] = new] /\ new.made
        /\ new.triggers # {} => ~new.null /\ Promises(y, e)
    BY <2>1, <2>2, <2>7 DEF new
  <2> QED BY <1>2, <2>1, <2>3, <2>4, <2>5, <2>6, <2>8, RowServing DEF x, y
<1>7. CASE CommitDeploy(p)
  <2>1. /\ Only(p) /\ y = Idle /\ x.pc = "commit" /\ x.op = "deploy" /\ e \in Envs
        /\ env' = [env EXCEPT ![e] = x.row]
    BY <1>7, CommitDeployEffect
  <2>2. x.row.null => env[e].null
    BY <1>7 DEF CommitDeploy
  <2>3. /\ env[e].made /\ x.row.made
        /\ x.row.triggers # {} => ~x.row.null
    BY <1>1, <2>1 DEF Carries
  <2>4. Engaged(x)
    BY <2>1 DEF Engaged
  <2>5. x.triggers # {} => hooks[tpl.repo] # {}
    BY <1>1, <2>1, <2>4 DEF Knows
  <2>6. x.row.triggers # {} /\ x.triggers = {} => Needs(e)
    BY <2>1 DEF Needs, Restores
  <2>7. (\E q \in Procs \ {p} : Restores(proc[q], e)) => Needs(e)
    BY DEF Needs
  <2>8. \A d \in Envs : ~Promises(x, d)
    BY <2>1 DEF Promises, Makes
  <2> DEFINE new == x.row
  <2>9. \A q \in Procs \ {p} : ~(Uncommitted(proc[q]) /\ proc[q].work.env = e)
    BY <1>3, <2>3
  <2> HIDE DEF x, y, e, new
  <2>10. env' = [env EXCEPT ![e] = new] /\ new.made
    BY <2>1, <2>3 DEF new
  <2>11. new.triggers # {} \/ (\E q \in Procs \ {p} : Restores(proc[q], e)) => ~new.null
    BY <1>5, <2>1, <2>2, <2>3, <2>7 DEF new
  <2>12. new.triggers # {} => \/ Needs(e)
                              \/ /\ hooks[tpl.repo] # {}
                                 /\ \A q \in Procs \ {p} : ~Engaged(proc[q])
    BY <1>4, <2>4, <2>5, <2>6 DEF new
  <2> QED BY <1>2, <2>1, <2>8, <2>9, <2>10, <2>11, <2>12, IdleServing, IdleFacts, RowServing
          DEF x, y
<1>8. CASE CommitUpdate(p)
  <2>1. /\ Only(p) /\ y = Idle /\ x.pc = "commit" /\ x.op = "update" /\ e \in Envs
        /\ \/ env' = env
           \/ \E new \in EnvRow :
                /\ env' = [env EXCEPT ![e] = new]
                /\ new.made = env[e].made
                /\ new.null <=> env[e].null /\ ~x.form.key
                /\ new.triggers = IF x.form.key THEN x.form.triggers ELSE env[e].triggers
    BY <1>8, CommitUpdateEffect
  <2>2. env[e].made /\ x.triggers = x.form.triggers
    BY <1>1, <2>1 DEF Carries
  <2>3. \A d \in Envs : ~Promises(x, d)
    BY <2>1 DEF Promises, Makes
  <2>4. CASE env' = env
    <3> HIDE DEF x, y, e
    <3> QED BY <1>2, <2>1, <2>3, <2>4, IdleServing, IdleFacts, StepServing DEF x, y
  <2>5. ASSUME NEW new \in EnvRow,
               env' = [env EXCEPT ![e] = new],
               new.made = env[e].made,
               new.null <=> env[e].null /\ ~x.form.key,
               new.triggers = IF x.form.key THEN x.form.triggers ELSE env[e].triggers
        PROVE  Serving'
    <3>1. x.form.key /\ x.triggers # {} =>
            /\ hooks[tpl.repo] # {}
            /\ \A q \in Procs \ {p} : ~Engaged(proc[q])
      BY <1>1, <1>4, <2>1 DEF Knows, Engaged
    <3>2. env[e].triggers # {} => Needs(e)
      BY DEF Needs
    <3>3. (\E q \in Procs \ {p} : Restores(proc[q], e)) => Needs(e)
      BY DEF Needs
    <3>4. \A q \in Procs \ {p} : ~(Uncommitted(proc[q]) /\ proc[q].work.env = e)
      BY <1>3, <2>2
    <3>5. ~env[e].null => ~new.null
      BY <2>5
    <3> HIDE DEF x, y, e
    <3>6. x.form.key => ~new.null
      BY <2>5
    <3>7. new.triggers # {} \/ (\E q \in Procs \ {p} : Restores(proc[q], e)) => ~new.null
      BY <1>5, <2>1, <2>5, <3>2, <3>3, <3>5, <3>6
    <3>8. new.triggers # {} => \/ Needs(e)
                               \/ /\ hooks[tpl.repo] # {}
                                  /\ \A q \in Procs \ {p} : ~Engaged(proc[q])
      BY <2>2, <2>5, <3>1, <3>2
    <3>9. new.made
      BY <2>2, <2>5
    <3> QED BY <1>2, <2>1, <2>3, <2>5, <3>4, <3>7, <3>8, <3>9, IdleServing, IdleFacts, RowServing, ZenonT(60)
            DEF x, y
  <2> QED BY <2>1, <2>4, <2>5
<1> QED BY <1>6, <1>7, <1>8

LEMMA HookStep == Typed /\ HookInv /\ [Next]_vars => HookInv'
<1> SUFFICES ASSUME Typed, HookInv, [Next]_vars, ~tangled' PROVE Serving'
  BY DEF HookInv
<1>1. CASE UNCHANGED vars
  <2>1. UNCHANGED <<tpl, env, hooks, proc, tangled>>
    BY <1>1 DEF vars, portal, world, history
  <2> QED BY <2>1 DEF HookInv, Serving, OneEngaged, OneMakes, Placed, Carries, Knows, Cleared,
                      Marked, OneHook, Served, Needs, Promised
<1>2. CASE Next
  <2>1. ~tangled
    <3>1. \/ tangled' = tangled
          \/ \E p \in Procs : tangled' = (tangled \/ Overlaps(p))
          \/ tangled' = TRUE
          \/ \E p \in Procs : CommitDeploy(p)
          \/ \E p \in Procs, form \in Forms, k \in DOMAIN Repos : UpdateTemplate(p, form, Repos[k])
      BY <1>2, ZenonT(60) DEF Next, Calls, CreateEnv, DeployEnv, UpdateEnv, LockEnv, Event, RunnerChanges,
         ListWebhook, CheckExists, DeleteWebhook, AddWebhook, HookFails, TokenFails, Receive,
         CreateTplScan, LoadIndex, StoreIndex, SaveRow, CommitCreate, CommitUpdate,
         CommitDelivery, history
    <3>2. ASSUME NEW p \in Procs, CommitDeploy(p)
          PROVE  ~tangled
      BY <3>2, Zenon DEF CommitDeploy
    <3>3. ASSUME NEW p \in Procs, NEW form \in Forms, NEW k \in DOMAIN Repos,
                 UpdateTemplate(p, form, Repos[k])
          PROVE  ~tangled
      BY <3>3, Zenon DEF UpdateTemplate
    <3> QED BY <3>1, <3>2, <3>3, Zenon
  <2>2. Serving
    BY <2>1 DEF HookInv
  <2>3. CASE \E kind \in {"open", "push"} : Event(kind)
    <3>1. UNCHANGED <<tpl, env, hooks, proc>>
      BY <2>3, Zenon DEF Event, portal
    <3> QED BY <2>2, <3>1 DEF Serving, OneEngaged, OneMakes, Placed, Carries, Knows, Cleared,
                              Marked, OneHook, Served, Needs, Promised
  <2>4. CASE \E r \in Elems(Runners) : RunnerChanges(r)
    <3>1. UNCHANGED <<tpl, env, hooks, proc>>
      BY <2>4, Zenon DEF RunnerChanges, portal
    <3> QED BY <2>2, <3>1 DEF Serving, OneEngaged, OneMakes, Placed, Carries, Knows, Cleared,
                              Marked, OneHook, Served, Needs, Promised
  <2>5. ASSUME NEW p \in Procs, HookFails(p) \/ TokenFails(p)
        PROVE  FALSE
    BY <2>5 DEF HookFails, TokenFails
  <2> QED BY <1>2, <2>2, <2>3, <2>4, <2>5, CallsServing, ListServing, CheckServing, AddServing,
             DeleteServing, WorkServing, CommitServing DEF Next
<1> QED BY <1>1, <1>2

(* As long as calls do not meet at the hook, none of them fails there, the  *)
(* template stays in its repository and no deployment takes the first       *)
(* triggers of an environment back, there is one hook at most, and there is *)
(* one where an environment has triggers.                                   *)
THEOREM HookCorrect == Spec => []HookServes
<1>1. Typed /\ HookInv => HookServes
  <2> SUFFICES ASSUME Typed, Serving
               PROVE  /\ Cardinality(hooks[tpl.repo]) <= 1
                      /\ \A e \in Envs : env[e].triggers # {} /\ Settled(e) => hooks[tpl.repo] # {}
    BY DEF HookInv, HookServes
  <2>1. Cardinality(hooks[tpl.repo]) <= 1
    <3>1. CASE hooks[tpl.repo] = {}
      BY <3>1, FS_EmptySet
    <3>2. CASE hooks[tpl.repo] # {}
      <4>1. PICK h \in hooks[tpl.repo] : hooks[tpl.repo] = {h}
        BY <3>2 DEF Serving, OneHook
      <4>2. Cardinality({h}) = 1
        BY FS_Singleton
      <4> QED BY <4>1, <4>2
    <3> QED BY <3>1, <3>2
  <2>2. ASSUME NEW e \in Envs, env[e].triggers # {}, Settled(e)
        PROVE  hooks[tpl.repo] # {}
    BY <2>2 DEF Serving, Served, Needs, Promised, Promises, Makes, Settled
  <2> QED BY <2>1, <2>2
<1> QED BY <1>1, InitServing, HookStep, TypedAlways, PTL DEF Spec

-----------------------------------------------------------------------------
(* Tasks run where their tags allow, in turn.                               *)

(* A list of different runners, ...                                         *)
Listed(list) ==
    /\ list \in Seq(Elems(Runners))
    /\ \A i, j \in DOMAIN list : list[i] = list[j] => i = j

LEMMA AvailableFacts ==
  ASSUME NEW tags
  PROVE  /\ Listed(Available(tags))
         /\ \A i \in DOMAIN Available(tags) : tags \subseteq TagsOf[Available(tags)[i]]
<1> DEFINE T == {r \in up : tags \subseteq TagsOf[r]}
           list == Available(tags)
<1>1. Runners \in Seq(Elems(Runners)) /\ list = Filtered(Runners, T)
  BY WebhookAssumption DEF Available
<1>2. PICK h : list \in Seq(Elems(Runners)) /\ Places(h, list, Runners, T, Len(Runners))
  <2> HIDE DEF T, list
  <2> QED BY <1>1, FilteredFacts
<1> HIDE DEF list
<1>3. DOMAIN list = 1..Len(list) /\ Len(list) \in Nat /\ DOMAIN Runners = 1..Len(Runners)
      /\ Len(Runners) \in Nat
  BY <1>1, <1>2
<1>4. ASSUME NEW i \in DOMAIN list, NEW j \in DOMAIN list, list[i] = list[j] PROVE i = j
  <2>1. h[i] \in DOMAIN Runners /\ h[j] \in DOMAIN Runners /\ Runners[h[i]] = Runners[h[j]]
    BY <1>2, <1>3, <1>4 DEF Places
  <2>2. h[i] = h[j] /\ h[i] \in Nat
    BY <1>3, <2>1, SetupAssumption
  <2>3. ~(i < j) /\ ~(j < i)
    BY <1>2, <1>3, <2>2 DEF Places
  <2> QED BY <1>3, <2>3
<1>5. \A i \in DOMAIN list : list[i] \in T
  BY <1>2, <1>3 DEF Places
<1> QED BY <1>2, <1>4, <1>5 DEF Listed, list

(* A task is one that may run and that is prepared; a request that has a    *)
(* list has one of runners its task may run on.                             *)
Ready(t) ==
    /\ Setup[t.env].tags \subseteq TagsOf[t.runner]
    /\ SoundFile(Setup[t.env].file) => Prepared(t)
Asked(x) ==
    LET tags == Setup[x.work.env].tags
    IN  /\ Listed(x.list) /\ x.list # << >>
        /\ \A i \in DOMAIN x.list : tags \subseteq TagsOf[x.list[i]]
Tasked(x) == (x.pc = "store" => Asked(x)) /\ \A t \in x.made : Ready(t)
AllReady == (\A t \in tasks : Ready(t)) /\ \A p \in Procs : Tasked(proc[p])

LEMMA LoadList ==
  ASSUME Typed, NEW p \in Procs, LoadIndex(p), ~Fails(p)
  PROVE  LET y == proc'[p] IN y.list = Available(Setup[y.work.env].tags) /\ y.list # << >>
<1>1. Request(proc[p])
  BY DEF Typed
<1>2. PICK w \in Work(p) :
        /\ Available(Setup[w.env].tags) # << >>
        /\ Goes(p, [proc[p] EXCEPT !.pc = "store", !.work = w, !.todo = @ \ {w},
                     !.list = Available(Setup[w.env].tags), !.rid = index[Setup[w.env].tags]])
  BY DEF LoadIndex
<1> DEFINE list == Available(Setup[w.env].tags)
           rid == index[Setup[w.env].tags]
           todo == proc[p].todo \ {w}
           y == [proc[p] EXCEPT !.pc = "store", !.work = w, !.todo = todo,
                                !.list = list, !.rid = rid]
<1>3. Goes(p, y) /\ list # << >>
  BY <1>1, <1>2 DEF Request, Shaped
<1>4. proc'[p] = y
  BY <1>3, GoesFacts
<1>5. list = Available(Setup[w.env].tags)
  OBVIOUS
<1> HIDE DEF list, rid, todo
<1>6. y.work = w /\ y.list = list
  BY <1>1 DEF Request, Shaped
<1> HIDE DEF y
<1> QED BY <1>3, <1>4, <1>5, <1>6

LEMMA StoreTask ==
  ASSUME Typed, NEW p \in Procs, StoreIndex(p), ~Fails(p)
  PROVE  LET x == proc[p]
             runner == x.list[Taken(x.rid, Len(x.list)) + 1]
         IN  proc'[p].made = x.made \cup {NewTask(p, runner)}
<1>1. Request(proc[p])
  BY DEF Typed
<1> DEFINE runner == proc[p].list[Taken(proc[p].rid, Len(proc[p].list)) + 1]
           made == proc[p].made \cup {NewTask(p, runner)}
<1>2. PICK next : Goes(p, [proc[p] EXCEPT !.pc = next, !.made = @ \cup {NewTask(p, runner)},
                                          !.list = << >>, !.rid = 0])
  BY DEF StoreIndex
<1> HIDE DEF runner
<1> DEFINE y == [proc[p] EXCEPT !.pc = next, !.made = made, !.list = << >>, !.rid = 0]
<1>3. Goes(p, y)
  BY <1>1, <1>2 DEF Request, Shaped
<1>4. proc'[p] = y
  BY <1>3, GoesFacts
<1>5. made = proc[p].made \cup {NewTask(p, runner)}
  OBVIOUS
<1> HIDE DEF made
<1>6. y.made = made
  BY <1>1 DEF Request, Shaped
<1> HIDE DEF y
<1> QED BY <1>4, <1>5, <1>6 DEF runner

(* Whose turn it is.                                                        *)
LEMMA TakenFacts ==
  ASSUME NEW rid \in Nat, NEW len \in Nat \ {0}
  PROVE  /\ Taken(rid, len) \in 0..(len - 1)
         /\ LET i == Taken(rid, len)
            IN  Taken(Stored(rid, len), len) = IF i = len - 1 THEN 0 ELSE i + 1
  BY DEF Taken, Stored

LEMMA TaskReady ==
  ASSUME Typed, NEW p \in Procs, proc[p].pc = "store", Tasked(proc[p])
  PROVE  LET x == proc[p]
         IN  Ready(NewTask(p, x.list[Taken(x.rid, Len(x.list)) + 1]))
<1> DEFINE x == proc[p]
           k == Taken(x.rid, Len(x.list)) + 1
           t == NewTask(p, x.list[k])
<1>1. Request(x) /\ Asked(x)
  BY DEF Typed, Tasked
<1>2. x.work \in WorkRow /\ x.rid \in Nat
  BY <1>1 DEF Request, Fields, Control, AtHook
<1>3. x.work.env \in Envs /\ x.work.type \in Types
  BY <1>2 DEF WorkRow
<1>4. t.env = x.work.env /\ t.runner = x.list[k]
  BY DEF NewTask
<1>5. Len(x.list) \in Nat \ {0} /\ DOMAIN x.list = 1..Len(x.list)
  BY <1>1 DEF Asked, Listed
<1>6. k \in DOMAIN x.list
  <2>1. Taken(x.rid, Len(x.list)) \in 0..(Len(x.list) - 1)
    BY <1>2, <1>5, TakenFacts
  <2> QED BY <1>5, <2>1
<1>7. Setup[x.work.env].tags \subseteq TagsOf[x.list[k]]
  BY <1>1, <1>6 DEF Asked
<1>8. SoundFile(Setup[x.work.env].file) => Prepared(t)
  BY <1>3, TaskPrepared
<1> HIDE DEF t, k
<1>9. Ready(t)
  BY <1>4, <1>7, <1>8 DEF Ready
<1> QED BY <1>9 DEF t, k

LEMMA ReadyGoesOn ==
  ASSUME AllReady, NEW p \in Procs, Only(p), Tasked(proc'[p]),
         \A t \in tasks' : t \in tasks \/ t \in proc[p].made
  PROVE  AllReady'
<1>1. \A q \in Procs : Tasked(proc'[q])
  BY DEF Only, AllReady
<1>2. \A t \in tasks' : Ready(t)
  BY DEF AllReady, Tasked
<1> QED BY <1>1, <1>2 DEF AllReady

LEMMA IdleTasked == Tasked(Idle)
  BY IdleFacts DEF Tasked

LEMMA CallsReady ==
  ASSUME Typed, AllReady, Calls
  PROVE  AllReady'
<1>1. ASSUME NEW p \in Procs, Only(p), proc'[p].pc # "store", proc'[p].made = {}, tasks' = tasks
      PROVE  AllReady'
  BY <1>1, ReadyGoesOn DEF Tasked
<1>2. ASSUME NEW p \in Procs, NEW e \in Envs, NEW form \in Forms,
             CreateEnv(p, e, form) \/ DeployEnv(p, e, form) \/ UpdateEnv(p, e, form)
      PROVE  AllReady'
  <2>1. tasks' = tasks
    BY <1>2 DEF CreateEnv, DeployEnv, UpdateEnv
  <2>2. Only(p) /\ proc'[p].pc # "store" /\ proc'[p].made = {}
    BY <1>2, CreateEffect, DeployEffect, UpdateEffect
  <2> QED BY <1>1, <2>1, <2>2
<1>3. ASSUME NEW p \in Procs, NEW form \in Forms, NEW k \in DOMAIN Repos,
             UpdateTemplate(p, form, Repos[k])
      PROVE  AllReady'
  <2> DEFINE repo == Repos[k]
  <2>1. repo \in Elems(Repos) /\ UpdateTemplate(p, form, repo)
    BY <1>3, ElemsFacts
  <2> HIDE DEF repo
  <2>2. tasks' = tasks
    BY <2>1 DEF UpdateTemplate
  <2>3. Only(p) /\ proc'[p].pc # "store" /\ proc'[p].made = {}
    BY <2>1, TemplateEffect
  <2> QED BY <1>1, <2>2, <2>3
<1>4. ASSUME NEW e \in Envs, LockEnv(e) PROVE AllReady'
  BY <1>4 DEF LockEnv, AllReady
<1> QED BY <1>2, <1>3, <1>4 DEF Calls

LEMMA HookReady ==
  ASSUME Typed, AllReady, NEW p \in Procs,
         \/ ListWebhook(p) \/ CheckExists(p) \/ DeleteWebhook(p) \/ AddWebhook(p)
         \/ HookFails(p) \/ TokenFails(p)
  PROVE  AllReady'
<1>1. tasks' = tasks
  BY DEF ListWebhook, CheckExists, DeleteWebhook, AddWebhook, HookFails, TokenFails
<1>2. Tasked(proc[p])
  BY DEF AllReady
<1>3. Only(p) /\ (proc'[p] = Idle \/ (proc'[p].made = proc[p].made /\ proc'[p].pc # "store"))
  <2>1. ASSUME AfterHook(p), proc[p].pc \in AtHook
        PROVE  Only(p) /\ (proc'[p] = Idle \/ (proc'[p].made = proc[p].made /\ proc'[p].pc # "store"))
    BY <2>1, AfterHookEffect DEF Same
  <2>2. CASE ListWebhook(p)
    <3>1. proc[p].pc \in AtHook
      BY <2>2, ListEffect DEF AtHook
    <3> QED BY <2>1, <2>2, <3>1, ListEffect DEF Same
  <2>3. CASE CheckExists(p)
    <3>1. proc[p].pc \in AtHook
      BY <2>3, CheckEffect DEF AtHook
    <3> QED BY <2>1, <2>3, <3>1, CheckEffect DEF Same
  <2>4. CASE AddWebhook(p) \/ DeleteWebhook(p) \/ HookFails(p)
    BY <2>1, <2>4, AddDeleteEffect
  <2>5. CASE TokenFails(p)
    BY <2>5, TokenEffect
  <2> QED BY <2>2, <2>3, <2>4, <2>5
<1>4. Tasked(proc'[p])
  BY <1>2, <1>3, IdleTasked DEF Tasked
<1> QED BY <1>1, <1>3, <1>4, ReadyGoesOn

LEMMA WorkReady ==
  ASSUME Typed, AllReady, NEW p \in Procs,
         (\E m \in mail : Receive(p, m)) \/ CreateTplScan(p) \/ LoadIndex(p) \/ StoreIndex(p)
  PROVE  AllReady'
<1>1. tasks' = tasks
  BY DEF Receive, CreateTplScan, LoadIndex, StoreIndex
<1>2. Tasked(proc[p])
  BY DEF AllReady
<1>3. CASE \E m \in mail : Receive(p, m)
  <2>1. Only(p) /\ proc'[p].made = {} /\ proc'[p].pc # "store"
    BY <1>3, ReceiveEffect
  <2> QED BY <1>1, <2>1, ReadyGoesOn DEF Tasked
<1>4. CASE CreateTplScan(p)
  <2>1. Only(p) /\ proc'[p].made = proc[p].made /\ proc'[p].pc # "store"
    BY <1>4, ScanEffect DEF Then
  <2> QED BY <1>1, <1>2, <2>1, ReadyGoesOn DEF Tasked
<1>5. CASE Fails(p) /\ (LoadIndex(p) \/ StoreIndex(p))
  <2>1. proc[p].pc \in {"load", "store"}
    BY <1>5 DEF LoadIndex, StoreIndex, At
  <2>2. Only(p) /\ (proc'[p] = Idle \/ (proc'[p].made = {} /\ proc'[p].pc # "store"))
    BY <1>5, <2>1, FailsEffect
  <2>3. Tasked(proc'[p])
    BY <2>2, IdleTasked DEF Tasked
  <2> QED BY <1>1, <2>2, <2>3, ReadyGoesOn
<1>6. CASE LoadIndex(p) /\ ~Fails(p)
  <2>1. Only(p) /\ proc'[p].made = proc[p].made
    BY <1>6, LoadEffect
  <2>2. Asked(proc'[p])
    BY <1>6, LoadList, AvailableFacts DEF Asked
  <2>3. Tasked(proc'[p])
    BY <1>2, <2>1, <2>2 DEF Tasked
  <2> QED BY <1>1, <2>1, <2>3, ReadyGoesOn
<1>7. CASE StoreIndex(p) /\ ~Fails(p)
  <2> DEFINE t == NewTask(p, proc[p].list[Taken(proc[p].rid, Len(proc[p].list)) + 1])
  <2>1. Only(p) /\ proc[p].pc = "store" /\ proc'[p].pc # "store"
    <3>1. Request(proc[p])
      BY DEF Typed
    <3>2. proc[p].pc = "store" => proc[p].op \in {"create", "deploy", "deliver"}
      BY <3>1 DEF Request, Control, AtHook
    <3> QED BY <1>7, <3>2, StoreEffect DEF Then
  <2>2. proc'[p].made = proc[p].made \cup {t}
    BY <1>7, StoreTask
  <2>3. Ready(t)
    BY <1>2, <2>1, TaskReady
  <2> HIDE DEF t
  <2>4. Tasked(proc'[p])
    BY <1>2, <2>1, <2>2, <2>3 DEF Tasked
  <2> QED BY <1>1, <2>1, <2>4, ReadyGoesOn
<1> QED BY <1>3, <1>4, <1>5, <1>6, <1>7

LEMMA CommitReady ==
  ASSUME Typed, AllReady, NEW p \in Procs,
         \/ SaveRow(p) \/ CommitCreate(p) \/ CommitDeploy(p) \/ CommitUpdate(p)
         \/ CommitDelivery(p)
  PROVE  AllReady'
<1>1. \A t \in tasks' : t \in tasks \/ t \in proc[p].made
  BY DEF SaveRow, CommitCreate, CommitDeploy, CommitUpdate, CommitDelivery
<1>2. Tasked(proc[p])
  BY DEF AllReady
<1>3. /\ Only(p)
      /\ \/ proc'[p] = Idle
         \/ proc'[p].pc # "store" /\ (proc'[p].made = {} \/ proc'[p].made = proc[p].made)
  <2>1. CASE SaveRow(p)
    BY <2>1, SaveEffect DEF Same
  <2>2. CASE CommitCreate(p)
    BY <2>2, CommitCreateEffect
  <2>3. CASE CommitDeploy(p) \/ CommitUpdate(p) \/ CommitDelivery(p)
    BY <2>3, CommitDeployEffect, CommitUpdateEffect, CommitDeliveryEffect
  <2> QED BY <2>1, <2>2, <2>3
<1>4. Tasked(proc'[p])
  BY <1>2, <1>3, IdleTasked DEF Tasked
<1> QED BY <1>1, <1>3, <1>4, ReadyGoesOn

LEMMA ReadyStep == Typed /\ AllReady /\ [Next]_vars => AllReady'
<1> SUFFICES ASSUME Typed, AllReady, [Next]_vars PROVE AllReady'
  OBVIOUS
<1>1. CASE UNCHANGED vars
  BY <1>1 DEF vars, AllReady
<1>2. ASSUME (\E kind : Event(kind)) \/ (\E r \in Elems(Runners) : RunnerChanges(r))
      PROVE  AllReady'
  BY <1>2 DEF Event, RunnerChanges, AllReady
<1>3. CASE Next
  BY <1>2, <1>3, CallsReady, HookReady, WorkReady, CommitReady DEF Next
<1> QED BY <1>1, <1>3

LEMMA InitReady == Init => AllReady
  BY IdleTasked DEF Init, AllReady

LEMMA ReadyAlways == Spec => []AllReady
  BY InitReady, ReadyStep, TypedAlways, PTL DEF Spec

(* Whatever a file says that is not unsound by itself, and whatever steps   *)
(* are left out of its flow, no task that is created applies or destroys    *)
(* without its plan, its scan and its approval.                             *)
THEOREM PreparedCorrect == Spec => []EffectIsPrepared
<1>1. AllReady => EffectIsPrepared
  BY DEF AllReady, Ready, EffectIsPrepared
<1> QED BY <1>1, ReadyAlways, PTL

-----------------------------------------------------------------------------
(* The turns.                                                               *)

(* The places of a round, from where it began on, whose turn has been, where*)
(* it is the turn of i now.                                                 *)
Had(start, i, k) == IF start <= i THEN start <= k /\ k < i ELSE start <= k \/ k < i

(* Those who had their turn since all had as many are those of a round.     *)
Turned(list, taken, rid) ==
    /\ taken \in [Elems(Runners) -> {0, 1}]
    /\ \A r \in Elems(Runners) \ Elems(list) : taken[r] = 0
    /\ list # << >> => \E start \in 0..(Len(list) - 1) : \A k \in 0..(Len(list) - 1) :
         taken[list[k + 1]] = 1 <=> Had(start, Taken(rid, Len(list)), k)

InTurn ==
    /\ turns = [g \in Tags |-> turns[g]]
    /\ \A g \in Tags :
         Listed(turns[g].list) /\ Turned(turns[g].list, turns[g].taken, index[g])

LEMMA NoTurnsTurned == ASSUME NEW rid PROVE Listed(NoTurns.list) /\ Turned(NoTurns.list, NoTurns.taken, rid)
  BY DEF NoTurns, Turned, Listed, Elems

(* One turn.                                                                *)
Round(len, start, i, next) ==
    /\ next \in 0..(len - 1) /\ ~Had(start, i, i)
    /\ \A k \in 0..(len - 1) : ~Had(next, next, k) /\ ~Had(i, i, k)
    /\ \/ \A k \in 0..(len - 1) : Had(start, i, k) \/ k = i
       \/ \A k \in 0..(len - 1) : Had(start, next, k) <=> Had(start, i, k) \/ k = i

LEMMA RoundFacts ==
  \A len \in Nat \ {0} : \A start, i \in 0..(len - 1) : \A next :
    next = (IF i = len - 1 THEN 0 ELSE i + 1) => Round(len, start, i, next)
  BY DEF Had, Round

LEMMA TurnTurned ==
  ASSUME NEW list, Listed(list), list # << >>, NEW rid \in Nat,
         NEW before, Turned(list, before, rid),
         NEW after,
         after = [before EXCEPT ![list[Taken(rid, Len(list)) + 1]] = @ + 1]
  PROVE  LET taken == IF \A r \in Elems(list) : after[r] > 0
                      THEN [r \in DOMAIN after |-> IF after[r] = 0 THEN 0 ELSE after[r] - 1]
                      ELSE after
         IN  Turned(list, taken, Stored(rid, Len(list)))
<1> DEFINE len == Len(list)
           i == Taken(rid, len)
           next == Taken(Stored(rid, len), len)
           runner == list[i + 1]
           reset == [r \in DOMAIN after |-> IF after[r] = 0 THEN 0 ELSE after[r] - 1]
<1>1. /\ len \in Nat \ {0} /\ DOMAIN list = 1..len
      /\ \A k \in 0..(len - 1) : k + 1 \in DOMAIN list /\ list[k + 1] \in Elems(Runners)
  BY DEF Listed
<1>2. i \in 0..(len - 1) /\ next = IF i = len - 1 THEN 0 ELSE i + 1
  BY <1>1, TakenFacts
<1> HIDE DEF len, i, next
<1>3. PICK start \in 0..(len - 1) : \A k \in 0..(len - 1) : before[list[k + 1]] = 1 <=> Had(start, i, k)
  BY DEF Turned, len, i
<1>turn. Round(len, start, i, next)
  BY <1>1, <1>2, RoundFacts, Zenon
<1>4. /\ next \in 0..(len - 1) /\ ~Had(start, i, i)
      /\ \A k \in 0..(len - 1) : ~Had(next, next, k) /\ ~Had(i, i, k)
      /\ \/ \A k \in 0..(len - 1) : Had(start, i, k) \/ k = i
         \/ \A k \in 0..(len - 1) : Had(start, next, k) <=> Had(start, i, k) \/ k = i
  BY <1>turn, Zenon DEF Round
<1>5. /\ before \in [Elems(Runners) -> {0, 1}]
      /\ \A r \in Elems(Runners) \ Elems(list) : before[r] = 0
  BY DEF Turned
<1>6. runner \in Elems(Runners) /\ before[runner] = 0 /\ runner \in Elems(list)
  <2>1. before[runner] # 1
    BY <1>2, <1>3, <1>4
  <2> QED BY <1>1, <1>2, <1>5, <2>1, ZenonT(60) DEF Elems
<1>7. \A k \in 0..(len - 1) : list[k + 1] = runner <=> k = i
  <2>1. ASSUME NEW k \in 0..(len - 1), list[k + 1] = list[i + 1] PROVE k = i
    <3>1. k + 1 \in DOMAIN list /\ i + 1 \in DOMAIN list
      BY <1>1, <1>2
    <3>2. k + 1 = i + 1
      BY <2>1, <3>1, Zenon DEF Listed
    <3> QED BY <1>2, <3>2
  <2> QED BY <1>2, <2>1
<1> HIDE DEF runner
<1>8. after = [before EXCEPT ![runner] = @ + 1]
  BY DEF runner, i, len
<1>9. /\ after \in [Elems(Runners) -> {0, 1}] /\ after[runner] = 1
      /\ \A r \in Elems(Runners) : r # runner => after[r] = before[r]
  BY <1>5, <1>6, <1>8
<1>10. \A r \in Elems(Runners) \ Elems(list) : after[r] = 0
  BY <1>5, <1>6, <1>9
<1>11. \A k \in 0..(len - 1) : after[list[k + 1]] = 1 <=> Had(start, i, k) \/ k = i
  BY <1>1, <1>3, <1>7, <1>9
<1>12. CASE \A r \in Elems(list) : after[r] > 0
  <2>1. reset \in [Elems(Runners) -> {0, 1}] /\ \A r \in Elems(Runners) : reset[r] = 0
    BY <1>9
  <2> HIDE DEF reset
  <2>2. \A k \in 0..(len - 1) : reset[list[k + 1]] = 1 <=> Had(next, next, k)
    BY <1>1, <1>4, <2>1
  <2>3. Turned(list, reset, Stored(rid, len))
    BY <1>4, <2>1, <2>2 DEF Turned, len, next
  <2> QED BY <1>12, <2>3 DEF reset, len
<1>13. CASE ~\A r \in Elems(list) : after[r] > 0
  <2>1. PICK m \in DOMAIN list : ~(after[list[m]] > 0)
    BY <1>13 DEF Elems
  <2>2. m - 1 \in 0..(len - 1) /\ (m - 1) + 1 = m
    BY <1>1
  <2>3. ~(Had(start, i, m - 1) \/ m - 1 = i)
    <3>1. after[list[m]] # 1
      BY <2>1
    <3> QED BY <1>11, <2>2, <3>1
  <2>4. \A k \in 0..(len - 1) : Had(start, next, k) <=> Had(start, i, k) \/ k = i
    BY <1>4, <2>2, <2>3
  <2>5. \A k \in 0..(len - 1) : after[list[k + 1]] = 1 <=> Had(start, next, k)
    BY <1>11, <2>4
  <2>6. Turned(list, after, Stored(rid, len))
    BY <1>9, <1>10, <2>5 DEF Turned, len, next
  <2> QED BY <1>13, <2>6 DEF len
<1> QED BY <1>12, <1>13

LEMMA CountedTurned ==
  ASSUME Typed, InTurn, NEW p \in Procs, proc[p].pc = "store", Asked(proc[p]),
         proc[p].work.env \in Envs
  PROVE  LET x == proc[p]
             tags == Setup[x.work.env].tags
             new == Counted(p, tags, x.list[Taken(x.rid, Len(x.list)) + 1])
         IN  Listed(new.list) /\ Turned(new.list, new.taken, Stored(x.rid, Len(x.list)))
<1> DEFINE x == proc[p]
           list == x.list
           tags == Setup[x.work.env].tags
           runner == list[Taken(x.rid, Len(list)) + 1]
           new == Counted(p, tags, runner)
           before == IF turns[tags].list = list THEN turns[tags].taken ELSE NoTurns.taken
           after == [before EXCEPT ![runner] = @ + 1]
           taken == IF \A r \in Elems(list) : after[r] > 0
                    THEN [r \in DOMAIN after |-> IF after[r] = 0 THEN 0 ELSE after[r] - 1]
                    ELSE after
<1>1. Request(x)
  BY DEF Typed
<1>2. x.rid \in Nat /\ tags \in Tags /\ Listed(list) /\ list # << >>
  BY <1>1 DEF Request, Fields, Tags, Asked
<1>3. CASE new = NoTurns
  BY <1>3, NoTurnsTurned
<1>4. CASE new # NoTurns
  <2>1. index[tags] = x.rid /\ new = [list |-> list, taken |-> taken]
    BY <1>4 DEF Counted
  <2>2. Turned(list, before, x.rid)
    <3>1. CASE turns[tags].list = list
      BY <1>2, <2>1, <3>1 DEF InTurn
    <3>2. CASE turns[tags].list # list
      <4>1. before = NoTurns.taken
        BY <3>2
      <4>2. Len(list) \in Nat \ {0}
        BY <1>2 DEF Listed
      <4>3. PICK i \in 0..(Len(list) - 1) : i = Taken(x.rid, Len(list))
        BY <1>2, <4>2, TakenFacts
      <4>4. \A k \in 0..(Len(list) - 1) : ~Had(i, i, k)
        BY <4>2, <4>3 DEF Had
      <4>5. /\ before \in [Elems(Runners) -> {0, 1}]
            /\ \A r \in Elems(Runners) : before[r] = 0
        <5>1. NoTurns.taken = [r \in Elems(Runners) |-> 0]
          BY DEF NoTurns
        <5> HIDE DEF before
        <5> QED BY <4>1, <5>1
      <4>6. \A k \in 0..(Len(list) - 1) : list[k + 1] \in Elems(Runners)
        BY <1>2 DEF Listed
      <4> HIDE DEF before, list, x
      <4>7. \A k \in 0..(Len(list) - 1) : before[list[k + 1]] = 1 <=> Had(i, i, k)
        BY <4>4, <4>5, <4>6
      <4> QED BY <4>3, <4>5, <4>7 DEF Turned
    <3> QED BY <3>1, <3>2
  <2> HIDE DEF before
  <2>3. Turned(list, taken, Stored(x.rid, Len(list)))
    <3> HIDE DEF list, x
    <3> QED BY <1>2, <2>2, TurnTurned
  <2>4. new.list = list /\ new.taken = taken
    <3> HIDE DEF new, list, taken
    <3> QED BY <2>1
  <2> QED BY <1>2, <2>3, <2>4
<1> QED BY <1>3, <1>4

LEMMA StoreTurn ==
  ASSUME Typed, InTurn, AllReady, NEW p \in Procs, StoreIndex(p)
  PROVE  InTurn'
<1> DEFINE x == proc[p]
           tags == Setup[x.work.env].tags
           new == Counted(p, tags, x.list[Taken(x.rid, Len(x.list)) + 1])
           rid == Stored(x.rid, Len(x.list))
<1>1. x.pc = "store" /\ index' = [index EXCEPT ![tags] = rid] /\ turns' = [turns EXCEPT ![tags] = new]
  BY DEF StoreIndex, At
<1>2. Request(x) /\ Asked(x)
  BY <1>1 DEF Typed, AllReady, Tasked
<1>3. x.work.env \in Envs /\ tags \in Tags
  BY <1>1, <1>2 DEF Request, Control, AtHook, WorkRow, Tags
<1>4. Listed(new.list) /\ Turned(new.list, new.taken, rid)
  BY <1>1, <1>2, <1>3, CountedTurned
<1>5. index \in [Tags -> Nat]
  BY DEF Typed, TypeOK
<1> HIDE DEF new, tags, rid
<1>6. /\ turns' = [g \in Tags |-> turns'[g]] /\ turns'[tags] = new /\ index'[tags] = rid
      /\ \A g \in Tags : g # tags => turns'[g] = turns[g] /\ index'[g] = index[g]
  BY <1>1, <1>3, <1>5 DEF InTurn
<1>7. ASSUME NEW g \in Tags
      PROVE  Listed(turns'[g].list) /\ Turned(turns'[g].list, turns'[g].taken, index'[g])
  <2>1. CASE g = tags
    BY <1>4, <1>6, <2>1
  <2>2. CASE g # tags
    BY <1>6, <2>2 DEF InTurn
  <2> QED BY <2>1, <2>2
<1> QED BY <1>6, <1>7 DEF InTurn

LEMMA TurnStep == Typed /\ AllReady /\ InTurn /\ [Next]_vars => InTurn'
<1> SUFFICES ASSUME Typed, AllReady, InTurn, [Next]_vars PROVE InTurn'
  OBVIOUS
<1>1. CASE turns' = turns /\ index' = index
  BY <1>1 DEF InTurn
<1>2. CASE UNCHANGED vars
  BY <1>1, <1>2 DEF vars, portal, history
<1>3. CASE Next
  <2>1. CASE \E p \in Procs : StoreIndex(p)
    BY <2>1, StoreTurn
  <2>2. CASE ~\E p \in Procs : StoreIndex(p)
    <3>1. turns' = turns /\ index' = index
      <4>1. CASE Calls
        BY <4>1, ZenonT(60) DEF Calls, CreateEnv, DeployEnv, UpdateEnv, LockEnv, UpdateTemplate, portal, history
      <4>2. CASE \E p \in Procs : \/ ListWebhook(p) \/ CheckExists(p) \/ DeleteWebhook(p)
                                  \/ AddWebhook(p) \/ HookFails(p) \/ TokenFails(p)
        BY <4>2 DEF ListWebhook, CheckExists, DeleteWebhook, AddWebhook, HookFails, TokenFails,
                    portal, history
      <4>3. CASE (\E kind : Event(kind)) \/ \E r \in Elems(Runners) : RunnerChanges(r)
        BY <4>3 DEF Event, RunnerChanges, portal, history
      <4>4. CASE \E p \in Procs : \/ \E m \in mail : Receive(p, m)
                                  \/ CreateTplScan(p) \/ LoadIndex(p)
        BY <4>4 DEF Receive, CreateTplScan, LoadIndex, portal, history
      <4>5. CASE \E p \in Procs : \/ SaveRow(p) \/ CommitCreate(p) \/ CommitDeploy(p)
                                  \/ CommitUpdate(p) \/ CommitDelivery(p)
        BY <4>5 DEF SaveRow, CommitCreate, CommitDeploy, CommitUpdate, CommitDelivery,
                    portal, history
      <4> QED BY <1>3, <2>2, <4>1, <4>2, <4>3, <4>4, <4>5 DEF Next
    <3> QED BY <1>1, <3>1
  <2> QED BY <2>1, <2>2
<1> QED BY <1>2, <1>3

LEMMA InitTurn == Init => InTurn
<1> SUFFICES ASSUME Init PROVE InTurn
  OBVIOUS
<1>1. turns = [g \in Tags |-> NoTurns]
  BY DEF Init
<1> QED BY <1>1, NoTurnsTurned DEF InTurn

(* Whatever runners there are, come and go, and wherever longer and shorter *)
(* lists have left the index, tasks run where they may, and no runner that  *)
(* is asked for in an undisturbed round has two tasks more than another.    *)
THEOREM TurnsCorrect == Spec => []RunnersTakeTurns
<1>1. AllReady /\ InTurn => RunnersTakeTurns
  <2> SUFFICES ASSUME AllReady, InTurn PROVE RunnersTakeTurns
    OBVIOUS
  <2>1. \A t \in tasks : Setup[t.env].tags \subseteq TagsOf[t.runner]
    BY DEF AllReady, Ready
  <2>2. \A g \in Tags : \A r \in Elems(Runners) : turns[g].taken[r] <= 1
    BY DEF InTurn, Turned
  <2> QED BY <2>1, <2>2 DEF RunnersTakeTurns
<1>2. Spec => []InTurn
  BY InitTurn, TurnStep, ReadyAlways, TypedAlways, PTL DEF Spec
<1> QED BY <1>1, <1>2, ReadyAlways, PTL
===============================================================================
