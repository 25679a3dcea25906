-------------------------- MODULE Variables_proofs --------------------------
(***************************************************************************)
(* Theorems of Variables: its types; that a call which no other overlaps   *)
(* does to the variables of its scope what it was asked; and that a        *)
(* deployment takes the value of each name from the nearest scope, for any *)
(* names, groups, sessions and calls.  And of TplExchange, which moves     *)
(* templates with their variables and groups: that its tables are sound,   *)
(* that templates have their services, and that an import lands what the   *)
(* file carries, keeps the rest and fails only for cause, for any file,    *)
(* databases, organizations and edits.                                     *)
(***************************************************************************)
EXTENDS Variables, TplExchange, FiniteSetTheorems, TLAPS

USE VariablesAssumption

-----------------------------------------------------------------------------
(* Types.                                                                   *)

LEMMA ScopesFacts ==
  /\ GroupScopes[1] = "org" /\ GroupScopes[2] = "project"
  /\ GroupScopes[3] = "template" /\ GroupScopes[4] = "env"
  /\ DOMAIN GroupScopes = 1..4 /\ Len(GroupScopes) = 4
  /\ \A i \in 1..4 : GroupScopes[i] \in Scopes
  BY DEF GroupScopes, Scopes

(* A partial function has its domain and its values where they should be.   *)
LEMMA PartialFacts ==
  ASSUME NEW S, NEW T, NEW f
  PROVE  f \in Partial(S, T) <=> /\ f = [x \in DOMAIN f |-> f[x]]
                                 /\ DOMAIN f \subseteq S
                                 /\ \A x \in DOMAIN f : f[x] \in T
  BY DEF Partial

(* What a session has read has the shape of the call it makes.              *)
Shaped(m) == m \in [scope : {m.scope}, call : {m.call}, form : {m.form},
                     seen : {m.seen}, alone : {m.alone}]

VarRow(count) == [id : 0..count, value : 0..count]

Held(place, m, count) ==
    /\ Shaped(m) /\ m.scope \in Scopes /\ m.call \in 0..count /\ m.alone \in BOOLEAN
    /\ place \in {"update", "batch"} =>
         /\ m.form[1] \in Forms /\ m.seen \in Partial(Names, VarRow(count))
         /\ m.form[2] \subseteq DOMAIN m.seen \ DOMAIN m.form[1]
         /\ place = "update" => m.form[2] = DOMAIN m.seen \ DOMAIN m.form[1]
    /\ place \in {"bind", "form"} => m.form[1] \subseteq Groups /\ m.form[2] \subseteq Groups
    /\ place = "group" =>
         /\ m.form[1] \in Groups /\ m.form[2] \in Forms /\ m.form[3] \in BOOLEAN
         /\ m.seen \in Partial(Names, 0..count)

Typed ==
    /\ TypeOK
    /\ mem = [s \in Sessions |-> mem[s]]
    /\ \A s \in Sessions : Held(at[s], mem[s], calls)
    /\ settled = [c \in Scopes |-> settled[c]]

(* What has its type keeps it as calls are counted.                         *)
LEMMA Counting ==
  ASSUME NEW count \in Nat
  PROVE  /\ \A f : f \in Partial(Names, VarRow(count)) => f \in Partial(Names, VarRow(count + 1))
         /\ \A f : f \in Partial(Names, 0..count) => f \in Partial(Names, 0..(count + 1))
         /\ \A place, m : Held(place, m, count) => Held(place, m, count + 1)
<1>1. 0..count \subseteq 0..(count + 1) /\ VarRow(count) \subseteq VarRow(count + 1)
  BY DEF VarRow
<1>2. \A f : f \in Partial(Names, VarRow(count)) => f \in Partial(Names, VarRow(count + 1))
  BY <1>1, PartialFacts
<1>3. ASSUME NEW f, f \in Partial(Names, 0..count) PROVE f \in Partial(Names, 0..(count + 1))
  <2> DEFINE old == 0..count
             new == 0..(count + 1)
  <2>1. f \in Partial(Names, old) /\ old \subseteq new
    BY <1>1, <1>3
  <2> HIDE DEF old, new
  <2>2. f \in Partial(Names, new)
    BY <2>1, PartialFacts
  <2> QED BY <2>2 DEF new
<1>4. \A place, m : Held(place, m, count) => Held(place, m, count + 1)
  BY <1>1, <1>2, <1>3 DEF Held
<1> QED BY <1>2, <1>3, <1>4

(* A call begins with what it has read.                                     *)
LEMMA BeginType ==
  ASSUME Typed, NEW s \in Sessions, NEW call \in {"update", "batch", "bind", "form", "group"},
         NEW m, Held(call, m, calls), Begin(s, call, m)
  PROVE  Typed'
<1> DEFINE alone == \A r \in Sessions : at[r] = "idle"
           new == [m EXCEPT !.call = calls + 1, !.alone = alone]
<1>1. /\ calls' = calls + 1 /\ at' = [at EXCEPT ![s] = call] /\ mem' = [mem EXCEPT ![s] = new]
      /\ UNCHANGED <<setup, rows, groups, live, bound, granted, settled>>
  BY DEF Begin, dbVars
<1>2. calls \in Nat /\ calls + 1 \in Nat /\ calls + 1 \in 0..(calls + 1)
  BY DEF Typed, TypeOK
<1>3. alone \in BOOLEAN
  OBVIOUS
<1> HIDE DEF alone
<1>4. Held(call, m, calls + 1)
  BY <1>2, Counting
<1>5. Held(call, new, calls + 1)
  <2>1. Shaped(m)
    BY DEF Held
  <2>2. /\ new.scope = m.scope /\ new.call = calls + 1 /\ new.form = m.form /\ new.seen = m.seen
        /\ new.alone = alone /\ Shaped(new)
    BY <2>1 DEF Shaped
  <2> HIDE DEF new
  <2> QED BY <1>2, <1>3, <1>4, <2>2 DEF Held
<1> HIDE DEF new
<1>6. ASSUME NEW r \in Sessions PROVE Held(at'[r], mem'[r], calls')
  <2>1. CASE r = s
    BY <1>1, <1>5, <2>1 DEF Typed, TypeOK
  <2>2. CASE r # s
    <3>1. at'[r] = at[r] /\ mem'[r] = mem[r]
      BY <1>1, <2>2 DEF Typed, TypeOK
    <3>2. Held(at[r], mem[r], calls + 1)
      BY <1>2, Counting DEF Typed
    <3> QED BY <1>1, <3>1, <3>2
  <2> QED BY <2>1, <2>2
<1>7. TypeOK'
  <2>1. rows \in [Scopes -> Partial(Names, VarRow(calls))]
    BY DEF Typed, TypeOK, VarRow
  <2>2. rows \in [Scopes -> Partial(Names, VarRow(calls + 1))]
    BY <1>2, <2>1, Counting
  <2>3. groups \in [Groups -> Partial(Names, 0..(calls + 1))]
    BY <1>2, Counting DEF Typed, TypeOK
  <2>4. rows' \in [Scopes -> Partial(Names, [id : 0..calls', value : 0..calls'])]
    BY <1>1, <2>2 DEF VarRow
  <2> QED BY <1>1, <1>2, <2>3, <2>4 DEF Typed, TypeOK
<1> QED BY <1>1, <1>6, <1>7 DEF Typed

(* A call ends, and nobody is alone.                                        *)
LEMMA EndsType ==
  ASSUME Typed, NEW s \in Sessions, Ends(s)
  PROVE  /\ calls' = calls /\ setup' = setup
         /\ at' \in [Sessions -> {"idle", "update", "batch", "bind", "form", "group"}]
         /\ mem' = [r \in Sessions |-> mem'[r]]
         /\ \A r \in Sessions : Held(at'[r], mem'[r], calls')
         /\ \A r \in Sessions : at'[r] # "idle" => ~mem'[r].alone
<1>1. /\ at' = [at EXCEPT ![s] = "idle"] /\ calls' = calls /\ setup' = setup
      /\ mem' = [r \in Sessions |-> IF r = s THEN NoMem ELSE [mem[r] EXCEPT !.alone = FALSE]]
  BY DEF Ends
<1>2. ASSUME NEW r \in Sessions
      PROVE  Held(at'[r], mem'[r], calls') /\ (at'[r] # "idle" => ~mem'[r].alone)
  <2>1. CASE r = s
    <3>1. at'[r] = "idle" /\ mem'[r] = NoMem
      BY <1>1, <2>1 DEF Typed, TypeOK
    <3>2. Held("idle", NoMem, calls)
      BY DEF Held, Shaped, NoMem, Scopes, Typed, TypeOK
    <3> QED BY <1>1, <3>1, <3>2
  <2>2. CASE r # s
    <3> DEFINE new == [mem[r] EXCEPT !.alone = FALSE]
    <3>1. at'[r] = at[r] /\ mem'[r] = new
      BY <1>1, <2>2 DEF Typed, TypeOK
    <3>2. Held(at[r], mem[r], calls)
      BY DEF Typed
    <3>3. Shaped(mem[r])
      BY <3>2 DEF Held
    <3>4. /\ new.scope = mem[r].scope /\ new.call = mem[r].call /\ new.form = mem[r].form
          /\ new.seen = mem[r].seen /\ new.alone = FALSE /\ Shaped(new)
      BY <3>3 DEF Shaped
    <3> HIDE DEF new
    <3>5. Held(at[r], new, calls)
      BY <3>2, <3>4 DEF Held
    <3> QED BY <1>1, <3>1, <3>4, <3>5
  <2> QED BY <2>1, <2>2
<1> QED BY <1>1, <1>2 DEF Typed, TypeOK

LEMMA FailsType ==
  ASSUME Typed, NEW s \in Sessions, Ends(s),
         rows' \in [Scopes -> Partial(Names, VarRow(calls))],
         bound' \in [Scopes -> [Groups -> Nat]],
         groups' \in [Groups -> Partial(Names, 0..calls)],
         live' \subseteq Groups, granted' \subseteq Groups,
         settled' = [c \in Scopes |-> settled'[c]]
  PROVE  Typed'
<1>1. rows' \in [Scopes -> Partial(Names, [id : 0..calls', value : 0..calls'])]
  BY EndsType DEF VarRow
<1> QED BY <1>1, EndsType DEF Typed, TypeOK

LEMMA InitType == Init => Typed
<1> SUFFICES ASSUME Init PROVE Typed
  OBVIOUS
<1>1. setup \in Setups /\ setup.groups \in [Groups -> SUBSET Names] /\ setup.plain \subseteq Names
  BY DEF Init
<1>2. PICK plain \in [Scopes -> SUBSET setup.plain] :
        rows = [s \in Scopes |-> [n \in plain[s] |-> Row(0)]]
  BY DEF Init
<1>3. PICK to \in [Scopes -> SUBSET setup.bound] :
        bound = [s \in Scopes |-> [g \in Groups |-> IF g \in to[s] THEN 1 ELSE 0]]
  BY DEF Init
<1>4. Row(0) \in [id : 0..0, value : 0..0]
  BY DEF Row
<1>5. rows \in [Scopes -> Partial(Names, [id : 0..0, value : 0..0])]
  <2>1. ASSUME NEW c \in Scopes PROVE rows[c] \in Partial(Names, [id : 0..0, value : 0..0])
    <3> DEFINE R == [id : 0..0, value : 0..0]
    <3>1. rows[c] = [n \in plain[c] |-> Row(0)] /\ Row(0) \in R /\ plain[c] \subseteq Names
      BY <1>1, <1>2, <1>4
    <3> HIDE DEF R
    <3>2. rows[c] \in Partial(Names, R)
      BY <3>1, PartialFacts
    <3> QED BY <3>2 DEF R
  <2> QED BY <1>2, <2>1
<1>6. groups \in [Groups -> Partial(Names, 0..0)]
  <2>1. groups = [g \in Groups |-> [n \in setup.groups[g] |-> 0]]
    BY DEF Init
  <2>2. ASSUME NEW g \in Groups PROVE groups[g] \in Partial(Names, 0..0)
    <3> DEFINE zero == 0..0
    <3>1. groups[g] = [n \in setup.groups[g] |-> 0] /\ 0 \in zero /\ setup.groups[g] \subseteq Names
      BY <1>1, <2>1
    <3> HIDE DEF zero
    <3>2. groups[g] \in Partial(Names, zero)
      BY <3>1, PartialFacts
    <3> QED BY <3>2 DEF zero
  <2> QED BY <2>1, <2>2
<1>7. calls = 0 /\ live = Groups /\ granted = Groups
  BY DEF Init
<1>8. bound \in [Scopes -> [Groups -> Nat]]
  BY <1>3
<1>9. at = [s \in Sessions |-> "idle"] /\ mem = [s \in Sessions |-> NoMem]
  BY DEF Init
<1>10. Held("idle", NoMem, 0)
  BY DEF Held, Shaped, NoMem, Scopes
<1>11. settled = [c \in Scopes |-> settled[c]]
  BY DEF Init
<1>12. TypeOK
  BY <1>1, <1>5, <1>6, <1>7, <1>8, <1>9 DEF TypeOK
<1> QED BY <1>7, <1>9, <1>10, <1>11, <1>12 DEF Typed

(* Each action keeps the types.                                             *)
LEMMA SubmitType ==
  ASSUME Typed, NEW s \in Sessions, NEW call, SubmitVars(s, call)
  PROVE  Typed'
<1>1. PICK form \in Forms :
        \E drop \in (IF call = "batch" THEN SUBSET (DOMAIN rows["env"] \ DOMAIN form)
                    ELSE {DOMAIN rows["env"] \ DOMAIN form}) :
          Begin(s, call, [NoMem EXCEPT !.scope = "env", !.form = <<form, drop>>,
                                       !.seen = rows["env"]])
  BY DEF SubmitVars
<1>2. PICK drop \in (IF call = "batch" THEN SUBSET (DOMAIN rows["env"] \ DOMAIN form)
                    ELSE {DOMAIN rows["env"] \ DOMAIN form}) :
        Begin(s, call, [NoMem EXCEPT !.scope = "env", !.form = <<form, drop>>,
                                     !.seen = rows["env"]])
  BY <1>1
<1>3. /\ drop \subseteq DOMAIN rows["env"] \ DOMAIN form
      /\ call = "update" => drop = DOMAIN rows["env"] \ DOMAIN form
  OBVIOUS
<1> DEFINE m == [NoMem EXCEPT !.scope = "env", !.form = <<form, drop>>, !.seen = rows["env"]]
<1>4. call \in {"update", "batch"}
  BY DEF SubmitVars
<1>5. /\ m.scope = "env" /\ m.call = 0 /\ m.form = <<form, drop>> /\ m.seen = rows["env"]
      /\ m.alone = TRUE /\ Shaped(m)
  BY DEF NoMem, Shaped
<1>6. Begin(s, call, m)
  BY <1>2
<1> HIDE DEF m
<1>7. m.form[1] = form /\ m.form[2] = drop
  BY <1>5
<1>8. rows["env"] \in Partial(Names, VarRow(calls)) /\ calls \in Nat
  BY DEF Typed, TypeOK, VarRow, Scopes
<1>9. m.alone \in BOOLEAN
  BY <1>5, Zenon
<1>10. m.scope \in Scopes /\ m.call \in 0..calls /\ Shaped(m)
  BY <1>5, <1>8 DEF Scopes
<1>11. m.form[1] \in Forms /\ m.seen \in Partial(Names, VarRow(calls))
  BY <1>1, <1>5, <1>7, <1>8
<1>12. Held(call, m, calls)
  BY <1>3, <1>4, <1>5, <1>7, <1>9, <1>10, <1>11 DEF Held
<1> QED BY <1>4, <1>6, <1>12, BeginType

LEMMA BindType ==
  ASSUME Typed, NEW s \in Sessions, NEW call, Bind(s, call)
  PROVE  Typed'
<1>1. PICK scope \in Scopes, add \in SUBSET live, del \in SUBSET Groups :
        Begin(s, call, [NoMem EXCEPT !.scope = scope, !.form = <<add, del>>])
  BY DEF Bind, Scopes
<1> DEFINE m == [NoMem EXCEPT !.scope = scope, !.form = <<add, del>>]
<1>2. call \in {"bind", "form"}
  BY DEF Bind
<1>3. /\ m.scope = scope /\ m.call = 0 /\ m.form = <<add, del>>
      /\ m.alone = TRUE /\ Shaped(m)
  BY DEF NoMem, Shaped
<1>4. Begin(s, call, m)
  BY <1>1
<1> HIDE DEF m
<1>5. m.form[1] = add /\ m.form[2] = del
  BY <1>3
<1>6. calls \in Nat /\ live \subseteq Groups
  BY DEF Typed, TypeOK
<1>7. m.alone \in BOOLEAN
  BY <1>3, Zenon
<1>8. m.scope \in Scopes /\ m.call \in 0..calls /\ Shaped(m)
  BY <1>1, <1>3, <1>6
<1>9. m.form[1] \subseteq Groups /\ m.form[2] \subseteq Groups
  BY <1>1, <1>5, <1>6
<1>10. Held(call, m, calls)
  BY <1>2, <1>7, <1>8, <1>9 DEF Held
<1> QED BY <1>2, <1>4, <1>10, BeginType

LEMMA EditType ==
  ASSUME Typed, NEW s \in Sessions, EditGroup(s)
  PROVE  Typed'
<1>1. PICK g \in live, form \in Forms, grant \in BOOLEAN :
        Begin(s, "group", [NoMem EXCEPT !.form = <<g, form, grant>>, !.seen = groups[g]])
  BY DEF EditGroup
<1> DEFINE m == [NoMem EXCEPT !.form = <<g, form, grant>>, !.seen = groups[g]]
<1>2. /\ m.scope = "org" /\ m.call = 0 /\ m.form = <<g, form, grant>> /\ m.seen = groups[g]
      /\ m.alone = TRUE /\ Shaped(m)
  BY DEF NoMem, Shaped
<1>3. Begin(s, "group", m)
  BY <1>1
<1> HIDE DEF m
<1>4. m.form[1] = g /\ m.form[2] = form /\ m.form[3] = grant
  BY <1>2
<1>5. calls \in Nat /\ g \in Groups /\ groups[g] \in Partial(Names, 0..calls)
  BY DEF Typed, TypeOK
<1>6. m.alone \in BOOLEAN /\ m.form[3] \in BOOLEAN
  BY <1>1, <1>2, <1>4, Zenon
<1>7. m.scope \in Scopes /\ m.call \in 0..calls /\ Shaped(m)
  BY <1>2, <1>5 DEF Scopes
<1>8. m.form[1] \in Groups /\ m.form[2] \in Forms /\ m.seen \in Partial(Names, 0..calls)
  BY <1>1, <1>2, <1>4, <1>5
<1>9. Held("group", m, calls)
  BY <1>6, <1>7, <1>8 DEF Held
<1> QED BY <1>3, <1>9, BeginType

(* What a call writes to a variable.                                        *)
LEMMA RowsWritten ==
  ASSUME Typed, NEW s \in Sessions, WriteVars(s), ~Fails(s)
  PROVE  LET m == mem[s]
             stored == rows[m.scope]
             listed == DOMAIN m.form[1]
             new == listed \ DOMAIN m.seen
             others == {n \in DOMAIN stored : Stays(s, n)}
         IN  /\ new \intersect others = {}
             /\ rows' = [rows EXCEPT ![m.scope] =
                   [n \in others \union new |->
                      IF n \in new THEN Inserted(s, n)
                      ELSE IF n \in listed THEN Updated(s, n) ELSE stored[n]]]
             /\ settled' = [settled EXCEPT ![m.scope] = IF m.alone THEN <<Asked(s)>> ELSE <<>>]
             /\ UNCHANGED <<groups, live, bound, granted>>
  BY DEF WriteVars

LEMMA WriteVarsType ==
  ASSUME Typed, NEW s \in Sessions, WriteVars(s)
  PROVE  Typed'
<1>1. Ends(s)
  BY DEF WriteVars, Fails
<1>2. CASE UNCHANGED <<rows, groups, live, bound, granted, settled>>
  BY <1>1, <1>2, FailsType DEF Typed, TypeOK, VarRow
<1>3. CASE ~Fails(s)
  <2> DEFINE m == mem[s]
             stored == rows[m.scope]
             listed == DOMAIN m.form[1]
             new == listed \ DOMAIN m.seen
             others == {n \in DOMAIN stored : Stays(s, n)}
             row == [n \in others \union new |->
                       IF n \in new THEN Inserted(s, n)
                       ELSE IF n \in listed THEN Updated(s, n) ELSE stored[n]]
  <2>1. /\ at[s] \in {"update", "batch"} /\ Held(at[s], m, calls) /\ calls \in Nat
    BY DEF WriteVars, Typed, TypeOK
  <2>2. m.scope \in Scopes /\ m.call \in 0..calls /\ m.form[1] \in Forms
    BY <2>1 DEF Held
  <2>3. stored \in Partial(Names, VarRow(calls))
    BY <2>2 DEF Typed, TypeOK, VarRow
  <2>4. DOMAIN stored \subseteq Names /\ \A n \in DOMAIN stored : stored[n] \in VarRow(calls)
    BY <2>3, PartialFacts
  <2>5. listed \subseteq Names
    BY <2>2, PartialFacts DEF Forms
  <2>6. \A n : Inserted(s, n) \in VarRow(calls)
    BY <2>1, <2>2 DEF Inserted, VarRow
  <2>7. \A n \in DOMAIN stored : Updated(s, n) \in VarRow(calls)
    BY <2>2, <2>4 DEF Updated, VarRow
  <2>8. row \in Partial(Names, VarRow(calls))
    <3>1. DOMAIN row = others \union new /\ row = [n \in DOMAIN row |-> row[n]]
      OBVIOUS
    <3>2. \A n \in DOMAIN row : row[n] \in VarRow(calls)
      BY <2>4, <2>6, <2>7
    <3>3. DOMAIN row \subseteq Names
      BY <2>4, <2>5
    <3> HIDE DEF row
    <3> QED BY <3>1, <3>2, <3>3, PartialFacts
  <2>9. /\ rows' = [rows EXCEPT ![m.scope] = row] /\ UNCHANGED <<groups, live, bound, granted>>
        /\ settled' = [settled EXCEPT ![m.scope] = IF m.alone THEN <<Asked(s)>> ELSE <<>>]
    BY <1>3, RowsWritten
  <2>10. rows \in [Scopes -> Partial(Names, VarRow(calls))]
    BY DEF Typed, TypeOK, VarRow
  <2> HIDE DEF row
  <2>11. rows' \in [Scopes -> Partial(Names, VarRow(calls))]
    BY <2>2, <2>8, <2>9, <2>10
  <2>12. settled' = [c \in Scopes |-> settled'[c]]
    BY <2>9 DEF Typed
  <2> QED BY <1>1, <2>9, <2>11, <2>12, FailsType DEF Typed, TypeOK
<1> QED BY <1>2, <1>3 DEF Fails, dbVars

LEMMA RestType ==
  ASSUME Typed, NEW s \in Sessions, WriteBind(s) \/ WriteGroup(s) \/ DropGroup(s)
  PROVE  Typed'
<1> DEFINE m == mem[s]
<1>1. Held(at[s], m, calls) /\ calls \in Nat
  BY DEF Typed, TypeOK
<1>2. rows \in [Scopes -> Partial(Names, VarRow(calls))]
  BY DEF Typed, TypeOK, VarRow
<1>3. CASE WriteBind(s)
  <2>1. bound' = [bound EXCEPT ![m.scope] =
          [g \in Groups |-> (IF g \in m.form[2] THEN 0 ELSE @[g])
                            + (IF g \in m.form[1] THEN 1 ELSE 0)]]
    BY <1>3 DEF WriteBind
  <2> DEFINE old == bound[m.scope]
             new == [g \in Groups |-> (IF g \in m.form[2] THEN 0 ELSE old[g])
                                      + (IF g \in m.form[1] THEN 1 ELSE 0)]
  <2>2. bound' \in [Scopes -> [Groups -> Nat]]
    <3>1. bound' = [bound EXCEPT ![m.scope] = new]
      BY <2>1
    <3>2. m.scope \in Scopes /\ bound \in [Scopes -> [Groups -> Nat]]
      BY <1>1 DEF Held, Typed, TypeOK
    <3>3. new \in [Groups -> Nat]
      BY <3>2
    <3> HIDE DEF new
    <3> QED BY <3>1, <3>2, <3>3
  <2>3. Ends(s) /\ UNCHANGED <<rows, groups, live, granted, settled>>
    BY <1>3 DEF WriteBind
  <2> QED BY <1>2, <2>2, <2>3, FailsType DEF Typed, TypeOK
<1>4. CASE WriteGroup(s)
  <2> DEFINE g == m.form[1]
             form == m.form[2]
             value(n) == IF form[n] = "set" THEN m.call
                         ELSE IF n \in DOMAIN m.seen THEN m.seen[n] ELSE 0
             row == [n \in DOMAIN form |-> value(n)]
             stamps == 0..calls
  <2>1. /\ g \in Groups /\ form \in Forms /\ m.call \in stamps
        /\ m.seen \in Partial(Names, stamps)
    BY <1>1, <1>4 DEF Held, WriteGroup
  <2>2. 0 \in stamps
    BY <1>1
  <2>3. /\ groups' = IF g \notin live THEN groups ELSE [groups EXCEPT ![g] = row]
        /\ granted' \subseteq granted \union {g}
        /\ Ends(s) /\ UNCHANGED <<rows, live, bound, settled>>
    BY <1>4 DEF WriteGroup
  <2>4. groups \in [Groups -> Partial(Names, stamps)]
    BY DEF Typed, TypeOK
  <2> HIDE DEF stamps
  <2>5. DOMAIN form \subseteq Names /\ \A n \in DOMAIN m.seen : m.seen[n] \in stamps
    BY <2>1, PartialFacts DEF Forms
  <2>6. \A n \in DOMAIN form : value(n) \in stamps
    BY <2>1, <2>2, <2>5
  <2> HIDE DEF value
  <2>7. row \in Partial(Names, stamps)
    BY <2>5, <2>6, PartialFacts
  <2> HIDE DEF row, g
  <2>8. groups' \in [Groups -> Partial(Names, stamps)]
    BY <2>3, <2>4, <2>7
  <2> QED BY <1>2, <2>1, <2>3, <2>8, FailsType DEF Typed, TypeOK, stamps
<1>5. CASE DropGroup(s)
  <2>1. PICK g \in live :
          /\ live' = live \ {g}
          /\ bound' = [scope \in Scopes |-> [bound[scope] EXCEPT ![g] = 0]]
          /\ granted' = granted \ {g}
    BY <1>5 DEF DropGroup
  <2>2. /\ calls' = calls + 1 /\ UNCHANGED <<setup, rows, groups, at, settled>>
        /\ mem' = [r \in Sessions |-> [mem[r] EXCEPT !.alone = FALSE]]
    BY <1>5 DEF DropGroup
  <2>3. bound' \in [Scopes -> [Groups -> Nat]]
    BY <2>1 DEF Typed, TypeOK
  <2>4. ASSUME NEW r \in Sessions PROVE Held(at'[r], mem'[r], calls')
    <3> DEFINE new == [mem[r] EXCEPT !.alone = FALSE]
    <3>1. mem'[r] = new
      BY <2>2
    <3>2. Held(at[r], mem[r], calls + 1)
      BY <1>1, Counting DEF Typed
    <3>3. Shaped(mem[r])
      BY <3>2 DEF Held
    <3>4. /\ new.scope = mem[r].scope /\ new.call = mem[r].call /\ new.form = mem[r].form
          /\ new.seen = mem[r].seen /\ new.alone = FALSE /\ Shaped(new)
      BY <3>3 DEF Shaped
    <3> HIDE DEF new
    <3>5. Held(at[r], new, calls + 1)
      BY <3>2, <3>4 DEF Held
    <3> QED BY <2>2, <3>1, <3>5
  <2>5. /\ rows \in [Scopes -> Partial(Names, VarRow(calls + 1))]
        /\ groups \in [Groups -> Partial(Names, 0..(calls + 1))]
    BY <1>1, <1>2, Counting DEF Typed, TypeOK
  <2>6. rows' \in [Scopes -> Partial(Names, [id : 0..calls', value : 0..calls'])]
    BY <2>2, <2>5 DEF VarRow
  <2>7. TypeOK'
    <3>1. groups' \in [Groups -> Partial(Names, 0..calls')] /\ calls' \in Nat
      BY <1>1, <2>2, <2>5
    <3>2. setup' \in Setups /\ live' \subseteq Groups /\ granted' \subseteq Groups
      BY <2>1, <2>2 DEF Typed, TypeOK
    <3>3. at' \in [Sessions -> {"idle", "update", "batch", "bind", "form", "group"}]
      BY <2>2 DEF Typed, TypeOK
    <3> QED BY <2>3, <2>6, <3>1, <3>2, <3>3 DEF TypeOK
  <2> QED BY <2>2, <2>4, <2>7 DEF Typed
<1> QED BY <1>3, <1>4, <1>5

LEMMA TypedStep == Typed /\ [Next]_vars => Typed'
<1> SUFFICES ASSUME Typed, [Next]_vars PROVE Typed'
  OBVIOUS
<1>1. CASE UNCHANGED vars
  BY <1>1 DEF vars, dbVars, Typed, TypeOK
<1>2. CASE Next
  BY <1>2, SubmitType, BindType, WriteVarsType, EditType, RestType DEF Next
<1> QED BY <1>1, <1>2

LEMMA TypedAlways == Spec => []Typed
  BY InitType, TypedStep, PTL DEF Spec

(* Every table has its type, whatever names, groups and calls there are.    *)
THEOREM TypeCorrect == Spec => []TypeOK
<1>1. Typed => TypeOK
  BY DEF Typed
<1> QED BY <1>1, TypedAlways, PTL

-----------------------------------------------------------------------------
(* A call alone is whole.                                                   *)

(* While a session is alone, what it has read is what is stored.            *)
Current ==
    \A s \in Sessions : at[s] \in {"update", "batch"} /\ mem[s].alone
        => mem[s].seen = rows[mem[s].scope]

Whole == UpdateIsWhole /\ Current

LEMMA BeginWhole ==
  ASSUME Typed, Whole, NEW s \in Sessions, NEW call, NEW m, Begin(s, call, m), Shaped(m),
         call \in {"update", "batch"} => m.seen = rows[m.scope]
  PROVE  Whole'
<1> DEFINE new == [m EXCEPT !.call = calls + 1, !.alone = \A r \in Sessions : at[r] = "idle"]
<1>1. /\ at' = [at EXCEPT ![s] = call] /\ mem' = [mem EXCEPT ![s] = new]
      /\ UNCHANGED <<rows, settled>>
  BY DEF Begin, dbVars
<1>2. new.seen = m.seen /\ new.scope = m.scope
  BY DEF Shaped
<1> HIDE DEF new
<1>3. ASSUME NEW r \in Sessions, at'[r] \in {"update", "batch"}, mem'[r].alone
      PROVE  mem'[r].seen = rows[mem'[r].scope]
  <2>1. CASE r = s
    BY <1>1, <1>2, <1>3, <2>1 DEF Typed, TypeOK
  <2>2. CASE r # s
    <3>1. at'[r] = at[r] /\ mem'[r] = mem[r]
      BY <1>1, <2>2 DEF Typed, TypeOK
    <3> QED BY <1>3, <3>1 DEF Whole, Current
  <2> QED BY <2>1, <2>2
<1>4. UpdateIsWhole'
  BY <1>1 DEF Whole, UpdateIsWhole
<1> QED BY <1>1, <1>3, <1>4 DEF Whole, Current

LEMMA EndsWhole ==
  ASSUME Typed, Whole, NEW s \in Sessions, Ends(s)
  PROVE  Current'
  BY EndsType DEF Current

(* Written alone, the rows are those asked for.                             *)
LEMMA WriteWhole ==
  ASSUME Typed, Whole, NEW s \in Sessions, WriteVars(s), ~Fails(s), mem[s].alone
  PROVE  [n \in DOMAIN rows'[mem[s].scope] |-> rows'[mem[s].scope][n].value] = Asked(s)
<1> DEFINE m == mem[s]
           stored == rows[m.scope]
           listed == DOMAIN m.form[1]
           new == listed \ DOMAIN m.seen
           others == {n \in DOMAIN stored : Stays(s, n)}
           Put(n) == IF n \in new THEN Inserted(s, n)
                     ELSE IF n \in listed THEN Updated(s, n) ELSE stored[n]
           row == [n \in others \union new |-> Put(n)]
<1>1. rows' = [rows EXCEPT ![m.scope] = row]
  BY RowsWritten
<1>2. /\ at[s] \in {"update", "batch"} /\ m.seen = stored /\ m.scope \in Scopes
      /\ m.form[2] \subseteq DOMAIN stored \ listed /\ m.form[1] \in Forms
      /\ stored \in Partial(Names, VarRow(calls)) /\ m.call \in 0..calls
  BY DEF WriteVars, Whole, Current, Typed, Held
<1>3. others = DOMAIN stored \ m.form[2]
  BY <1>2 DEF Stays
<1>4. DOMAIN row = listed \union (DOMAIN stored \ m.form[2])
  BY <1>2, <1>3
<1>5. ASSUME NEW n \in DOMAIN row PROVE Put(n).value = Asked(s)[n]
  <2>1. \A i \in DOMAIN stored : stored[i] \in VarRow(calls)
    BY <1>2, PartialFacts
  <2>2. Asked(s)[n] = IF n \in listed /\ m.form[1][n] = "set" THEN m.call
                      ELSE IF n \in DOMAIN stored THEN stored[n].value ELSE 0
    BY <1>2, <1>4, <1>5 DEF Asked
  <2>3. CASE n \in new
    BY <1>2, <2>2, <2>3 DEF Inserted
  <2>4. CASE n \in listed /\ n \in DOMAIN stored
    <3>1. stored[n] \in VarRow(calls)
      BY <2>1, <2>4
    <3>2. Updated(s, n).value = IF m.form[1][n] = "set" THEN m.call ELSE stored[n].value
      BY <1>2, <3>1 DEF Updated, VarRow
    <3> QED BY <1>2, <2>2, <2>4, <3>2
  <2>5. CASE n \notin listed
    <3>1. n \in DOMAIN stored
      BY <1>4, <1>5, <2>5
    <3> QED BY <2>2, <2>5, <3>1
  <2> QED BY <1>2, <2>3, <2>4, <2>5
<1>6. Asked(s) = [n \in listed \union (DOMAIN stored \ m.form[2]) |-> Asked(s)[n]]
  BY <1>2 DEF Asked
<1>7. rows'[m.scope] = row
  BY <1>1, <1>2 DEF Typed, TypeOK
<1>8. [n \in DOMAIN row |-> row[n].value] = [n \in DOMAIN row |-> Asked(s)[n]]
  <2>1. \A n \in DOMAIN row : row[n] = Put(n)
    OBVIOUS
  <2> HIDE DEF row, Put
  <2> QED BY <1>5, <2>1
<1> HIDE DEF row
<1> QED BY <1>4, <1>6, <1>7, <1>8

LEMMA WholeStep == Typed /\ Whole /\ [Next]_vars => Whole'
<1> SUFFICES ASSUME Typed, Whole, [Next]_vars PROVE Whole'
  OBVIOUS
<1>1. ASSUME NEW s \in Sessions, NEW call \in setup.calls, SubmitVars(s, call) PROVE Whole'
  <2>1. PICK form, drop :
          Begin(s, call, [NoMem EXCEPT !.scope = "env", !.form = <<form, drop>>,
                                       !.seen = rows["env"]])
    BY <1>1 DEF SubmitVars
  <2> DEFINE m == [NoMem EXCEPT !.scope = "env", !.form = <<form, drop>>, !.seen = rows["env"]]
  <2>2. m.scope = "env" /\ m.seen = rows["env"] /\ Shaped(m)
    BY DEF NoMem, Shaped
  <2>3. Begin(s, call, m)
    BY <2>1
  <2> HIDE DEF m
  <2> QED BY <2>2, <2>3, BeginWhole
<1>2. ASSUME NEW s \in Sessions, NEW call \in setup.calls, Bind(s, call) PROVE Whole'
  <2>1. PICK scope, add, del :
          Begin(s, call, [NoMem EXCEPT !.scope = scope, !.form = <<add, del>>])
    BY <1>2 DEF Bind
  <2> DEFINE m == [NoMem EXCEPT !.scope = scope, !.form = <<add, del>>]
  <2>2. Shaped(m) /\ call \in {"bind", "form"}
    BY <1>2 DEF NoMem, Shaped, Bind
  <2>3. Begin(s, call, m)
    BY <2>1
  <2> HIDE DEF m
  <2> QED BY <2>2, <2>3, BeginWhole
<1>3. ASSUME NEW s \in Sessions, EditGroup(s) PROVE Whole'
  <2>1. PICK g, form, grant :
          Begin(s, "group", [NoMem EXCEPT !.form = <<g, form, grant>>, !.seen = groups[g]])
    BY <1>3 DEF EditGroup
  <2> DEFINE m == [NoMem EXCEPT !.form = <<g, form, grant>>, !.seen = groups[g]]
  <2>2. Shaped(m)
    BY DEF NoMem, Shaped
  <2>3. Begin(s, "group", m)
    BY <2>1
  <2> HIDE DEF m
  <2> QED BY <2>2, <2>3, BeginWhole
<1>4. ASSUME NEW s \in Sessions, WriteVars(s) PROVE Whole'
  <2>1. Ends(s)
    BY <1>4 DEF WriteVars, Fails
  <2>2. CASE Fails(s)
    BY <2>1, <2>2, EndsWhole DEF Fails, dbVars, Whole, UpdateIsWhole
  <2>3. CASE ~Fails(s)
    <3> DEFINE c == mem[s].scope
    <3>1. settled' = [settled EXCEPT ![c] = IF mem[s].alone THEN <<Asked(s)>> ELSE <<>>]
      BY <1>4, <2>3, RowsWritten
    <3>2. \A d \in Scopes \ {c} : rows'[d] = rows[d] /\ settled'[d] = settled[d]
      BY <1>4, <2>3, <3>1, RowsWritten, ZenonT(60) DEF Typed, TypeOK
    <3>3. c \in Scopes => settled'[c] = IF mem[s].alone THEN <<Asked(s)>> ELSE <<>>
      BY <3>1 DEF Typed
    <3>4. ASSUME NEW d \in Scopes, settled'[d] # <<>>
          PROVE  [n \in DOMAIN rows'[d] |-> rows'[d][n].value] = settled'[d][1]
      <4>1. CASE d = c
        <5>1. mem[s].alone
          BY <3>3, <3>4, <4>1
        <5>2. settled'[d][1] = Asked(s)
          BY <3>3, <4>1, <5>1
        <5> QED BY <1>4, <2>3, <4>1, <5>1, <5>2, WriteWhole
      <4>2. CASE d # c
        BY <3>2, <3>4, <4>2 DEF Whole, UpdateIsWhole
      <4> QED BY <4>1, <4>2
    <3> QED BY <2>1, <3>4, EndsWhole DEF Whole, UpdateIsWhole
  <2> QED BY <2>2, <2>3
<1>5. ASSUME NEW s \in Sessions, WriteBind(s) \/ WriteGroup(s) PROVE Whole'
  <2>1. Ends(s) /\ UNCHANGED <<rows, settled>>
    BY <1>5 DEF WriteBind, WriteGroup
  <2> QED BY <2>1, EndsWhole DEF Whole, UpdateIsWhole
<1>6. ASSUME NEW s \in Sessions, DropGroup(s) PROVE Whole'
  <2>1. /\ UNCHANGED <<rows, settled, at>>
        /\ mem' = [r \in Sessions |-> [mem[r] EXCEPT !.alone = FALSE]]
    BY <1>6 DEF DropGroup
  <2>2. ASSUME NEW r \in Sessions PROVE ~mem'[r].alone
    <3>1. Shaped(mem[r])
      BY DEF Typed, Held
    <3> QED BY <2>1, <3>1 DEF Shaped
  <2> QED BY <2>1, <2>2 DEF Whole, UpdateIsWhole, Current
<1>7. CASE UNCHANGED vars
  BY <1>7 DEF vars, dbVars, Whole, UpdateIsWhole, Current
<1> QED BY <1>1, <1>2, <1>3, <1>4, <1>5, <1>6, <1>7 DEF Next

(* A call that no other overlaps leaves the variables of its scope as it    *)
(* was asked to, though it deletes, updates and inserts one by one.         *)
THEOREM UpdateCorrect == Spec => []UpdateIsWhole
<1>1. Init => Whole
  BY DEF Init, Whole, UpdateIsWhole, Current
<1>2. Whole => UpdateIsWhole
  BY DEF Whole
<1> QED BY <1>1, <1>2, WholeStep, TypedAlways, PTL DEF Spec

-----------------------------------------------------------------------------
(* The nearest scope wins.                                                  *)

(* Where a group is left by the loop over groups when the scopes up to the  *)
(* kth, in the order of the loop, are all there are.                        *)
HoldsUpTo(g, i, k) ==
    /\ g \in BoundTo(GroupScopes[i])
    /\ \A j \in i + 1..k : \A h \in BoundTo(GroupScopes[j]) : ~Match(g, h)

(* After the kth scope, the groups with a variable that are left are those  *)
(* that hold, each with the scope where it does.                            *)
FoundUpTo(found, k) ==
    /\ DOMAIN found \subseteq Groups
    /\ \A g \in Groups : DOMAIN groups[g] # {} =>
         /\ g \in DOMAIN found <=> \E i \in 1..k : HoldsUpTo(g, i, k)
         /\ \A i \in 1..k : HoldsUpTo(g, i, k) => found[g] = GroupScopes[i]

LEMMA LastOfIn ==
  ASSUME NEW S \in SUBSET Scopes, S # {}
  PROVE  LastOf(PlainScopes, S) \in S
<1> DEFINE Highest(i) == /\ PlainScopes[i] \in S
                      /\ \A j \in DOMAIN PlainScopes : j > i => PlainScopes[j] \notin S
<1>1. /\ DOMAIN PlainScopes = 1..4
      /\ PlainScopes[1] = "org" /\ PlainScopes[2] = "template"
      /\ PlainScopes[3] = "project" /\ PlainScopes[4] = "env"
  BY DEF PlainScopes
<1>2. \E i \in DOMAIN PlainScopes : Highest(i)
  <2>1. CASE "env" \in S
    <3>1. Highest(4)
      BY <1>1, <2>1
    <3> QED BY <1>1, <3>1
  <2>2. CASE "env" \notin S /\ "project" \in S
    <3>1. Highest(3)
      BY <1>1, <2>2
    <3> QED BY <1>1, <3>1
  <2>3. CASE "env" \notin S /\ "project" \notin S /\ "template" \in S
    <3>1. Highest(2)
      BY <1>1, <2>3
    <3> QED BY <1>1, <3>1
  <2>4. CASE "env" \notin S /\ "project" \notin S /\ "template" \notin S
    <3>1. "org" \in S
      BY <2>4 DEF Scopes
    <3>2. Highest(1)
      BY <1>1, <2>4, <3>1
    <3> QED BY <1>1, <3>2
  <2> QED BY <2>1, <2>2, <2>3, <2>4
<1> DEFINE i == CHOOSE i \in DOMAIN PlainScopes : Highest(i)
<1>3. Highest(i)
  BY <1>2
<1>4. LastOf(PlainScopes, S) = PlainScopes[i]
  BY DEF LastOf
<1> QED BY <1>3, <1>4

(* The groups of the organization that are met first.                       *)
LEMMA FirstFound ==
  ASSUME Typed, NoSameLevelConflict
  PROVE  /\ FirstLevels = {[g \in BoundTo("org") |-> "org"]}
         /\ FoundUpTo([g \in BoundTo("org") |-> "org"], 1)
<1> DEFINE Replaced == {g \in BoundTo("org") : \E h \in Twice \ {g} : Match(g, h)}
<1>1. Twice \subseteq BoundTo("org")
  BY DEF Twice, BoundTo, Typed, TypeOK, Scopes
<1>2. Replaced = {}
  BY <1>1 DEF NoSameLevelConflict, Scopes
<1>3. BoundTo("org") \ {} = BoundTo("org")
  OBVIOUS
<1>4. FirstLevels = {[g \in BoundTo("org") \ gone |-> "org"] : gone \in SUBSET Replaced}
  BY DEF FirstLevels
<1>5. FirstLevels = {[g \in BoundTo("org") |-> "org"]}
  <2> HIDE DEF Replaced
  <2>1. SUBSET Replaced = {{}}
    BY <1>2
  <2> QED BY <1>3, <1>4, <2>1
<1>6. BoundTo("org") \subseteq Groups
  BY DEF BoundTo, Typed, TypeOK
<1>7. FoundUpTo([g \in BoundTo("org") |-> "org"], 1)
  BY <1>6, ScopesFacts DEF FoundUpTo, HoldsUpTo
<1> QED BY <1>5, <1>7

(* The groups of one more scope.                                            *)
LEMMA AddFound ==
  ASSUME Typed, NEW found, NEW k \in 1..3, FoundUpTo(found, k)
  PROVE  FoundUpTo(AddLevel(found, GroupScopes[k + 1]), k + 1)
<1> DEFINE scope == GroupScopes[k + 1]
           here == BoundTo(scope)
           Apart(g) == \A h \in here : ~Match(g, h)
           joined == AddLevel(found, scope)
<1>1. here \subseteq Groups /\ DOMAIN found \subseteq Groups
  BY DEF BoundTo, Typed, TypeOK, FoundUpTo
<1>2. /\ DOMAIN joined = {g \in DOMAIN found : Apart(g)} \union here
      /\ \A g \in DOMAIN joined : joined[g] = IF g \in here THEN scope ELSE found[g]
  BY DEF AddLevel
<1> HIDE DEF joined
<1>3. ASSUME NEW g
      PROVE  /\ \A i \in 1..k : HoldsUpTo(g, i, k + 1) <=> HoldsUpTo(g, i, k) /\ Apart(g)
             /\ HoldsUpTo(g, k + 1, k + 1) <=> g \in here
  BY DEF HoldsUpTo
<1>4. ASSUME NEW g \in Groups, DOMAIN groups[g] # {}
      PROVE  /\ g \in DOMAIN joined <=> \E i \in 1..k + 1 : HoldsUpTo(g, i, k + 1)
             /\ \A i \in 1..k + 1 : HoldsUpTo(g, i, k + 1) => joined[g] = GroupScopes[i]
  <2>1. g \in here => ~Apart(g)
    BY <1>4 DEF Match
  <2>2. /\ g \in DOMAIN found <=> \E i \in 1..k : HoldsUpTo(g, i, k)
        /\ \A i \in 1..k : HoldsUpTo(g, i, k) => found[g] = GroupScopes[i]
    BY <1>4 DEF FoundUpTo
  <2>3. \A i : i \in 1..k + 1 <=> i \in 1..k \/ i = k + 1
    OBVIOUS
  <2> HIDE DEF Apart, here, scope
  <2>4. g \in DOMAIN joined <=> (g \in DOMAIN found /\ Apart(g)) \/ g \in here
    BY <1>2
  <2>5. g \in DOMAIN joined <=> \E i \in 1..k + 1 : HoldsUpTo(g, i, k + 1)
    BY <1>3, <2>2, <2>3, <2>4
  <2>6. ASSUME NEW i \in 1..k + 1, HoldsUpTo(g, i, k + 1) PROVE joined[g] = GroupScopes[i]
    <3>1. g \in DOMAIN joined
      BY <2>5, <2>6
    <3>2. CASE i = k + 1
      <4>1. g \in here
        BY <1>3, <2>6, <3>2
      <4> QED BY <1>2, <3>1, <3>2, <4>1 DEF scope
    <3>3. CASE i \in 1..k
      <4>1. HoldsUpTo(g, i, k) /\ g \notin here
        BY <1>3, <2>1, <2>6, <3>3
      <4> QED BY <1>2, <2>2, <3>1, <3>3, <4>1
    <3> QED BY <2>3, <3>2, <3>3
  <2> QED BY <2>5, <2>6
<1>5. DOMAIN joined \subseteq Groups
  BY <1>1, <1>2
<1> QED BY <1>4, <1>5 DEF FoundUpTo, joined

(* Without a conflict the groups found are those that hold.                 *)
LEMMA FoundIsHeld ==
  ASSUME Typed, NoSameLevelConflict
  PROVE  \E found : GroupsFound = {found} /\ FoundUpTo(found, 4)
<1> DEFINE first == [g \in BoundTo("org") |-> "org"]
           second == AddLevel(first, GroupScopes[2])
           third == AddLevel(second, GroupScopes[3])
           final == AddLevel(third, GroupScopes[4])
<1>1. FirstLevels = {first} /\ FoundUpTo(first, 1)
  BY FirstFound
<1>2. GroupsFound = {final}
  BY <1>1 DEF GroupsFound
<1>3. FoundUpTo(second, 2)
  <2> HIDE DEF first
  <2>1. FoundUpTo(AddLevel(first, GroupScopes[1 + 1]), 1 + 1)
    BY <1>1, AddFound
  <2> QED BY <2>1
<1>4. FoundUpTo(third, 3)
  <2> HIDE DEF second
  <2>1. FoundUpTo(AddLevel(second, GroupScopes[2 + 1]), 2 + 1)
    BY <1>3, AddFound
  <2> QED BY <2>1
<1>5. FoundUpTo(final, 4)
  <2> HIDE DEF third
  <2>1. FoundUpTo(AddLevel(third, GroupScopes[3 + 1]), 3 + 1)
    BY <1>4, AddFound
  <2> QED BY <2>1
<1> QED BY <1>2, <1>5

(* Of two scopes one is nearer.                                             *)
LEMMA OneIsNearer ==
  /\ Nearer("org") = {"template", "project", "env"} /\ Nearer("template") = {"project", "env"}
  /\ Nearer("project") = {"env"} /\ Nearer("env") = {}
<1>1. /\ DOMAIN PlainScopes = 1..4
      /\ PlainScopes[1] = "org" /\ PlainScopes[2] = "template"
      /\ PlainScopes[3] = "project" /\ PlainScopes[4] = "env"
  BY DEF PlainScopes
<1> DEFINE After(scope) == {j \in DOMAIN PlainScopes :
                              \E i \in DOMAIN PlainScopes : i < j /\ PlainScopes[i] = scope}
<1>2. /\ After("org") = {2, 3, 4} /\ After("template") = {3, 4}
      /\ After("project") = {4} /\ After("env") = {}
  BY <1>1
<1>3. \A scope : Nearer(scope) = {PlainScopes[j] : j \in After(scope)}
  BY DEF Nearer
<1> HIDE DEF After
<1> QED BY <1>1, <1>2, <1>3

(* Where the orders agree, the groups left by the loop are those that hold. *)
LEMMA LeftIsHeld ==
  ASSUME OrdersAgree, NEW g, NEW i \in 1..4
  PROVE  HoldsUpTo(g, i, 4) <=> Holds(g, GroupScopes[i])
<1>1. \A h, k : Match(h, k) <=> Match(k, h)
  BY DEF Match
<1>2. CASE i = 1
  BY <1>2, ScopesFacts, OneIsNearer DEF HoldsUpTo, Holds
<1>3. CASE i = 2
  BY <1>3, ScopesFacts, OneIsNearer DEF HoldsUpTo, Holds, OrdersAgree
<1>4. CASE i = 3
  BY <1>1, <1>4, ScopesFacts, OneIsNearer DEF HoldsUpTo, Holds, OrdersAgree
<1>5. CASE i = 4
  BY <1>5, ScopesFacts, OneIsNearer DEF HoldsUpTo, Holds
<1> QED BY <1>2, <1>3, <1>4, <1>5

(* Two groups that hold have no name in common.                             *)
LEMMA HoldOnce ==
  ASSUME Typed, NoSameLevelConflict, NEW g, NEW h, NEW s \in Scopes, NEW t \in Scopes,
         Holds(g, s), Holds(h, t), NEW n \in DOMAIN groups[g] \intersect DOMAIN groups[h]
  PROVE  g = h /\ s = t
<1>1. Match(g, h) /\ Match(h, g)
  BY DEF Match
<1>2. s = t \/ s \in Nearer(t) \/ t \in Nearer(s)
  BY OneIsNearer DEF Scopes
<1>3. s = t
  BY <1>1, <1>2 DEF Holds
<1>4. \A a, b \in BoundTo(s) : a # b => ~Match(a, b)
  BY DEF NoSameLevelConflict
<1> QED BY <1>1, <1>3, <1>4 DEF Holds

(* Each name has the value of the nearest scope that gives it one.          *)
LEMMA NearestValue ==
  ASSUME Typed, NoSameLevelConflict, OrdersAgree,
         NEW found, FoundUpTo(found, 4), NEW n \in Names
  PROVE  Sources(found, n) = Nearest(n)
<1> DEFINE plain == {s \in Scopes : n \in DOMAIN rows[s]}
           here == {x \in Groups \X Scopes : n \in DOMAIN groups[x[1]] /\ Holds(x[1], x[2])}
           level == LastOf(PlainScopes, plain \union {x[2] : x \in here})
           those == {y \in here : y[2] = level}
           having == {g \in DOMAIN found : n \in DOMAIN groups[g]}
           Near(g) == LastOf(PlainScopes, plain \union {found[g]})
           Merged(g) == IF Near(g) \in plain THEN Source("plain", Near(g), NoGroup)
                        ELSE Source("group", Near(g), g)
<1>1. Sources(found, n) =
        IF having # {} THEN {Merged(g) : g \in having}
        ELSE IF plain # {} THEN {Source("plain", LastOf(PlainScopes, plain), NoGroup)} ELSE {}
  BY DEF Sources
<1>2. plain \subseteq Scopes
  OBVIOUS
<1>3. Nearest(n) = IF plain = {} /\ here = {} THEN {}
                   ELSE IF level \in plain THEN {Source("plain", level, NoGroup)}
                   ELSE {Source("group", level, x[1]) : x \in those}
  BY DEF Nearest
<1>4. ASSUME NEW g \in Groups, n \in DOMAIN groups[g]
      PROVE  /\ g \in having <=> \E s \in Scopes : Holds(g, s)
             /\ \A s \in Scopes : Holds(g, s) => found[g] = s
  <2>1. /\ g \in having <=> \E i \in 1..4 : HoldsUpTo(g, i, 4)
        /\ \A i \in 1..4 : HoldsUpTo(g, i, 4) => found[g] = GroupScopes[i]
    BY <1>4 DEF FoundUpTo
  <2>2. \A i \in 1..4 : HoldsUpTo(g, i, 4) <=> Holds(g, GroupScopes[i])
    BY LeftIsHeld
  <2>3. \A s \in Scopes : \E i \in 1..4 : s = GroupScopes[i]
    BY ScopesFacts DEF Scopes
  <2> QED BY <2>1, <2>2, <2>3, ScopesFacts
<1>5. CASE having = {}
  <2>1. here = {}
    BY <1>4, <1>5
  <2>2. plain \union {x[2] : x \in here} = plain
    BY <2>1
  <2>3. level = LastOf(PlainScopes, plain)
    BY <2>2
  <2>4. plain # {} => level \in plain
    BY <1>2, <2>3, LastOfIn
  <2> HIDE DEF plain, here, level, having, those
  <2> QED BY <1>1, <1>3, <1>5, <2>1, <2>3, <2>4
<1>6. CASE having # {}
  <2>1. PICK g : g \in having
    BY <1>6
  <2>2. g \in Groups /\ n \in DOMAIN groups[g]
    BY <2>1 DEF FoundUpTo
  <2>3. PICK s \in Scopes : Holds(g, s)
    BY <1>4, <2>1, <2>2
  <2>4. found[g] = s
    BY <1>4, <2>2, <2>3
  <2>5. having = {g}
    <3>1. ASSUME NEW h \in having PROVE h = g
      <4>1. h \in Groups /\ n \in DOMAIN groups[h]
        BY <3>1 DEF FoundUpTo
      <4>2. PICK t \in Scopes : Holds(h, t)
        BY <1>4, <3>1, <4>1
      <4> QED BY <2>2, <2>3, <4>1, <4>2, HoldOnce
    <3> QED BY <2>1, <3>1
  <2>6. here = {<<g, s>>}
    <3>1. <<g, s>> \in here
      BY <2>2, <2>3
    <3>2. ASSUME NEW x \in here PROVE x = <<g, s>>
      <4>1. /\ x = <<x[1], x[2]>> /\ x[2] \in Scopes /\ n \in DOMAIN groups[x[1]]
            /\ Holds(x[1], x[2])
        BY <3>2
      <4>2. x[1] = g /\ x[2] = s
        <5> DEFINE h == x[1]
                   t == x[2]
        <5>1. n \in DOMAIN groups[h] \intersect DOMAIN groups[g] /\ Holds(h, t) /\ t \in Scopes
          BY <2>2, <4>1
        <5> HIDE DEF h, t
        <5>2. h = g /\ t = s
          BY <2>3, <5>1, HoldOnce
        <5> QED BY <5>2 DEF h, t
      <4> QED BY <4>1, <4>2
    <3> QED BY <3>1, <3>2
  <2>7. plain \union {x[2] : x \in here} = plain \union {found[g]}
    <3>1. <<g, s>>[2] = s
      OBVIOUS
    <3> HIDE DEF here
    <3>2. {x[2] : x \in here} = {s}
      BY <2>6, <3>1
    <3> QED BY <2>4, <3>2
  <2>8. level = Near(g)
    BY <2>7
  <2>9. level \in plain \union {found[g]}
    <3>1. plain \union {found[g]} \in SUBSET Scopes
      BY <1>2, <2>4
    <3> QED BY <2>8, <3>1, LastOfIn
  <2>10. Sources(found, n) = {Merged(g)}
    BY <1>1, <2>5
  <2>11. here # {}
    BY <2>6
  <2>12. CASE level \in plain
    <3> HIDE DEF plain, here, level, those, Near
    <3> QED BY <1>3, <2>8, <2>10, <2>11, <2>12
  <2>13. CASE level \notin plain
    <3>1. s = level
      BY <2>4, <2>9, <2>13
    <3>2. those = {<<g, s>>}
      <4>1. <<g, s>>[2] = s
        OBVIOUS
      <4> HIDE DEF here, level
      <4> QED BY <2>6, <3>1, <4>1
    <3>3. {Source("group", level, x[1]) : x \in those}
            = {Source("group", level, g)}
      <4>1. those = {<<g, s>>} /\ <<g, s>>[1] = g
        BY <3>2
      <4> HIDE DEF those, level
      <4>2. {Source("group", level, x[1]) : x \in those} = {Source("group", level, g)}
        BY <4>1
      <4> QED BY <4>2 DEF those
    <3>4. Sources(found, n) = {Source("group", level, g)}
      BY <2>8, <2>10, <2>13
    <3> HIDE DEF plain, here, level, those
    <3> QED BY <1>3, <2>11, <2>13, <3>3, <3>4
  <2> QED BY <2>12, <2>13
<1> QED BY <1>5, <1>6

(* Without a conflict in one scope a deployment has, for each name, the     *)
(* value of the nearest scope that sets it or where a group with it holds.  *)
THEOREM NearestCorrect == Spec => []NearestWins
<1>1. ASSUME Typed PROVE NearestWins
  <2> SUFFICES ASSUME OrdersAgree, NoSameLevelConflict
               PROVE  \A n \in Names : Outcomes[n] = Nearest(n)
    BY DEF NearestWins, OneOrder
  <2>1. PICK found : GroupsFound = {found} /\ FoundUpTo(found, 4)
    BY <1>1, FoundIsHeld
  <2>2. ASSUME NEW n \in Names PROVE Outcomes[n] = Sources(found, n)
    BY <2>1 DEF Outcomes
  <2> QED BY <1>1, <2>1, <2>2, NearestValue
<1>2. Typed => NearestWins
  BY <1>1
<1> QED BY <1>2, TypedAlways, PTL

-----------------------------------------------------------------------------
(* Export and import of templates.                                          *)

(* SetToSeq lists a finite set, each element once.                          *)
LEMMA Listing ==
  ASSUME NEW S, IsFiniteSet(S)
  PROVE  /\ SetToSeq(S) \in Seq(S)
         /\ \A j, k \in DOMAIN SetToSeq(S) : SetToSeq(S)[j] = SetToSeq(S)[k] => j = k
         /\ \A x \in S : \E k \in DOMAIN SetToSeq(S) : SetToSeq(S)[k] = x
<1> DEFINE n == Cardinality(S)
           s == SetToSeq(S)
<1>1. n \in Nat /\ \E f \in [1..n -> S] : IsInjective(f)
  BY FS_CardinalityType DEF ExistsBijection, Bijection, Injection
<1>2. s \in [1..n -> S] /\ IsInjective(s)
  <2> HIDE DEF n
  <2>1. s = CHOOSE f \in [1..n -> S] : IsInjective(f)
    BY DEF SetToSeq, n
  <2> QED BY <1>1, <2>1
<1>3. s \in Surjection(1..n, S)
  <2>1. s \in Injection(1..n, S)
    BY <1>2 DEF Injection
  <2>2. IsFiniteSet(1..n) /\ Cardinality(1..n) = n
    <3> HIDE DEF n
    <3> QED BY <1>1, FS_Interval
  <2> HIDE DEF s
  <2> QED BY <2>1, <2>2, FS_Injection
<1>4. s \in Seq(S) /\ DOMAIN s = 1..n
  <2> HIDE DEF s, n
  <2> QED BY <1>1, <1>2
<1> HIDE DEF s
<1>5. \A j, k \in DOMAIN s : s[j] = s[k] => j = k
  BY <1>2 DEF IsInjective
<1>6. \A x \in S : \E k \in DOMAIN s : s[k] = x
  BY <1>3, <1>4 DEF Surjection
<1> QED BY <1>4, <1>5, <1>6 DEF s

Joins(S, a, b, f) ==
    /\ f \in Seq(S) /\ Len(f) = Len(a) + Len(b)
    /\ \A k \in 1..Len(a) : f[k] = a[k]
    /\ \A k \in 1..Len(b) : f[Len(a) + k] = b[k]
(* A list of two.                                                           *)
LEMMA Joining == \A S : \A a, b \in Seq(S) : Joins(S, a, b, a \o b)
<1> SUFFICES ASSUME NEW S, NEW a \in Seq(S), NEW b \in Seq(S) PROVE Joins(S, a, b, a \o b)
  OBVIOUS
<1> QED BY DEF Joins

(* A list made of three.                                                    *)
LEMMA Three ==
  ASSUME NEW S, NEW a \in Seq(S), NEW b \in Seq(S), NEW c \in Seq(S)
  PROVE  \E ab : Joins(S, a, b, ab) /\ Joins(S, ab, c, a \o b \o c)
<1> DEFINE ab == a \o b
<1>1. Joins(S, a, b, ab) /\ ab \in Seq(S)
  BY Joining DEF Joins
<1>2. Joins(S, ab, c, ab \o c)
  <2> HIDE DEF ab
  <2> QED BY <1>1, Joining, Zenon
<1> QED BY <1>1, <1>2

Triple(S, a, b, c, f) ==
    /\ f \in Seq(S) /\ Len(f) = Len(a) + Len(b) + Len(c)
    /\ \A k \in 1..Len(a) : f[k] = a[k]
    /\ \A k \in 1..Len(b) : f[Len(a) + k] = b[k]
    /\ \A k \in 1..Len(c) : f[Len(a) + Len(b) + k] = c[k]
(* A list of three.                                                         *)
LEMMA ThreeFacts ==
  ASSUME NEW S, NEW a \in Seq(S), NEW b \in Seq(S), NEW c \in Seq(S),
         NEW f, f = a \o b \o c
  PROVE  Triple(S, a, b, c, f)
<1>1. PICK ab : Joins(S, a, b, ab) /\ Joins(S, ab, c, f)
  BY Three
<1>2. Len(a) \in Nat /\ Len(b) \in Nat /\ Len(c) \in Nat
  OBVIOUS
<1>3. \A k \in 1..Len(a) : f[k] = a[k]
  BY <1>1, <1>2 DEF Joins
<1>4. \A k \in 1..Len(b) : f[Len(a) + k] = b[k]
  <2> SUFFICES ASSUME NEW k \in 1..Len(b) PROVE f[Len(a) + k] = b[k]
    OBVIOUS
  <2>1. Len(a) + k \in 1..Len(ab)
    BY <1>1, <1>2 DEF Joins
  <2> QED BY <2>1, <1>1 DEF Joins
<1> QED BY <1>1, <1>3, <1>4 DEF Joins, Triple

(* Functions given by name.                                                 *)
IsWith(g, f, x, v) ==
    /\ g = [y \in DOMAIN g |-> g[y]] /\ DOMAIN g = DOMAIN f \union {x} /\ g[x] = v
    /\ \A y \in DOMAIN f : y # x => g[y] = f[y]
LEMMA WithFacts == \A f, x, v : IsWith(With(f, x, v), f, x, v)
<1> SUFFICES ASSUME NEW f, NEW x, NEW v PROVE IsWith(With(f, x, v), f, x, v)
  OBVIOUS
<1> QED BY DEF With, IsWith

LEMMA AtFacts ==
  ASSUME NEW f, NEW x, NEW none
  PROVE  /\ x \in DOMAIN f => At(f, x, none) = f[x]
         /\ x \notin DOMAIN f => At(f, x, none) = none
  BY DEF At

(* Beyond the marks of finitely many names there is another.                *)
LEMMA FreshMark ==
  ASSUME NEW marks, IsFiniteSet(marks)
  PROVE  \E m \in 1..Cardinality(marks) + 1 : m \notin marks
<1> DEFINE n == Cardinality(marks)
<1>1. n \in Nat
  BY FS_CardinalityType
<1> HIDE DEF n
<1>2. IsFiniteSet(1..n + 1) /\ Cardinality(1..n + 1) = n + 1
  BY <1>1, FS_Interval
<1>3. ASSUME \A m \in 1..n + 1 : m \in marks PROVE FALSE
  <2>1. 1..n + 1 \in SUBSET marks
    BY <1>3
  <2>2. Cardinality(1..n + 1) <= Cardinality(marks)
    BY <2>1, FS_Subset
  <2> QED BY <1>1, <1>2, <2>2 DEF n
<1> QED BY <1>3 DEF n

(* The values of a function on a finite set are finitely many.              *)
LEMMA ImageFinite ==
  ASSUME NEW f, IsFiniteSet(DOMAIN f) 
  PROVE  IsFiniteSet({f[x] : x \in DOMAIN f})
<1> DEFINE T == {f[x] : x \in DOMAIN f}
           g == [x \in DOMAIN f |-> f[x]]
<1>1. g \in Surjection(DOMAIN f, T)
  BY DEF Surjection
<1> QED BY <1>1, FS_Surjection

-----------------------------------------------------------------------------
(* What the file says.                                                      *)

ItemOK(item, n) ==
    /\ item.id \in Ids /\ item.id.n < n
    /\ item.row.name = [base |-> item.row.name.base, mark |-> item.row.name.mark]
    /\ item.row.name.mark \in Nat
    /\ item.id.kind # "group" => item.row.type = ""
    /\ item.id.kind = "tpl" =>
          item.row.vcs \in Ids /\ item.row.vcs.kind = "vcs" /\ item.row.vcs.n < n

FileIds == {file[k].id : k \in DOMAIN file}

(* Templates are last, what is listed twice is listed alike, and a template *)
(* comes with its groups and its service, unless that was about to be       *)
(* deleted.                                                                 *)
FileOK ==
    /\ Len(file) \in Nat /\ DOMAIN file = 1..Len(file)
    /\ \A k \in DOMAIN file : ItemOK(file[k], next)
    /\ \A j, k \in DOMAIN file :
         /\ j < k /\ file[j].id.kind = "tpl" => file[k].id.kind = "tpl"
         /\ file[j].id = file[k].id => file[j] = file[k]
    /\ \A k \in DOMAIN file : file[k].id.kind = "tpl" =>
         /\ \A g \in file[k].links : g.kind = "group" /\ g \in FileIds
         /\ file[k].row.vcs \in FileIds \union raced

-----------------------------------------------------------------------------
(* What the transaction of an import has done after k rows of the file, to  *)
(* the database b.                                                          *)

Sofar(k) == {file[j].id : j \in 1..k}
FileMarks == {file[k].row.name.mark : k \in DOMAIN file}
Fresh(i, n) == i \in Ids /\ next <= i.n /\ i.n < n

Shape(s) ==
    s = [rows |-> s.rows, links |-> s.links, variables |-> s.variables, offered |-> s.offered,
         next |-> s.next, map |-> s.map, fate |-> s.fate, error |-> s.error]

(* A row it has written.                                                    *)
Written(i, s, k, org) ==
    LET r == s.rows[i] IN
    /\ RowOK(i, r, s.next) /\ r.org = org /\ r.alive
    /\ \E j \in 1..k : /\ file[j].id.kind = i.kind /\ r.type = file[j].row.type
                       /\ (r.name = file[j].row.name \/ r.name.mark \notin FileMarks)
    /\ i.kind = "tpl" => /\ r.vcs \in DOMAIN s.rows \union raced
                         /\ (r.vcs \in FileIds \union raced \/ next <= r.vcs.n)

Origin(i, s, k, b, org, policy) ==
    \/ i \in DOMAIN b.rows /\ s.rows[i] = b.rows[i]
    \/ /\ Written(i, s, k, org)
       /\ IF i \in DOMAIN b.rows THEN policy = "update" /\ i \in Sofar(k)
          ELSE i \in Sofar(k) \/ Fresh(i, s.next)

RowsOK(s, k, b, org, policy) ==
    /\ s.rows = [i \in DOMAIN s.rows |-> s.rows[i]] /\ IsFiniteSet(DOMAIN s.rows)
    /\ DOMAIN b.rows \subseteq DOMAIN s.rows
    /\ \A i \in DOMAIN s.rows : Origin(i, s, k, b, org, policy)

(* Only what is copied is found elsewhere than it was.                      *)
MapOK(s, k, policy) ==
    /\ s.map = [i \in DOMAIN s.map |-> s.map[i]]
    /\ \A i \in DOMAIN s.map :
          /\ policy = "copy" /\ i \in Sofar(k) /\ i \in DOMAIN s.rows
          /\ Fresh(s.map[i], s.next) /\ s.map[i].kind = i.kind
    /\ \A i, j \in DOMAIN s.map : s.map[i] = s.map[j] => i = j

FateOK(s, k, b, org, policy) ==
    /\ s.fate = [i \in DOMAIN s.fate |-> s.fate[i]]
    /\ \A i \in Sofar(k) :
         /\ i \in DOMAIN s.fate /\ Mapped(s, i) \in DOMAIN s.rows
         /\ policy # "update" /\ s.fate[i] # "skipped" => Mapped(s, i) \notin DOMAIN b.rows
         /\ policy # "skip" => s.fate[i] # "skipped"
         /\ policy = "update" /\ i \in DOMAIN b.rows => b.rows[i].org = org

(* What Landed says of an item.                                             *)
LandedRow(s, item, b, org, policy) ==
    LET id == Mapped(s, item.id)
        r == s.rows[id]
    IN  s.fate[item.id] # "skipped"
        /\ ~(policy = "update" /\ id \in DOMAIN b.rows /\ ~b.rows[id].alive) =>
          /\ r.alive /\ r.org = org /\ r.body = item.row.body
          /\ item.id.kind = "tpl" => r.vcs = Mapped(s, item.row.vcs)

LandedRefs(s, item) ==
    LET id == Mapped(s, item.id) IN
    item.id.kind = "tpl" /\ s.fate[item.id] # "skipped" =>
        /\ id \in DOMAIN s.links /\ s.links[id] = {Mapped(s, g) : g \in item.links}
        /\ id \in DOMAIN s.variables
        /\ \A v \in DOMAIN item.variables : s.variables[id][v] = item.variables[v]
        /\ id \in s.offered

(* What it leaves of f, a function of templates.                            *)
KeptRefs(f, g, k, policy) ==
    \A t \in DOMAIN f : /\ t \in DOMAIN g
                        /\ (g[t] = f[t] \/ (policy = "update" /\ t \in Sofar(k)))

FoldOK(s, k, b, org, policy) ==
    /\ Shape(s) /\ s.error = "none" /\ s.next \in Nat /\ next <= s.next
    /\ RowsOK(s, k, b, org, policy) /\ MapOK(s, k, policy) /\ FateOK(s, k, b, org, policy)
    /\ \A j \in 1..k : LandedRow(s, file[j], b, org, policy) /\ LandedRefs(s, file[j])
    /\ RefsOK(s.rows, s.links, s.variables)
    /\ KeptRefs(b.links, s.links, k, policy) /\ KeptRefs(b.variables, s.variables, k, policy)

(* What ImportFailsForCause says.                                           *)
SeenIn(b) ==
    {[id |-> i, row |-> b.rows[i]] : i \in DOMAIN b.rows}
    \union {[id |-> item.id, row |-> item.row] : item \in Items}
NameMet(b) ==
    \E item \in Items, met \in SeenIn(b) :
        /\ item.id.kind = "group" /\ met.id.kind = "group"
        /\ met.row.name = item.row.name /\ met.row.type # item.row.type
FailOK(s, b, org, policy) ==
    /\ Shape(s) /\ s.next \in Nat /\ next <= s.next
    /\ s.error \in {"duplicate", "org", "name"}
    /\ s.error = "duplicate" =>
          policy = "abort" /\ (FileIds \intersect DOMAIN b.rows # {} \/ ListedTwice)
    /\ s.error = "org" =>
          policy = "update" /\ \E i \in FileIds \intersect DOMAIN b.rows : b.rows[i].org # org
    /\ s.error = "name" => NameMet(b)

RunOK(s, k, b, org, policy) == FoldOK(s, k, b, org, policy) \/ FailOK(s, b, org, policy)

-----------------------------------------------------------------------------
(* What a row of the file may come to.                                      *)

Stores(s, after, item, id, row, fate) ==
    /\ Shape(after) /\ after.error = "none"
    /\ after.rows = With(s.rows, id, row) /\ after.fate = With(s.fate, item.id, fate)
    /\ after.map = IF id = item.id THEN s.map ELSE With(s.map, item.id, id)
    /\ after.links = s.links /\ after.variables = s.variables /\ after.offered = s.offered

Leaves(s, after, item, fate) ==
    /\ Shape(after) /\ after.error = "none"
    /\ after.rows = s.rows /\ after.fate = With(s.fate, item.id, fate) /\ after.map = s.map
    /\ after.links = s.links /\ after.variables = s.variables /\ after.offered = s.offered

Created(s, after, item, row) ==
    /\ item.id \notin DOMAIN s.rows /\ after.next = s.next
    /\ Stores(s, after, item, item.id, row, "created")
Rewritten(s, after, item, row, org, policy) ==
    /\ item.id \in DOMAIN s.rows /\ policy = "update" /\ s.rows[item.id].org = org
    /\ s.rows[item.id].alive /\ after.next = s.next
    /\ Stores(s, after, item, item.id, row, "updated")
Copied(s, after, item, row, policy) ==
    /\ item.id \in DOMAIN s.rows /\ policy = "copy" /\ after.next = s.next + 1
    /\ Stores(s, after, item, Id(item.id.kind, s.next), row, "copied")
Passed(s, after, item, org, policy) ==
    /\ item.id \in DOMAIN s.rows /\ after.next = s.next
    /\ \/ policy = "update" /\ s.rows[item.id].org = org /\ ~s.rows[item.id].alive
          /\ Leaves(s, after, item, "updated")
       \/ policy = "skip" /\ Leaves(s, after, item, "skipped")
Refused(s, after, item, row, org, policy) ==
    /\ Shape(after)
    /\ \/ /\ after.error = "name" /\ after.next \in {s.next, s.next + 1}
          /\ \E id : /\ policy # "copy" => id = item.id
                     /\ Bearers(s.rows, item.id.kind, row.org, row.name) \ {id} # {}
       \/ /\ item.id \in DOMAIN s.rows /\ after.next = s.next
          /\ \/ after.error = "org" /\ policy = "update" /\ s.rows[item.id].org # org
             \/ after.error = "duplicate" /\ policy = "abort"

StoreEnds(s, after, item, id, row, fate) ==
    /\ after.next = s.next
    /\ \/ Stores(s, after, item, id, row, fate)
       \/ /\ Shape(after) /\ after.error = "name"
          /\ Bearers(s.rows, id.kind, row.org, row.name) \ {id} # {}

(* Store writes the row, or finds its name taken.                           *)
LEMMA StoreFacts ==
  ASSUME NEW s, Shape(s), s.error = "none"
  PROVE  \A item, id, row, fate :
            StoreEnds(s, Store(s, id, row, fate, item.id), item, id, row, fate)
<1> SUFFICES ASSUME NEW item, NEW id, NEW row, NEW fate, NEW after,
                    after = Store(s, id, row, fate, item.id)
             PROVE  StoreEnds(s, after, item, id, row, fate)
  OBVIOUS
<1> USE DEF StoreEnds
<1>1. CASE Bearers(s.rows, id.kind, row.org, row.name) \ {id} # {}
  <2>1. after = [s EXCEPT !.error = "name"]
    BY <1>1 DEF Store
  <2>2. Shape(after) /\ after.error = "name" /\ after.next = s.next
    BY <2>1 DEF Shape
  <2> QED BY <1>1, <2>2
<1>2. CASE Bearers(s.rows, id.kind, row.org, row.name) \ {id} = {}
  <2>1. after = [s EXCEPT !.rows = With(@, id, row), !.fate = With(@, item.id, fate),
                          !.map = IF id = item.id THEN @ ELSE With(@, item.id, id)]
    BY <1>2 DEF Store
  <2>2. Stores(s, after, item, id, row, fate) /\ after.next = s.next
    BY <2>1 DEF Shape, Stores
  <2> QED BY <2>2
<1> QED BY <1>1, <1>2

(* A row of the file is created, updated, copied, passed over or refused.   *)
LEMMA ImportRowCases ==
  ASSUME NEW s, NEW item, NEW org, NEW policy \in Policies, Shape(s), s.error = "none",
         NEW row, row = Imported(s, item, org, NewName(s.rows, item, org, policy)),
         NEW after, after = ImportRow(s, item, org, policy)
  PROVE  \/ Created(s, after, item, row) \/ Rewritten(s, after, item, row, org, policy)
         \/ Copied(s, after, item, row, policy) \/ Passed(s, after, item, org, policy)
         \/ Refused(s, after, item, row, org, policy)
<1> DEFINE one == Store(s, item.id, row, "created", item.id)
           two == Store(s, item.id, row, "updated", item.id)
           three == Store(s, Id(item.id.kind, s.next), row, "copied", item.id)
           copy == Copy(s, item, row)
<1>1. after =
        IF item.id \notin DOMAIN s.rows THEN one
        ELSE IF policy = "update" /\ s.rows[item.id].org # org THEN [s EXCEPT !.error = "org"]
        ELSE CASE policy = "update" /\ s.rows[item.id].alive -> two
               [] policy = "update" /\ ~s.rows[item.id].alive ->
                    [s EXCEPT !.fate = With(@, item.id, "updated")]
               [] policy = "skip" -> [s EXCEPT !.fate = With(@, item.id, "skipped")]
               [] policy = "copy" -> copy
               [] OTHER -> [s EXCEPT !.error = "duplicate"]
  BY DEF ImportRow
<1>2. copy = [three EXCEPT !.next = @ + 1]
  BY DEF Copy
<1>3. /\ StoreEnds(s, one, item, item.id, row, "created")
      /\ StoreEnds(s, two, item, item.id, row, "updated")
      /\ StoreEnds(s, three, item, Id(item.id.kind, s.next), row, "copied")
  BY StoreFacts
<1>4. Id(item.id.kind, s.next).kind = item.id.kind
  BY DEF Id
<1> HIDE DEF one, two, three
<1>5. /\ copy.next = s.next + 1
      /\ \/ Stores(s, copy, item, Id(item.id.kind, s.next), row, "copied")
         \/ /\ Shape(copy) /\ copy.error = "name"
            /\ Bearers(s.rows, item.id.kind, row.org, row.name) \ {Id(item.id.kind, s.next)} # {}
  <2> HIDE DEF copy
  <2> QED BY <1>2, <1>3, <1>4 DEF Stores, Shape, StoreEnds
<1> HIDE DEF copy
<1>6. CASE item.id \notin DOMAIN s.rows
  BY <1>1, <1>3, <1>6 DEF StoreEnds, Created, Refused
<1>7. CASE item.id \in DOMAIN s.rows /\ policy = "update" /\ s.rows[item.id].org # org
  <2>1. after = [s EXCEPT !.error = "org"]
    BY <1>1, <1>7
  <2> QED BY <1>7, <2>1 DEF Refused, Shape
<1>8. CASE item.id \in DOMAIN s.rows /\ policy = "update" /\ s.rows[item.id].org = org
  <2>1. CASE s.rows[item.id].alive
    <3>1. after = two
      BY <1>1, <1>8, <2>1
    <3> QED BY <1>3, <1>8, <2>1, <3>1 DEF StoreEnds, Rewritten, Refused
  <2>2. CASE ~s.rows[item.id].alive
    <3>1. after = [s EXCEPT !.fate = With(@, item.id, "updated")]
      BY <1>1, <1>8, <2>2
    <3> QED BY <1>8, <2>2, <3>1 DEF Passed, Leaves, Shape
  <2> QED BY <2>1, <2>2
<1>9. CASE item.id \in DOMAIN s.rows /\ policy = "skip"
  <2>1. after = [s EXCEPT !.fate = With(@, item.id, "skipped")]
    BY <1>1, <1>9
  <2> QED BY <1>9, <2>1 DEF Passed, Leaves, Shape
<1>10. CASE item.id \in DOMAIN s.rows /\ policy = "copy"
  <2>1. after = copy
    BY <1>1, <1>10
  <2> QED BY <1>5, <1>10, <2>1 DEF Copied, Refused
<1>11. CASE item.id \in DOMAIN s.rows /\ policy = "abort"
  <2>1. after = [s EXCEPT !.error = "duplicate"]
    BY <1>1, <1>11
  <2> QED BY <1>11, <2>1 DEF Refused, Shape
<1> QED BY <1>6, <1>7, <1>8, <1>9, <1>10, <1>11 DEF Policies

(* The marks there are, in rows and in the file.                            *)
RowMarks(table) == {table[i].name.mark : i \in DOMAIN table}

(* The marks that names bear are finitely many.                             *)
LEMMA MarksFinite ==
  ASSUME FileOK, NEW table, IsFiniteSet(DOMAIN table)
  PROVE  IsFiniteSet(RowMarks(table) \union FileMarks)
<1>1. IsFiniteSet(RowMarks(table))
  <2> DEFINE f == [i \in DOMAIN table |-> table[i].name.mark]
  <2>1. DOMAIN f = DOMAIN table /\ RowMarks(table) = {f[i] : i \in DOMAIN f}
    BY DEF RowMarks
  <2> HIDE DEF f
  <2> QED BY <2>1, ImageFinite
<1>2. IsFiniteSet(FileMarks)
  <2> DEFINE f == [k \in DOMAIN file |-> file[k].row.name.mark]
  <2>1. DOMAIN f = 1..Len(file) /\ FileMarks = {f[k] : k \in DOMAIN f}
    BY DEF FileMarks, FileOK
  <2>2. IsFiniteSet(1..Len(file))
    BY FS_Interval DEF FileOK
  <2> HIDE DEF f
  <2> QED BY <2>1, <2>2, ImageFinite
<1> QED BY <1>1, <1>2, FS_Union

Alike(table, item, org) ==
    {i \in Bearers(table, item.id.kind, org, item.row.name) : table[i].type = item.row.type}

(* A name is kept if only the row itself bears it, or gets a mark no row    *)
(* and no item has.                                                         *)
LEMMA NewNameFacts ==
  ASSUME FileOK, NEW table, IsFiniteSet(DOMAIN table), NEW k \in DOMAIN file, NEW org, NEW policy,
         NEW name, name = NewName(table, file[k], org, policy)
  PROVE  /\ name = [base |-> name.base, mark |-> name.mark] /\ name.mark \in Nat
         /\ \/ /\ name = file[k].row.name
               /\ Alike(table, file[k], org) \subseteq (IF policy = "copy" THEN {} ELSE {file[k].id})
            \/ name.mark \notin RowMarks(table) \union FileMarks
<1> DEFINE item == file[k]
           marks == RowMarks(table) \union FileMarks
           n == Cardinality(marks)
           kept == Alike(table, item, org) \subseteq (IF policy = "copy" THEN {} ELSE {item.id})
           m == CHOOSE x \in 1..n + 1 : x \notin marks
<1>1. name = IF kept THEN item.row.name ELSE [item.row.name EXCEPT !.mark = m]
  BY DEF NewName, Alike, RowMarks, FileMarks
<1>2. /\ item.row.name = [base |-> item.row.name.base, mark |-> item.row.name.mark]
      /\ item.row.name.mark \in Nat
  BY DEF FileOK, ItemOK
<1>3. m \in 1..n + 1 /\ m \notin marks
  <2>1. IsFiniteSet(marks)
    BY MarksFinite
  <2> HIDE DEF marks
  <2>2. \E x \in 1..n + 1 : x \notin marks
    BY <2>1, FreshMark
  <2> QED BY <2>2
<1>4. n \in Nat
  BY MarksFinite, FS_CardinalityType
<1> HIDE DEF m, n, kept, marks, item
<1>5. CASE kept
  BY <1>1, <1>2, <1>5 DEF kept, item
<1>6. CASE ~kept
  <2>1. name = [item.row.name EXCEPT !.mark = m]
    BY <1>1, <1>6
  <2>2. m \in Nat
    BY <1>3, <1>4
  <2>3. name = [base |-> item.row.name.base, mark |-> m]
    BY <1>2, <2>1
  <2>4. name = [base |-> name.base, mark |-> name.mark] /\ name.mark = m
    BY <2>3
  <2> QED BY <1>3, <2>2, <2>4 DEF marks
<1> QED BY <1>5, <1>6

-----------------------------------------------------------------------------
(* What there is of the identifiers of the file.                            *)

(* What is copied is at a new identifier, all else where it was.            *)
LEMMA PlaceFacts ==
  ASSUME NEW s, NEW k, NEW policy, MapOK(s, k, policy), NEW i
  PROVE  /\ Mapped(s, i) = i \/ (i \in DOMAIN s.map /\ Mapped(s, i) = s.map[i])
         /\ Mapped(s, i) = i \/ (/\ policy = "copy" /\ i \in Sofar(k) /\ i \in DOMAIN s.rows
                                 /\ Fresh(Mapped(s, i), s.next) /\ Mapped(s, i).kind = i.kind)
         /\ Mapped(s, i).kind = i.kind
         /\ i \notin DOMAIN s.map => Mapped(s, i) = i
  BY AtFacts DEF MapOK, Mapped

(* Each row of the file is as it should be.                                 *)
LEMMA FileFacts ==
  ASSUME FileOK, next \in Nat, NEW k \in DOMAIN file
  PROVE  /\ file[k].id \in FileIds /\ file[k].id \in Ids /\ file[k].id.n < next
         /\ ~Fresh(file[k].id, next)
         /\ \A n : ~Fresh(file[k].id, n)
         /\ \A g \in file[k].links : file[k].id.kind = "tpl" =>
               \E j \in DOMAIN file : j < k /\ file[j].id = g /\ g.kind = "group"
         /\ file[k].id.kind = "tpl" =>
               file[k].row.vcs \in raced
               \/ \E j \in DOMAIN file : j < k /\ file[j].id = file[k].row.vcs
<1>1. /\ ItemOK(file[k], next) /\ DOMAIN file = 1..Len(file) /\ Len(file) \in Nat
      /\ \A j \in DOMAIN file : k < j /\ file[k].id.kind = "tpl" => file[j].id.kind = "tpl"
  BY DEF FileOK
<1>2. file[k].id \in FileIds /\ file[k].id \in Ids /\ file[k].id.n < next
  BY <1>1 DEF FileIds, ItemOK
<1>3. \A n : ~Fresh(file[k].id, n)
  BY <1>2 DEF Fresh, Ids
<1>4. ASSUME NEW j \in DOMAIN file, file[k].id.kind = "tpl", file[j].id.kind # "tpl" PROVE j < k
  BY <1>1, <1>4
<1>5. ASSUME file[k].id.kind = "tpl", NEW g \in file[k].links
      PROVE  \E j \in DOMAIN file : j < k /\ file[j].id = g /\ g.kind = "group"
  <2>1. g.kind = "group" /\ g \in FileIds
    BY <1>5 DEF FileOK
  <2> QED BY <1>4, <1>5, <2>1 DEF FileIds
<1>6. ASSUME file[k].id.kind = "tpl", file[k].row.vcs \notin raced
      PROVE  \E j \in DOMAIN file : j < k /\ file[j].id = file[k].row.vcs
  <2>1. file[k].row.vcs \in FileIds /\ file[k].row.vcs.kind = "vcs"
    BY <1>1, <1>6 DEF FileOK, ItemOK
  <2> QED BY <1>4, <1>6, <2>1 DEF FileIds
<1> QED BY <1>2, <1>3, <1>5, <1>6

(* The rows read so far, and the next one.                                  *)
LEMMA SofarFacts ==
  ASSUME FileOK, NEW k \in 1..Len(file)
  PROVE  /\ k \in DOMAIN file /\ k - 1 \in Nat /\ k \in Nat
         /\ Sofar(k) = Sofar(k - 1) \union {file[k].id}
         /\ \A j \in DOMAIN file : j < k => j \in 1..(k - 1) /\ file[j].id \in Sofar(k - 1)
         /\ \A j \in 1..k : j \in DOMAIN file /\ (j = k \/ j \in 1..(k - 1))
         /\ \A i \in Sofar(k) : i \in FileIds /\ \E j \in DOMAIN file : file[j].id = i
  BY DEF FileOK, Sofar, FileIds

(* Two items with one identifier are one, and two identifiers have two      *)
(* places.                                                                  *)
LEMMA PlacesApart ==
  ASSUME FileOK, next \in Nat, NEW s, NEW k, NEW policy, MapOK(s, k, policy),
         NEW j \in DOMAIN file, NEW l \in DOMAIN file,
         Mapped(s, file[j].id) = Mapped(s, file[l].id)
  PROVE  file[j] = file[l]
<1>1. /\ \A n : ~Fresh(file[j].id, n)
      /\ \A n : ~Fresh(file[l].id, n)
  BY FileFacts
<1>2. file[j].id = file[l].id
  <2>1. /\ Mapped(s, file[j].id) = file[j].id \/ Fresh(Mapped(s, file[j].id), s.next)
        /\ Mapped(s, file[l].id) = file[l].id \/ Fresh(Mapped(s, file[l].id), s.next)
    BY PlaceFacts
  <2>2. CASE Mapped(s, file[j].id) = file[j].id
    BY <1>1, <2>1, <2>2
  <2>3. CASE Mapped(s, file[j].id) # file[j].id
    <3>1. file[j].id \in DOMAIN s.map /\ Mapped(s, file[j].id) = s.map[file[j].id]
      BY <2>3, PlaceFacts
    <3>2. Mapped(s, file[l].id) # file[l].id
      BY <1>1, <2>1, <2>3
    <3>3. file[l].id \in DOMAIN s.map /\ Mapped(s, file[l].id) = s.map[file[l].id]
      BY <3>2, PlaceFacts
    <3>4. s.map[file[j].id] = s.map[file[l].id]
      BY <3>1, <3>3
    <3>5. \A a, c \in DOMAIN s.map : s.map[a] = s.map[c] => a = c
      BY DEF MapOK
    <3> QED BY ONLY <3>1, <3>3, <3>4, <3>5
  <2> QED BY <2>2, <2>3
<1> QED BY <1>2 DEF FileOK

(* The next item of the file is k.                                          *)
Importing(s, k, b, org, policy) ==
    /\ FileOK /\ next \in Nat /\ org \in Orgs /\ policy \in Policies /\ Sound(b, next)
    /\ k \in 1..Len(file) /\ FoldOK(s, k - 1, b, org, policy)

(* A row stays as it should be while identifiers are given.                 *)
LEMMA RowGrows ==
  ASSUME NEW i, NEW r, NEW m \in Nat, NEW n \in Nat, m <= n, RowOK(i, r, m)
  PROVE  RowOK(i, r, n)
<1>1. i.kind = "tpl" => r.vcs.n \in Nat /\ r.vcs.n < n
  <2>1. i.kind = "tpl" => r.vcs \in Ids /\ r.vcs.n < m
    BY DEF RowOK
  <2>2. r.vcs \in Ids => r.vcs.n \in Nat
    BY DEF Ids
  <2> QED BY <2>1, <2>2
<1> QED BY <1>1 DEF RowOK

(* The row an item becomes.                                                 *)
RowMade(s, k, row, org) ==
    /\ row.type = file[k].row.type /\ row.org = org /\ row.alive /\ row.body = file[k].row.body
    /\ \A n \in Nat : s.next <= n => RowOK(file[k].id, row, n)
    /\ row.name = file[k].row.name \/ row.name.mark \notin FileMarks
    /\ file[k].id.kind = "tpl" =>
          /\ row.vcs = Mapped(s, file[k].row.vcs)
          /\ file[k].row.vcs.kind = "vcs"
          /\ row.vcs \in DOMAIN s.rows \union raced
          /\ row.vcs \in FileIds \union raced \/ next <= row.vcs.n

(* The row made of one of the file is as it should be.                      *)
LEMMA ImportedFacts ==
  ASSUME NEW s, NEW k, NEW b, NEW org, NEW policy, Importing(s, k, b, org, policy),
         NEW row, row = Imported(s, file[k], org, NewName(s.rows, file[k], org, policy))
  PROVE  RowMade(s, k, row, org)
<1> DEFINE name == NewName(s.rows, file[k], org, policy)
           item == file[k]
<1>1. /\ FileOK /\ next \in Nat /\ org \in Orgs /\ k \in 1..Len(file)
      /\ s.next \in Nat /\ next <= s.next
      /\ IsFiniteSet(DOMAIN s.rows)
      /\ MapOK(s, k - 1, policy) /\ FateOK(s, k - 1, b, org, policy)
  BY DEF Importing, FoldOK, RowsOK
<1>2. k \in DOMAIN file /\ ItemOK(file[k], next)
  BY <1>1 DEF FileOK
<1>3. /\ name = [base |-> name.base, mark |-> name.mark] /\ name.mark \in Nat
      /\ name = item.row.name \/ name.mark \notin FileMarks
  BY <1>1, <1>2, NewNameFacts
<1> HIDE DEF name
<1>4. row = [type |-> item.row.type, org |-> org, name |-> name, body |-> item.row.body,
             own |-> FALSE, vcs |-> Mapped(s, item.row.vcs), alive |-> TRUE]
  BY DEF Imported, name
<1>5. /\ row = [type |-> row.type, org |-> row.org, name |-> row.name, body |-> row.body,
                own |-> row.own, vcs |-> row.vcs, alive |-> row.alive]
      /\ row.type = item.row.type /\ row.org = org /\ row.alive = TRUE
      /\ row.body = item.row.body /\ row.name = name /\ row.vcs = Mapped(s, item.row.vcs)
  BY <1>4
<1>6. ASSUME item.id.kind = "tpl"
      PROVE  /\ row.vcs \in Ids /\ row.vcs.kind = "vcs" /\ row.vcs.n < s.next
             /\ row.vcs \in DOMAIN s.rows \union raced
             /\ row.vcs \in FileIds \union raced \/ next <= row.vcs.n
  <2> DEFINE v == item.row.vcs
  <2>1. v \in Ids /\ v.kind = "vcs" /\ v.n < next /\ v.n \in Nat
    BY <1>2, <1>6 DEF ItemOK, Ids
  <2>2. /\ Mapped(s, v).kind = v.kind
        /\ Mapped(s, v) = v \/ Fresh(Mapped(s, v), s.next)
    BY <1>1, PlaceFacts
  <2>3. v \in raced \/ v \in Sofar(k - 1)
    BY <1>1, <1>2, <1>6, FileFacts, SofarFacts
  <2>4. v \in Sofar(k - 1) => Mapped(s, v) \in DOMAIN s.rows /\ v \in FileIds
    BY <1>1, SofarFacts DEF FateOK
  <2>5. v \notin Sofar(k - 1) => Mapped(s, v) = v
    BY <1>1 DEF MapOK, Mapped, At
  <2>6. row.vcs = Mapped(s, v)
    BY <1>5
  <2> HIDE DEF v
  <2>7. row.vcs \in Ids /\ row.vcs.n < s.next
    BY <1>1, <2>1, <2>2, <2>6 DEF Fresh
  <2>8. row.vcs \in DOMAIN s.rows \union raced
    BY <2>3, <2>4, <2>5, <2>6
  <2>9. row.vcs \in FileIds \union raced \/ next <= row.vcs.n
    BY <2>2, <2>3, <2>4, <2>5, <2>6 DEF Fresh
  <2> QED BY <2>1, <2>2, <2>6, <2>7, <2>8, <2>9
<1>7. RowOK(item.id, row, s.next)
  <2>1. item.id.kind # "group" => row.type = ""
    BY <1>2, <1>5 DEF ItemOK
  <2>2. row.name = [base |-> row.name.base, mark |-> row.name.mark] /\ row.name.mark \in Nat
    BY <1>3, <1>5
  <2> HIDE DEF item
  <2> QED BY <1>1, <1>5, <1>6, <2>1, <2>2 DEF RowOK
<1>8. \A n \in Nat : s.next <= n => RowOK(item.id, row, n)
  BY <1>1, <1>7, RowGrows
<1>9. item.id.kind = "tpl" => item.row.vcs.kind = "vcs"
  BY <1>2 DEF ItemOK
<1> QED BY <1>3, <1>5, <1>6, <1>8, <1>9 DEF RowMade

-----------------------------------------------------------------------------
(* Where an item is stored.                                                 *)

Target(s, after, item, id, org, policy) ==
    \/ id = item.id /\ item.id \notin DOMAIN s.rows /\ after.next = s.next
    \/ /\ id = item.id /\ item.id \in DOMAIN s.rows /\ policy = "update"
       /\ s.rows[item.id].org = org /\ s.rows[item.id].alive /\ after.next = s.next
    \/ /\ id = Id(item.id.kind, s.next) /\ item.id \in DOMAIN s.rows /\ policy = "copy"
       /\ after.next = s.next + 1

Storing(s, after, k, b, org, policy, id, row, fate) ==
    /\ Importing(s, k, b, org, policy) /\ RowMade(s, k, row, org)
    /\ Stores(s, after, file[k], id, row, fate) /\ Target(s, after, file[k], id, org, policy)
    /\ fate # "skipped"

Basics(s, k, b, org, policy) ==
    /\ FileOK /\ next \in Nat /\ k \in 1..Len(file) /\ k \in DOMAIN file
    /\ s.next \in Nat /\ next <= s.next
    /\ file[k].id \in Ids /\ file[k].id.n < next /\ file[k].id.n \in Nat
    /\ \A n : ~Fresh(file[k].id, n)
    /\ RowsOK(s, k - 1, b, org, policy) /\ MapOK(s, k - 1, policy)
    /\ FateOK(s, k - 1, b, org, policy)
    /\ \A i \in DOMAIN b.rows : i.n < next

(* What Importing says of what is read.                                     *)
LEMMA ImportingBasics ==
  ASSUME NEW s, NEW k, NEW b, NEW org, NEW policy, Importing(s, k, b, org, policy)
  PROVE  Basics(s, k, b, org, policy)
<1>1. FileOK /\ next \in Nat /\ k \in 1..Len(file) /\ k \in DOMAIN file
  BY DEF Importing, FileOK
<1>2. /\ file[k].id \in Ids /\ file[k].id.n < next
      /\ \A n : ~Fresh(file[k].id, n)
  BY <1>1, FileFacts
<1> QED BY <1>1, <1>2 DEF Importing, FoldOK, Sound, Basics, Ids

(* Where a row is stored: at its own identifier, or at one that is new.     *)
LEMMA TargetFacts ==
  ASSUME NEW s, NEW after, NEW k, NEW b, NEW org, NEW policy, NEW id, NEW row, NEW fate,
         Storing(s, after, k, b, org, policy, id, row, fate)
  PROVE  /\ id \in Ids /\ id.kind = file[k].id.kind /\ id.n < after.next
         /\ after.next \in Nat /\ s.next <= after.next
         /\ id \in DOMAIN b.rows => policy = "update" /\ id = file[k].id
         /\ id = file[k].id \/ Fresh(id, after.next)
         /\ Mapped(after, file[k].id) = id
         /\ \A i : i # file[k].id => Mapped(after, i) = Mapped(s, i)
         /\ \A j \in DOMAIN file : file[j].id # file[k].id => Mapped(s, file[j].id) # id
<1> DEFINE item == file[k]
<1>1. Basics(s, k, b, org, policy)
  BY ImportingBasics DEF Storing
<1>2. Stores(s, after, item, id, row, fate) /\ Target(s, after, item, id, org, policy)
  BY DEF Storing
<1>3. after.next \in Nat /\ s.next <= after.next
  BY <1>1, <1>2 DEF Basics, Target
<1>4. id \in Ids /\ id.kind = item.id.kind /\ id.n < after.next
  BY <1>1, <1>2 DEF Basics, Target, Id, Ids
<1>5. id = item.id \/ Fresh(id, after.next)
  BY <1>1, <1>2, <1>3, <1>4 DEF Basics, Target, Fresh, Id
<1>6. id \in DOMAIN b.rows => policy = "update" /\ id = item.id
  <2>1. DOMAIN b.rows \subseteq DOMAIN s.rows
    BY <1>1 DEF Basics, RowsOK
  <2>2. \A i \in DOMAIN b.rows : i.n < next
    BY <1>1 DEF Basics
  <2>3. id = Id(item.id.kind, s.next) => id \notin DOMAIN b.rows
    <3>1. Id(item.id.kind, s.next).n = s.next
      BY DEF Id
    <3> QED BY <1>1, <2>2, <3>1 DEF Basics
  <2> QED BY <1>2, <2>1, <2>3 DEF Target
<1>7. MapOK(s, k - 1, policy)
  BY <1>1 DEF Basics
<1>8. Mapped(after, item.id) = id
  <2>1. CASE id = item.id
    <3>1. after.map = s.map
      BY <1>2, <2>1 DEF Stores
    <3>2. item.id \notin DOMAIN s.map
      BY <1>1, <1>2, <1>7, <2>1 DEF MapOK, Target, Basics, Fresh, Id
    <3> QED BY <2>1, <3>1, <3>2 DEF Mapped, At
  <2>2. CASE id # item.id
    <3>1. after.map = With(s.map, item.id, id)
      BY <1>2, <2>2 DEF Stores
    <3>2. IsWith(after.map, s.map, item.id, id)
      BY <3>1, WithFacts
    <3>3. item.id \in DOMAIN after.map /\ after.map[item.id] = id
      BY <3>2 DEF IsWith
    <3> QED BY <3>3 DEF Mapped, At
  <2> QED BY <2>1, <2>2
<1>9. ASSUME NEW i, i # item.id PROVE Mapped(after, i) = Mapped(s, i)
  <2>1. CASE id = item.id
    BY <1>2, <2>1 DEF Stores, Mapped
  <2>2. CASE id # item.id
    <3>1. after.map = With(s.map, item.id, id)
      BY <1>2, <2>2 DEF Stores
    <3>2. IsWith(after.map, s.map, item.id, id)
      BY <3>1, WithFacts
    <3>3. /\ DOMAIN after.map = DOMAIN s.map \union {item.id}
          /\ \A y \in DOMAIN s.map : y # item.id => after.map[y] = s.map[y]
      BY <3>2 DEF IsWith
    <3> HIDE DEF item
    <3> QED BY <1>9, <3>3 DEF Mapped, At
  <2> QED BY <2>1, <2>2
<1>10. ASSUME NEW j \in DOMAIN file, file[j].id # item.id PROVE Mapped(s, file[j].id) # id
  <2>1. /\ file[j].id.n < next /\ file[j].id \in Ids
        /\ \A n : ~Fresh(file[j].id, n)
    BY <1>1, FileFacts DEF Basics
  <2>2. Mapped(s, file[j].id) = file[j].id \/ Fresh(Mapped(s, file[j].id), s.next)
    BY <1>7, PlaceFacts
  <2>3. CASE id = item.id
    BY <1>1, <1>10, <2>2, <2>3 DEF Basics
  <2>4. CASE id = Id(item.id.kind, s.next)
    <3>1. id.n = s.next
      BY <2>4 DEF Id
    <3>2. Mapped(s, file[j].id).n < s.next
      BY <1>1, <2>1, <2>2 DEF Fresh, Basics, Ids
    <3> QED BY <1>1, <3>1, <3>2 DEF Basics
  <2> QED BY <1>2, <2>3, <2>4 DEF Target
<1> QED BY <1>3, <1>4, <1>5, <1>6, <1>8, <1>9, <1>10

(* The rows are as they should be, what hangs on them is for all but the    *)
(* item that is being imported.                                             *)
Half(s, k, b, org, policy) ==
    /\ Shape(s) /\ s.error = "none" /\ s.next \in Nat /\ next <= s.next
    /\ RowsOK(s, k, b, org, policy) /\ MapOK(s, k, policy) /\ FateOK(s, k, b, org, policy)
    /\ \A j \in 1..k : LandedRow(s, file[j], b, org, policy)
    /\ \A j \in 1..k : file[j] # file[k] => LandedRefs(s, file[j])
    /\ RefsOK(s.rows, s.links, s.variables)
    /\ KeptRefs(b.links, s.links, k, policy) /\ KeptRefs(b.variables, s.variables, k, policy)

StoredAs(s, after, item, id, row, fate) ==
    /\ after.rows = [i \in DOMAIN after.rows |-> after.rows[i]]
    /\ DOMAIN after.rows = DOMAIN s.rows \union {id} /\ after.rows[id] = row
    /\ \A i \in DOMAIN s.rows : i # id => after.rows[i] = s.rows[i]
    /\ after.fate = [i \in DOMAIN after.fate |-> after.fate[i]]
    /\ DOMAIN after.fate = DOMAIN s.fate \union {item.id} /\ after.fate[item.id] = fate
    /\ \A i \in DOMAIN s.fate : i # item.id => after.fate[i] = s.fate[i]

LEMMA StoredFunctions ==
  ASSUME NEW s, NEW after, NEW k, NEW b, NEW org, NEW policy, NEW id, NEW row, NEW fate,
         Storing(s, after, k, b, org, policy, id, row, fate)
  PROVE  StoredAs(s, after, file[k], id, row, fate)
<1> DEFINE item == file[k]
<1>1. after.rows = With(s.rows, id, row) /\ after.fate = With(s.fate, item.id, fate)
  BY DEF Storing, Stores
<1>2. IsWith(after.rows, s.rows, id, row) /\ IsWith(after.fate, s.fate, item.id, fate)
  BY <1>1, WithFacts
<1> QED BY <1>2 DEF IsWith, StoredAs

(* A row that was written stays what it was made of.                        *)
LEMMA WrittenStays ==
  ASSUME FileOK, NEW s, NEW after, NEW k \in 1..Len(file), NEW org, NEW i,
         after.rows[i] = s.rows[i], DOMAIN s.rows \subseteq DOMAIN after.rows,
         s.next \in Nat, after.next \in Nat, s.next <= after.next, Written(i, s, k - 1, org)
  PROVE  Written(i, after, k, org)
<1>1. RowOK(i, after.rows[i], after.next)
  BY RowGrows DEF Written
<1>2. \A j \in 1..(k - 1) : j \in 1..k
  BY DEF FileOK
<1> QED BY <1>1, <1>2 DEF Written

(* A row stays the one that was there, or one that was written.             *)
LEMMA OriginStays ==
  ASSUME FileOK, NEW s, NEW after, NEW k \in 1..Len(file), NEW b, NEW org, NEW policy, NEW i,
         after.rows[i] = s.rows[i], DOMAIN s.rows \subseteq DOMAIN after.rows,
         s.next \in Nat, after.next \in Nat, s.next <= after.next,
         Origin(i, s, k - 1, b, org, policy)
  PROVE  Origin(i, after, k, b, org, policy)
<1>1. CASE i \in DOMAIN b.rows /\ s.rows[i] = b.rows[i]
  BY <1>1 DEF Origin
<1>2. CASE Written(i, s, k - 1, org)
           /\ IF i \in DOMAIN b.rows THEN policy = "update" /\ i \in Sofar(k - 1)
              ELSE i \in Sofar(k - 1) \/ Fresh(i, s.next)
  <2>1. Written(i, after, k, org)
    BY <1>2, WrittenStays
  <2>2. i \in Sofar(k - 1) => i \in Sofar(k)
    BY SofarFacts
  <2>3. Fresh(i, s.next) => Fresh(i, after.next)
    <3> SUFFICES ASSUME Fresh(i, s.next) PROVE Fresh(i, after.next)
      OBVIOUS
    <3>1. i \in Ids /\ next <= i.n /\ i.n < s.next
      BY DEF Fresh
    <3>2. i.n \in Nat
      BY <3>1 DEF Ids
    <3>3. i.n < after.next
      BY <3>1, <3>2
    <3> QED BY <3>1, <3>3 DEF Fresh
  <2> QED BY <1>2, <2>1, <2>2, <2>3 DEF Origin
<1> QED BY <1>1, <1>2 DEF Origin

(* Storing a row keeps what is known of the rows,                           *)
LEMMA StoredRows ==
  ASSUME NEW s, NEW after, NEW k, NEW b, NEW org, NEW policy, NEW id, NEW row, NEW fate,
         Storing(s, after, k, b, org, policy, id, row, fate)
  PROVE  RowsOK(after, k, b, org, policy)
<1>1. Basics(s, k, b, org, policy)
  BY ImportingBasics DEF Storing
<1>2. /\ id \in Ids /\ id.kind = file[k].id.kind
      /\ after.next \in Nat /\ s.next <= after.next
      /\ id \in DOMAIN b.rows => policy = "update" /\ id = file[k].id
      /\ id = file[k].id \/ Fresh(id, after.next)
  BY TargetFacts
<1>3. /\ after.rows = [i \in DOMAIN after.rows |-> after.rows[i]]
      /\ DOMAIN after.rows = DOMAIN s.rows \union {id} /\ after.rows[id] = row
      /\ \A i \in DOMAIN s.rows : i # id => after.rows[i] = s.rows[i]
  <2>1. StoredAs(s, after, file[k], id, row, fate)
    BY StoredFunctions
  <2> QED BY <2>1 DEF StoredAs
<1>4. IsFiniteSet(DOMAIN after.rows)
  <2>1. IsFiniteSet(DOMAIN s.rows)
    BY <1>1 DEF Basics, RowsOK
  <2> QED BY <1>3, <2>1, FS_AddElement
<1>5. DOMAIN b.rows \subseteq DOMAIN after.rows
  BY <1>1, <1>3 DEF Basics, RowsOK
<1>6. ASSUME NEW i \in DOMAIN after.rows, i # id PROVE Origin(i, after, k, b, org, policy)
  <2>1. i \in DOMAIN s.rows /\ after.rows[i] = s.rows[i]
    BY <1>3, <1>6
  <2>2. Origin(i, s, k - 1, b, org, policy)
    BY <1>1, <2>1 DEF Basics, RowsOK
  <2>3. FileOK /\ k \in 1..Len(file) /\ s.next \in Nat
    BY <1>1 DEF Basics
  <2>4. DOMAIN s.rows \subseteq DOMAIN after.rows
    BY <1>3
  <2> QED BY <1>2, <2>1, <2>2, <2>3, <2>4, OriginStays
<1>7. Origin(id, after, k, b, org, policy)
  <2>1. RowMade(s, k, row, org)
    BY DEF Storing
  <2>2. k \in 1..k
    BY <1>1 DEF Basics, FileOK
  <2>3. RowOK(id, row, after.next)
    <3>1. RowOK(file[k].id, row, after.next)
      BY <1>2, <2>1 DEF RowMade
    <3> QED BY <1>2, <3>1 DEF RowOK
  <2>4. Written(id, after, k, org)
    BY <1>2, <1>3, <2>1, <2>2, <2>3 DEF Written, RowMade
  <2>5. file[k].id \in Sofar(k)
    BY <2>2 DEF Sofar
  <2> QED BY <1>2, <2>4, <2>5 DEF Origin
<1> QED BY <1>3, <1>4, <1>5, <1>6, <1>7 DEF RowsOK

LEMMA FreshGrows ==
  ASSUME NEW i, NEW m \in Nat, NEW n \in Nat, m <= n, Fresh(i, m)
  PROVE  Fresh(i, n) /\ i.n < m
<1>1. i \in Ids /\ next <= i.n /\ i.n < m
  BY DEF Fresh
<1>2. i.n \in Nat
  BY <1>1 DEF Ids
<1> QED BY <1>1, <1>2 DEF Fresh

(* of where they are,                                                       *)
LEMMA StoredMap ==
  ASSUME NEW s, NEW after, NEW k, NEW b, NEW org, NEW policy, NEW id, NEW row, NEW fate,
         Storing(s, after, k, b, org, policy, id, row, fate)
  PROVE  MapOK(after, k, policy)
<1>1. Basics(s, k, b, org, policy)
  BY ImportingBasics DEF Storing
<1>2. /\ id \in Ids /\ id.kind = file[k].id.kind
      /\ after.next \in Nat /\ s.next <= after.next /\ s.next \in Nat
      /\ id = file[k].id \/ Fresh(id, after.next)
  BY <1>1, TargetFacts DEF Basics
<1>3. DOMAIN after.rows = DOMAIN s.rows \union {id}
  <2>1. StoredAs(s, after, file[k], id, row, fate)
    BY StoredFunctions
  <2> QED BY <2>1 DEF StoredAs
<1>4. Sofar(k) = Sofar(k - 1) \union {file[k].id}
  BY <1>1, SofarFacts DEF Basics
<1>5. MapOK(s, k - 1, policy)
  BY <1>1 DEF Basics
<1>6. ASSUME NEW i \in DOMAIN s.map
      PROVE  /\ policy = "copy" /\ i \in Sofar(k) /\ i \in DOMAIN after.rows
             /\ Fresh(s.map[i], after.next) /\ s.map[i].kind = i.kind /\ s.map[i].n < s.next
  <2>1. /\ policy = "copy" /\ i \in Sofar(k - 1) /\ i \in DOMAIN s.rows
        /\ Fresh(s.map[i], s.next) /\ s.map[i].kind = i.kind
    BY <1>5 DEF MapOK
  <2>2. Fresh(s.map[i], after.next) /\ s.map[i].n < s.next
    BY <1>2, <2>1, FreshGrows
  <2> QED BY <1>3, <1>4, <2>1, <2>2
<1>7. CASE id = file[k].id
  <2>1. after.map = s.map
    BY <1>7 DEF Storing, Stores
  <2> QED BY <1>5, <1>6, <2>1 DEF MapOK
<1>8. CASE id # file[k].id
  <2>1. after.map = With(s.map, file[k].id, id)
    BY <1>8 DEF Storing, Stores
  <2>2. IsWith(after.map, s.map, file[k].id, id)
    BY <2>1, WithFacts
  <2>3. policy = "copy" /\ id = Id(file[k].id.kind, s.next) /\ file[k].id \in DOMAIN s.rows
    BY <1>8 DEF Storing, Target
  <2>4. id.n = s.next
    BY <2>3 DEF Id
  <2>5. ASSUME NEW i \in DOMAIN after.map
        PROVE  /\ policy = "copy" /\ i \in Sofar(k) /\ i \in DOMAIN after.rows
               /\ Fresh(after.map[i], after.next) /\ after.map[i].kind = i.kind
    <3>1. CASE i = file[k].id
      BY <1>2, <1>3, <1>4, <1>8, <2>2, <2>3, <3>1 DEF IsWith
    <3>2. CASE i # file[k].id
      <4>1. i \in DOMAIN s.map /\ after.map[i] = s.map[i]
        BY <2>2, <3>2 DEF IsWith
      <4> QED BY <1>6, <4>1
    <3> QED BY <3>1, <3>2
  <2>6. ASSUME NEW i \in DOMAIN after.map, NEW j \in DOMAIN after.map, after.map[i] = after.map[j]
        PROVE  i = j
    <3>1. \A x \in DOMAIN after.map : x # file[k].id =>
             x \in DOMAIN s.map /\ after.map[x] = s.map[x] /\ after.map[x] # id
      <4> SUFFICES ASSUME NEW x \in DOMAIN after.map, x # file[k].id
                   PROVE  x \in DOMAIN s.map /\ after.map[x] = s.map[x] /\ after.map[x] # id
        OBVIOUS
      <4>1. x \in DOMAIN s.map /\ after.map[x] = s.map[x]
        BY <2>2 DEF IsWith
      <4>2. s.map[x].n < s.next
        BY <1>6, <4>1
      <4> QED BY <1>2, <2>4, <4>1, <4>2
    <3>2. after.map[file[k].id] = id
      BY <2>2 DEF IsWith
    <3>3. \A x, y \in DOMAIN s.map : s.map[x] = s.map[y] => x = y
      BY <1>5 DEF MapOK
    <3> QED BY <2>6, <3>1, <3>2, <3>3
  <2>7. after.map = [i \in DOMAIN after.map |-> after.map[i]]
    BY <2>2 DEF IsWith
  <2> QED BY <2>5, <2>6, <2>7 DEF MapOK
<1> QED BY <1>7, <1>8

(* What holds of the item just stored, and of another.                      *)
LEMMA StoredElsewhere ==
  ASSUME NEW s, NEW after, NEW k, NEW b, NEW org, NEW policy, NEW id, NEW row, NEW fate,
         Storing(s, after, k, b, org, policy, id, row, fate),
         NEW j \in 1..k, file[j] # file[k]
  PROVE  LET p == Mapped(s, file[j].id) IN
         /\ j \in 1..(k - 1) /\ file[j].id # file[k].id
         /\ Mapped(after, file[j].id) = p /\ p # id
         /\ p \in DOMAIN s.rows /\ p \in DOMAIN after.rows /\ after.rows[p] = s.rows[p]
         /\ file[j].id \in DOMAIN s.fate /\ after.fate[file[j].id] = s.fate[file[j].id]
         /\ file[j].id.kind = "tpl" => file[k].id.kind = "tpl" /\ file[j].row.vcs.kind = "vcs"
                                       /\ \A g \in file[j].links : g.kind = "group"
<1> DEFINE p == Mapped(s, file[j].id)
<1>1. Basics(s, k, b, org, policy)
  BY ImportingBasics DEF Storing
<1>2. j \in DOMAIN file /\ j \in 1..(k - 1) /\ j < k /\ file[j].id \in Sofar(k - 1)
  BY <1>1, SofarFacts DEF Basics
<1>3. file[j].id # file[k].id
  BY <1>1, <1>2 DEF Basics, FileOK
<1>4. Mapped(after, file[j].id) = p /\ p # id
  BY <1>2, <1>3, TargetFacts
<1>5. p \in DOMAIN s.rows /\ file[j].id \in DOMAIN s.fate
  BY <1>1, <1>2 DEF Basics, FateOK
<1>6. Stores(s, after, file[k], id, row, fate)
  BY DEF Storing
<1>7. /\ p \in DOMAIN after.rows /\ after.rows[p] = s.rows[p]
      /\ after.fate[file[j].id] = s.fate[file[j].id]
  <2> HIDE DEF p
  <2>1. StoredAs(s, after, file[k], id, row, fate)
    BY StoredFunctions
  <2> QED BY <1>3, <1>4, <1>5, <1>6, <2>1 DEF StoredAs
<1>8. ASSUME file[j].id.kind = "tpl"
      PROVE  file[k].id.kind = "tpl" /\ file[j].row.vcs.kind = "vcs"
             /\ \A g \in file[j].links : g.kind = "group"
  BY <1>1, <1>2, <1>8 DEF Basics, FileOK, ItemOK
<1> QED BY <1>2, <1>3, <1>4, <1>5, <1>7, <1>8

(* of what became of them,                                                  *)
LEMMA StoredFate ==
  ASSUME NEW s, NEW after, NEW k, NEW b, NEW org, NEW policy, NEW id, NEW row, NEW fate,
         Storing(s, after, k, b, org, policy, id, row, fate)
  PROVE  FateOK(after, k, b, org, policy)
<1>1. Basics(s, k, b, org, policy)
  BY ImportingBasics DEF Storing
<1>2. /\ id \in DOMAIN b.rows => policy = "update" /\ id = file[k].id
      /\ Mapped(after, file[k].id) = id
      /\ \A i : i # file[k].id => Mapped(after, i) = Mapped(s, i)
  BY TargetFacts
<1>3. Stores(s, after, file[k], id, row, fate)
  BY DEF Storing
<1>4. /\ DOMAIN after.rows = DOMAIN s.rows \union {id}
      /\ after.fate = [i \in DOMAIN after.fate |-> after.fate[i]]
      /\ DOMAIN after.fate = DOMAIN s.fate \union {file[k].id} /\ after.fate[file[k].id] = fate
      /\ \A i \in DOMAIN s.fate : i # file[k].id => after.fate[i] = s.fate[i]
  <2>1. StoredAs(s, after, file[k], id, row, fate)
    BY StoredFunctions
  <2> QED BY <1>3, <2>1 DEF StoredAs
<1>5. Sofar(k) = Sofar(k - 1) \union {file[k].id}
  BY <1>1, SofarFacts DEF Basics
<1>6. FateOK(s, k - 1, b, org, policy) /\ RowsOK(s, k - 1, b, org, policy)
  BY <1>1 DEF Basics
<1>7. ASSUME policy = "update", file[k].id \in DOMAIN b.rows PROVE b.rows[file[k].id].org = org
  <2>1. file[k].id \in DOMAIN s.rows
    BY <1>6, <1>7 DEF RowsOK
  <2>2. s.rows[file[k].id].org = org
    BY <1>7, <2>1 DEF Storing, Target
  <2>3. Origin(file[k].id, s, k - 1, b, org, policy)
    BY <1>6, <2>1 DEF RowsOK
  <2>4. \/ s.rows[file[k].id] = b.rows[file[k].id]
        \/ file[k].id \in Sofar(k - 1)
    BY <1>7, <2>3 DEF Origin
  <2> QED BY <1>6, <1>7, <2>2, <2>4 DEF FateOK
<1>8. ASSUME NEW i \in Sofar(k), i = file[k].id
      PROVE  /\ i \in DOMAIN after.fate /\ Mapped(after, i) \in DOMAIN after.rows
             /\ policy # "update" /\ after.fate[i] # "skipped" =>
                   Mapped(after, i) \notin DOMAIN b.rows
             /\ policy # "skip" => after.fate[i] # "skipped"
             /\ policy = "update" /\ i \in DOMAIN b.rows => b.rows[i].org = org
  <2>1. fate # "skipped"
    BY DEF Storing
  <2> QED BY <1>2, <1>4, <1>7, <1>8, <2>1
<1>9. ASSUME NEW i \in Sofar(k), i # file[k].id
      PROVE  /\ i \in DOMAIN after.fate /\ Mapped(after, i) \in DOMAIN after.rows
             /\ policy # "update" /\ after.fate[i] # "skipped" =>
                   Mapped(after, i) \notin DOMAIN b.rows
             /\ policy # "skip" => after.fate[i] # "skipped"
             /\ policy = "update" /\ i \in DOMAIN b.rows => b.rows[i].org = org
  <2>1. i \in Sofar(k - 1) /\ Mapped(after, i) = Mapped(s, i)
    BY <1>2, <1>5, <1>9
  <2>2. i \in DOMAIN s.fate
    BY <1>6, <2>1 DEF FateOK
  <2>3. after.fate[i] = s.fate[i]
    BY <1>4, <1>9, <2>2
  <2> QED BY <1>4, <1>6, <2>1, <2>2, <2>3 DEF FateOK
<1> QED BY <1>4, <1>8, <1>9 DEF FateOK

(* and of what has landed.                                                  *)
LEMMA StoredLanded ==
  ASSUME NEW s, NEW after, NEW k, NEW b, NEW org, NEW policy, NEW id, NEW row, NEW fate,
         Storing(s, after, k, b, org, policy, id, row, fate)
  PROVE  /\ \A j \in 1..k : LandedRow(after, file[j], b, org, policy)
         /\ \A j \in 1..k : file[j] # file[k] => LandedRefs(after, file[j])
<1>1. Basics(s, k, b, org, policy)
  BY ImportingBasics DEF Storing
<1>2. /\ Mapped(after, file[k].id) = id
      /\ \A i : i # file[k].id => Mapped(after, i) = Mapped(s, i)
  BY TargetFacts
<1>3. Stores(s, after, file[k], id, row, fate) /\ RowMade(s, k, row, org)
  BY DEF Storing
<1>4. after.rows[id] = row
  <2>1. StoredAs(s, after, file[k], id, row, fate)
    BY StoredFunctions
  <2> QED BY <1>3, <2>1 DEF StoredAs
<1>5. \A j \in 1..(k - 1) : LandedRow(s, file[j], b, org, policy) /\ LandedRefs(s, file[j])
  BY DEF Storing, Importing, FoldOK
<1>6. LandedRow(after, file[k], b, org, policy)
  <2>1. file[k].id.kind = "tpl" => row.vcs = Mapped(after, file[k].row.vcs)
    BY <1>2, <1>3 DEF RowMade
  <2> QED BY <1>2, <1>3, <1>4, <2>1 DEF LandedRow, RowMade
<1>7. ASSUME NEW j \in 1..k, file[j] # file[k]
      PROVE  LandedRow(after, file[j], b, org, policy) /\ LandedRefs(after, file[j])
  <2> DEFINE p == Mapped(s, file[j].id)
  <2>1. /\ j \in 1..(k - 1) /\ file[j].id # file[k].id
        /\ Mapped(after, file[j].id) = p
        /\ after.rows[p] = s.rows[p]
        /\ after.fate[file[j].id] = s.fate[file[j].id]
        /\ file[j].id.kind = "tpl" => file[k].id.kind = "tpl" /\ file[j].row.vcs.kind = "vcs"
                                       /\ \A g \in file[j].links : g.kind = "group"
    BY <1>7, StoredElsewhere
  <2>2. LandedRow(s, file[j], b, org, policy) /\ LandedRefs(s, file[j])
    BY <1>5, <2>1
  <2>3. file[j].id.kind = "tpl" => Mapped(after, file[j].row.vcs) = Mapped(s, file[j].row.vcs)
    BY <1>2, <2>1
  <2>4. file[j].id.kind = "tpl" =>
          {Mapped(after, g) : g \in file[j].links} = {Mapped(s, g) : g \in file[j].links}
    BY <1>2, <2>1
  <2>5. /\ after.links = s.links /\ after.variables = s.variables
        /\ after.offered = s.offered
    BY <1>3 DEF Stores
  <2> HIDE DEF p
  <2>6. p = Mapped(s, file[j].id)
    BY DEF p
  <2>7. LandedRow(after, file[j], b, org, policy)
    BY <2>1, <2>2, <2>3, <2>6 DEF LandedRow
  <2>8. LandedRefs(after, file[j])
    BY <2>1, <2>2, <2>4, <2>5, <2>6, SMTT(40) DEF LandedRefs
  <2> QED BY <2>7, <2>8
<1> QED BY <1>6, <1>7

(* What is kept after some rows is kept after more.                         *)
LEMMA KeptGrows ==
  ASSUME FileOK, NEW k \in 1..Len(file), NEW f, NEW g, NEW policy, KeptRefs(f, g, k - 1, policy)
  PROVE  KeptRefs(f, g, k, policy)
  BY SofarFacts DEF KeptRefs

LEMMA RefsGrow ==
  ASSUME NEW table, NEW more, NEW links, NEW variables, DOMAIN table \subseteq DOMAIN more,
         RefsOK(table, links, variables)
  PROVE  RefsOK(more, links, variables)
  BY DEF RefsOK

(* So all but the links of the row itself is as it should be.               *)
LEMMA StoredHalf ==
  ASSUME NEW s, NEW after, NEW k, NEW b, NEW org, NEW policy, NEW id, NEW row, NEW fate,
         Storing(s, after, k, b, org, policy, id, row, fate)
  PROVE  Half(after, k, b, org, policy)
<1>1. Basics(s, k, b, org, policy)
  BY ImportingBasics DEF Storing
<1>2. /\ RefsOK(s.rows, s.links, s.variables)
      /\ KeptRefs(b.links, s.links, k - 1, policy) /\ KeptRefs(b.variables, s.variables, k - 1, policy)
  BY DEF Storing, Importing, FoldOK
<1>3. Stores(s, after, file[k], id, row, fate)
  BY DEF Storing
<1>4. /\ Shape(after) /\ after.error = "none"
      /\ after.links = s.links /\ after.variables = s.variables
  BY <1>3 DEF Stores
<1>5. DOMAIN s.rows \subseteq DOMAIN after.rows
  <2>1. StoredAs(s, after, file[k], id, row, fate)
    BY StoredFunctions
  <2> QED BY <1>3, <2>1 DEF StoredAs
<1>6. RefsOK(after.rows, after.links, after.variables)
  BY <1>2, <1>4, <1>5, RefsGrow
<1>7. KeptRefs(b.links, after.links, k, policy) /\ KeptRefs(b.variables, after.variables, k, policy)
  BY <1>1, <1>2, <1>4, KeptGrows DEF Basics
<1>8. after.next \in Nat /\ next <= after.next
  <2>1. after.next \in Nat /\ s.next <= after.next
    BY TargetFacts
  <2> QED BY <1>1, <2>1 DEF Basics
<1>9. RowsOK(after, k, b, org, policy) /\ MapOK(after, k, policy) /\ FateOK(after, k, b, org, policy)
  BY StoredRows, StoredMap, StoredFate
<1>10. /\ \A j \in 1..k : LandedRow(after, file[j], b, org, policy)
       /\ \A j \in 1..k : file[j] # file[k] => LandedRefs(after, file[j])
  BY StoredLanded
<1> QED BY <1>4, <1>6, <1>7, <1>8, <1>9, <1>10 DEF Half

(* What an update passes was in the organization before.                    *)
LEMMA OrgKept ==
  ASSUME NEW s, NEW k, NEW b, NEW org, NEW policy, Basics(s, k, b, org, policy),
         policy = "update", file[k].id \in DOMAIN b.rows, s.rows[file[k].id].org = org
  PROVE  b.rows[file[k].id].org = org
<1>1. file[k].id \in DOMAIN s.rows
  BY DEF Basics, RowsOK
<1>2. Origin(file[k].id, s, k - 1, b, org, policy)
  BY <1>1 DEF Basics, RowsOK
<1>3. s.rows[file[k].id] = b.rows[file[k].id] \/ file[k].id \in Sofar(k - 1)
  BY <1>2 DEF Origin
<1>4. file[k].id \in Sofar(k - 1) => b.rows[file[k].id].org = org
  BY DEF Basics, FateOK
<1> QED BY <1>3, <1>4

(* A row which is not alive is as it was before the import.                 *)
LEMMA DeadBefore ==
  ASSUME NEW s, NEW k, NEW b, NEW org, NEW policy, RowsOK(s, k, b, org, policy),
         NEW i \in DOMAIN s.rows, ~s.rows[i].alive
  PROVE  i \in DOMAIN b.rows /\ ~b.rows[i].alive
<1>1. Origin(i, s, k, b, org, policy)
  BY DEF RowsOK
<1>2. ~Written(i, s, k, org)
  BY DEF Written
<1> QED BY <1>1, <1>2 DEF Origin

(* The same of a row that is passed over.                                   *)
LEMMA PassedHalf ==
  ASSUME NEW s, NEW after, NEW k, NEW b, NEW org, NEW policy, Importing(s, k, b, org, policy),
         Passed(s, after, file[k], org, policy)
  PROVE  Half(after, k, b, org, policy)
<1> DEFINE item == file[k]
<1>1. Basics(s, k, b, org, policy)
  BY ImportingBasics
<1>2. /\ item.id \in DOMAIN s.rows /\ after.next = s.next /\ policy \in {"update", "skip"}
      /\ Shape(after) /\ after.error = "none" /\ after.rows = s.rows /\ after.map = s.map
      /\ after.links = s.links /\ after.variables = s.variables /\ after.offered = s.offered
  BY DEF Passed, Leaves
<1>3. PICK fate :
        /\ after.fate = With(s.fate, item.id, fate)
        /\ \/ policy = "update" /\ s.rows[item.id].org = org /\ ~s.rows[item.id].alive /\ fate = "updated"
           \/ policy = "skip" /\ fate = "skipped"
  BY DEF Passed, Leaves
<1>4. IsWith(after.fate, s.fate, item.id, fate)
  BY <1>3, WithFacts
<1>5. /\ after.fate = [i \in DOMAIN after.fate |-> after.fate[i]]
      /\ DOMAIN after.fate = DOMAIN s.fate \union {item.id} /\ after.fate[item.id] = fate
      /\ \A i \in DOMAIN s.fate : i # item.id => after.fate[i] = s.fate[i]
  BY <1>4 DEF IsWith
<1>6. /\ RowsOK(s, k - 1, b, org, policy) /\ MapOK(s, k - 1, policy)
      /\ FateOK(s, k - 1, b, org, policy)
      /\ FileOK /\ k \in 1..Len(file) /\ s.next \in Nat /\ next <= s.next
  BY <1>1 DEF Basics
<1>7. Sofar(k) = Sofar(k - 1) \union {item.id} /\ k \in DOMAIN file
  BY <1>6, SofarFacts
<1>8. RowsOK(after, k, b, org, policy)
  <2>1. ASSUME NEW i \in DOMAIN after.rows PROVE Origin(i, after, k, b, org, policy)
    <3>1. Origin(i, s, k - 1, b, org, policy)
      BY <1>2, <1>6 DEF RowsOK
    <3>2. /\ after.rows[i] = s.rows[i] /\ DOMAIN s.rows \subseteq DOMAIN after.rows
          /\ after.next \in Nat /\ s.next <= after.next
      BY <1>2, <1>6
    <3> QED BY <1>6, <3>1, <3>2, OriginStays
  <2> QED BY <1>2, <1>6, <2>1 DEF RowsOK
<1>9. DOMAIN s.map = {}
  BY <1>2, <1>6 DEF MapOK
<1>10. MapOK(after, k, policy)
  BY <1>2, <1>6, <1>9 DEF MapOK
<1>11. \A i : Mapped(s, i) = i /\ Mapped(after, i) = i
  BY <1>2, <1>9 DEF Mapped, At
<1>12. policy = "update" /\ item.id \in DOMAIN b.rows => b.rows[item.id].org = org
  BY <1>1, <1>3, OrgKept
<1>13. FateOK(after, k, b, org, policy)
  <2> SUFFICES ASSUME NEW i \in Sofar(k)
      PROVE  /\ i \in DOMAIN after.fate /\ Mapped(after, i) \in DOMAIN after.rows
             /\ policy # "update" /\ after.fate[i] # "skipped" =>
                   Mapped(after, i) \notin DOMAIN b.rows
             /\ policy # "skip" => after.fate[i] # "skipped"
             /\ policy = "update" /\ i \in DOMAIN b.rows => b.rows[i].org = org
    BY <1>5 DEF FateOK
  <2>1. CASE i = item.id
    BY <1>2, <1>3, <1>5, <1>11, <1>12, <2>1
  <2>2. CASE i # item.id
    <3>1. i \in Sofar(k - 1)
      BY <1>7, <2>2
    <3>2. /\ i \in DOMAIN s.fate /\ Mapped(s, i) \in DOMAIN s.rows
          /\ policy # "update" /\ s.fate[i] # "skipped" => Mapped(s, i) \notin DOMAIN b.rows
          /\ policy # "skip" => s.fate[i] # "skipped"
          /\ policy = "update" /\ i \in DOMAIN b.rows => b.rows[i].org = org
      BY <1>6, <3>1 DEF FateOK
    <3> QED BY <1>2, <1>5, <1>11, <2>2, <3>2
  <2> QED BY <2>1, <2>2
<1>14. LandedRow(after, item, b, org, policy)
  <2>1. CASE policy = "skip"
    BY <1>3, <1>5, <2>1 DEF LandedRow
  <2>2. CASE policy = "update"
    <3>1. item.id \in DOMAIN b.rows /\ ~b.rows[item.id].alive
      BY <1>2, <1>3, <1>6, <2>2, DeadBefore
    <3> QED BY <1>11, <2>2, <3>1 DEF LandedRow
  <2> QED BY <1>2, <2>1, <2>2
<1>15. ASSUME NEW j \in 1..k, file[j] # file[k]
       PROVE  LandedRow(after, file[j], b, org, policy) /\ LandedRefs(after, file[j])
  <2>1. j \in DOMAIN file /\ j \in 1..(k - 1) /\ file[j].id \in Sofar(k - 1)
    <3>1. j # k
      BY <1>15
    <3>2. j \in DOMAIN file /\ j \in 1..(k - 1)
      BY <1>6, <3>1, SofarFacts
    <3> QED BY <3>2 DEF Sofar
  <2>2. file[j].id # item.id
    BY <1>6, <1>7, <1>15, <2>1 DEF FileOK
  <2>3. LandedRow(s, file[j], b, org, policy) /\ LandedRefs(s, file[j])
    BY <2>1 DEF Importing, FoldOK
  <2>4. after.fate[file[j].id] = s.fate[file[j].id]
    BY <1>5, <1>6, <2>1, <2>2 DEF FateOK
  <2>5. {Mapped(after, g) : g \in file[j].links} = {Mapped(s, g) : g \in file[j].links}
    BY <1>11
  <2>6. LandedRow(after, file[j], b, org, policy)
    BY <1>2, <1>11, <2>3, <2>4 DEF LandedRow
  <2>7. LandedRefs(after, file[j])
    BY <1>2, <1>11, <2>3, <2>4, <2>5 DEF LandedRefs
  <2> QED BY <2>6, <2>7
<1>16. /\ RefsOK(after.rows, after.links, after.variables)
       /\ KeptRefs(b.links, after.links, k, policy) /\ KeptRefs(b.variables, after.variables, k, policy)
  <2>1. /\ RefsOK(s.rows, s.links, s.variables)
        /\ KeptRefs(b.links, s.links, k - 1, policy)
        /\ KeptRefs(b.variables, s.variables, k - 1, policy)
    BY DEF Importing, FoldOK
  <2> QED BY <1>2, <1>6, <2>1, KeptGrows
<1>17. \A j \in 1..k : LandedRow(after, file[j], b, org, policy)
  BY <1>14, <1>15
<1> QED BY <1>2, <1>6, <1>8, <1>10, <1>13, <1>15, <1>16, <1>17 DEF Half

-----------------------------------------------------------------------------
(* What a refusal is for.                                                   *)

(* Only a group has a type.                                                 *)
LEMMA RowShape ==
  ASSUME NEW s, NEW k, NEW b, NEW org, NEW policy, Basics(s, k, b, org, policy), Sound(b, next),
         NEW x \in DOMAIN s.rows
  PROVE  x.kind # "group" => s.rows[x].type = ""
<1>1. Origin(x, s, k - 1, b, org, policy)
  BY DEF Basics, RowsOK
<1>2. x \in DOMAIN b.rows => RowOK(x, b.rows[x], next)
  BY DEF Sound
<1> QED BY <1>1, <1>2 DEF Origin, Written, RowOK

(* A name is refused only for a group of the other type: every other bearer *)
(* of it is seen by the renaming, and the new name is borne by none.        *)
LEMMA NameRefused ==
  ASSUME NEW s, NEW k, NEW b, NEW org, NEW policy, Importing(s, k, b, org, policy),
         NEW row, row = Imported(s, file[k], org, NewName(s.rows, file[k], org, policy)),
         NEW id, policy # "copy" => id = file[k].id,
         Bearers(s.rows, file[k].id.kind, row.org, row.name) \ {id} # {}
  PROVE  NameMet(b)
<1> SUFFICES \E item \in Items, met \in SeenIn(b) :
               /\ item.id.kind = "group" /\ met.id.kind = "group"
               /\ met.row.name = item.row.name /\ met.row.type # item.row.type
  BY DEF NameMet
<1> DEFINE item == file[k]
           name == NewName(s.rows, item, org, policy)
<1>1. Basics(s, k, b, org, policy) /\ Sound(b, next)
  BY ImportingBasics DEF Importing
<1>2. row.org = org /\ row.name = name
  BY DEF Imported
<1>3. FileOK /\ k \in DOMAIN file /\ IsFiniteSet(DOMAIN s.rows) /\ ItemOK(item, next)
  BY <1>1 DEF Basics, RowsOK, FileOK
<1>4. \/ /\ name = item.row.name
         /\ Alike(s.rows, item, org) \subseteq (IF policy = "copy" THEN {} ELSE {item.id})
      \/ name.mark \notin RowMarks(s.rows) \union FileMarks
  BY <1>3, NewNameFacts
<1> HIDE DEF name
<1>5. PICK x \in DOMAIN s.rows : /\ x.kind = item.id.kind /\ s.rows[x].org = org
                                 /\ s.rows[x].alive /\ s.rows[x].name = name /\ x # id
  BY <1>2 DEF Bearers
<1>6. name.mark \in RowMarks(s.rows)
  BY <1>5 DEF RowMarks
<1>7. /\ name = item.row.name
      /\ Alike(s.rows, item, org) \subseteq (IF policy = "copy" THEN {} ELSE {item.id})
  BY <1>4, <1>6
<1>8. s.rows[x].type # item.row.type
  <2> SUFFICES ASSUME s.rows[x].type = item.row.type PROVE FALSE
    OBVIOUS
  <2>1. x \in Alike(s.rows, item, org)
    BY <1>5, <1>7 DEF Alike, Bearers
  <2>2. policy # "copy" /\ x = item.id
    BY <1>7, <2>1
  <2> QED BY <1>5, <2>2
<1>9. x.kind = "group" /\ item.id.kind = "group"
  <2>1. x.kind # "group" => s.rows[x].type = ""
    BY <1>1, RowShape
  <2>2. item.id.kind # "group" => item.row.type = ""
    BY <1>3 DEF ItemOK
  <2> QED BY <1>5, <1>8, <2>1, <2>2
<1>10. item \in Items
  BY <1>3 DEF Items
<1>11. \E met \in SeenIn(b) : /\ met.id.kind = "group" /\ met.row.name = name
                              /\ met.row.type = s.rows[x].type
  <2>1. Origin(x, s, k - 1, b, org, policy)
    BY <1>1 DEF Basics, RowsOK
  <2>2. CASE x \in DOMAIN b.rows /\ s.rows[x] = b.rows[x]
    <3> DEFINE met == [id |-> x, row |-> b.rows[x]]
    <3>1. met \in SeenIn(b)
      BY <2>2 DEF SeenIn
    <3>2. met.id = x /\ met.row = s.rows[x]
      BY <2>2
    <3> HIDE DEF met
    <3> QED BY <1>5, <1>9, <3>1, <3>2
  <2>3. CASE Written(x, s, k - 1, org)
    <3>1. PICK j \in 1..(k - 1) : /\ file[j].id.kind = x.kind /\ s.rows[x].type = file[j].row.type
                                  /\ \/ s.rows[x].name = file[j].row.name
                                     \/ s.rows[x].name.mark \notin FileMarks
      BY <2>3 DEF Written
    <3>2. name.mark \in FileMarks
      BY <1>3, <1>7 DEF FileMarks
    <3>3. j \in DOMAIN file
      BY <1>1 DEF Basics, FileOK
    <3> DEFINE met == [id |-> file[j].id, row |-> file[j].row]
    <3>4. met \in SeenIn(b)
      BY <3>3 DEF SeenIn, Items
    <3>5. met.id = file[j].id /\ met.row = file[j].row
      OBVIOUS
    <3> HIDE DEF met
    <3> QED BY <1>5, <1>9, <3>1, <3>2, <3>4, <3>5
  <2> QED BY <2>1, <2>2, <2>3 DEF Origin
<1> QED BY <1>7, <1>8, <1>9, <1>10, <1>11

(* What is refused is refused for cause.                                    *)
LEMMA RefusedFails ==
  ASSUME NEW s, NEW after, NEW k, NEW b, NEW org, NEW policy, Importing(s, k, b, org, policy),
         NEW row, row = Imported(s, file[k], org, NewName(s.rows, file[k], org, policy)),
         Refused(s, after, file[k], row, org, policy)
  PROVE  FailOK(after, b, org, policy)
<1>1. Basics(s, k, b, org, policy)
  BY ImportingBasics
<1>2. after.next \in Nat /\ next <= after.next /\ Shape(after)
  BY <1>1 DEF Basics, Refused
<1>3. CASE after.error = "name"
  <2>1. PICK id : /\ policy # "copy" => id = file[k].id
                  /\ Bearers(s.rows, file[k].id.kind, row.org, row.name) \ {id} # {}
    BY <1>3 DEF Refused
  <2>2. NameMet(b)
    <3>1. Importing(s, k, b, org, policy)
      OBVIOUS
    <3>2. row = Imported(s, file[k], org, NewName(s.rows, file[k], org, policy))
      OBVIOUS
    <3> QED BY ONLY <2>1, <3>1, <3>2, NameRefused
  <2> QED BY <1>2, <1>3, <2>2 DEF FailOK
<1>4. ASSUME file[k].id \in DOMAIN s.rows
      PROVE  file[k].id \in FileIds /\ (file[k].id \in DOMAIN b.rows \/ file[k].id \in Sofar(k - 1))
  <2>1. Origin(file[k].id, s, k - 1, b, org, policy)
    BY <1>1, <1>4 DEF Basics, RowsOK
  <2>2. file[k].id \in FileIds /\ ~Fresh(file[k].id, s.next)
    BY <1>1 DEF Basics, FileIds
  <2> QED BY <2>1, <2>2 DEF Origin
<1>5. CASE after.error = "duplicate"
  <2>1. file[k].id \in DOMAIN s.rows /\ policy = "abort"
    BY <1>5 DEF Refused
  <2>2. file[k].id \in Sofar(k - 1) => ListedTwice
    <3> SUFFICES ASSUME file[k].id \in Sofar(k - 1) PROVE ListedTwice
      OBVIOUS
    <3>1. PICK j \in 1..(k - 1) : file[j].id = file[k].id
      BY DEF Sofar
    <3>2. j \in DOMAIN file /\ j # k /\ k \in DOMAIN file
      BY <1>1 DEF Basics, FileOK
    <3> QED BY <3>1, <3>2 DEF ListedTwice
  <2> QED BY <1>2, <1>4, <1>5, <2>1, <2>2 DEF FailOK
<1>6. CASE after.error = "org"
  <2>1. file[k].id \in DOMAIN s.rows /\ policy = "update" /\ s.rows[file[k].id].org # org
    BY <1>6 DEF Refused
  <2>2. Origin(file[k].id, s, k - 1, b, org, policy)
    BY <1>1, <2>1 DEF Basics, RowsOK
  <2>3. ~Written(file[k].id, s, k - 1, org)
    BY <2>1 DEF Written
  <2>4. file[k].id \in DOMAIN b.rows /\ b.rows[file[k].id].org # org
    BY <2>1, <2>2, <2>3 DEF Origin
  <2> QED BY <1>2, <1>4, <1>6, <2>1, <2>4 DEF FailOK
<1> QED BY <1>3, <1>5, <1>6 DEF Refused

-----------------------------------------------------------------------------
(* What hangs on a template.                                                *)

(* Links, variables and projects complete a template.                       *)
LEMMA AttachedFold ==
  ASSUME NEW s, NEW k, NEW b, NEW org, NEW policy, FileOK, next \in Nat, Sound(b, next),
         k \in 1..Len(file), Half(s, k, b, org, policy),
         file[k].id.kind = "tpl", s.fate[file[k].id] # "skipped",
         NEW end, end = Attached(s, file[k])
  PROVE  FoldOK(end, k, b, org, policy)
<1> DEFINE item == file[k]
           id == Mapped(s, item.id)
           old == At(s.variables, id, <<>>)
           new == [v \in DOMAIN old \union DOMAIN item.variables |->
                      At(item.variables, v, At(old, v, 0))]
           links == {Mapped(s, g) : g \in item.links}
<1>1. end = [s EXCEPT !.links = With(@, id, links), !.variables = With(@, id, new),
                      !.offered = @ \union {id}]
  BY DEF Attached, Links
<1>2. /\ Shape(s) /\ s.error = "none" /\ s.next \in Nat /\ next <= s.next
      /\ RowsOK(s, k, b, org, policy) /\ MapOK(s, k, policy) /\ FateOK(s, k, b, org, policy)
      /\ \A j \in 1..k : LandedRow(s, file[j], b, org, policy)
      /\ \A j \in 1..k : file[j] # file[k] => LandedRefs(s, file[j])
      /\ RefsOK(s.rows, s.links, s.variables)
      /\ KeptRefs(b.links, s.links, k, policy) /\ KeptRefs(b.variables, s.variables, k, policy)
  BY DEF Half
<1>3. \A v \in DOMAIN item.variables : new[v] = item.variables[v]
  BY DEF At
<1> HIDE DEF id, old, new, links
<1>4. /\ Shape(end) /\ end.error = "none" /\ end.next = s.next
      /\ end.rows = s.rows /\ end.map = s.map /\ end.fate = s.fate
      /\ end.links = With(s.links, id, links) /\ end.variables = With(s.variables, id, new)
      /\ end.offered = s.offered \union {id}
  BY <1>1, <1>2 DEF Shape
<1>5. IsWith(end.links, s.links, id, links) /\ IsWith(end.variables, s.variables, id, new)
  BY <1>4, WithFacts
<1>6. /\ k \in DOMAIN file /\ item.id \in Sofar(k)
      /\ \A j \in DOMAIN file : j < k => file[j].id \in Sofar(k)
  BY SofarFacts
<1>7. id \in DOMAIN s.rows /\ id.kind = "tpl"
  BY <1>2, <1>6, PlaceFacts DEF FateOK, id
<1>8. ASSUME NEW g \in links PROVE g.kind = "group" /\ g \in DOMAIN s.rows
  <2>1. PICK x \in item.links : g = Mapped(s, x)
    BY DEF links
  <2>2. x.kind = "group" /\ x \in Sofar(k)
    BY <1>6, <2>1, FileFacts
  <2>3. Mapped(s, x).kind = "group"
    BY <1>2, <2>2, PlaceFacts
  <2>4. Mapped(s, x) \in DOMAIN s.rows
    BY <1>2, <2>2 DEF FateOK
  <2> QED BY <2>1, <2>3, <2>4
<1>9. RefsOK(end.rows, end.links, end.variables)
  BY <1>2, <1>4, <1>5, <1>7, <1>8 DEF RefsOK, IsWith
<1>10. id \in DOMAIN b.rows => policy = "update" /\ id \in Sofar(k)
  <2> SUFFICES ASSUME id \in DOMAIN b.rows PROVE policy = "update" /\ id \in Sofar(k)
    OBVIOUS
  <2>1. policy = "update"
    BY <1>2, <1>6 DEF FateOK, id
  <2>2. id = item.id
    BY <1>2, <2>1, PlaceFacts DEF id
  <2> QED BY <1>6, <2>1, <2>2
<1>11. ASSUME NEW t, t \in DOMAIN b.links \/ t \in DOMAIN b.variables PROVE t \in DOMAIN b.rows
  BY <1>11 DEF Sound, RefsOK
<1>12. KeptRefs(b.links, end.links, k, policy)
  BY <1>2, <1>5, <1>10, <1>11 DEF KeptRefs, IsWith
<1>13. KeptRefs(b.variables, end.variables, k, policy)
  BY <1>2, <1>5, <1>10, <1>11 DEF KeptRefs, IsWith
<1>14. \A i : Mapped(end, i) = Mapped(s, i)
  BY <1>4 DEF Mapped
<1>15. ASSUME NEW j \in 1..k PROVE LandedRow(end, file[j], b, org, policy)
  BY <1>2, <1>4, <1>14 DEF LandedRow
<1>16. LandedRefs(end, item)
  <2>1. {Mapped(end, g) : g \in item.links} = links
    BY <1>14 DEF links
  <2>2. Mapped(end, item.id) = id
    BY <1>14 DEF id
  <2>3. id \in DOMAIN end.links /\ end.links[id] = links
        /\ id \in DOMAIN end.variables /\ end.variables[id] = new /\ id \in end.offered
    BY <1>4, <1>5 DEF IsWith
  <2> HIDE DEF item
  <2> QED BY <1>3, <2>1, <2>2, <2>3 DEF LandedRefs
<1>17. ASSUME NEW j \in 1..k, file[j] # file[k] PROVE LandedRefs(end, file[j])
  <2> DEFINE p == Mapped(s, file[j].id)
  <2>1. p # id
    BY <1>2, <1>6, <1>17, PlacesApart DEF FileOK, id
  <2>2. LandedRefs(s, file[j])
    BY <1>2, <1>17
  <2>3. {Mapped(end, g) : g \in file[j].links} = {Mapped(s, g) : g \in file[j].links}
    BY <1>14
  <2>4. Mapped(end, file[j].id) = p /\ Mapped(s, file[j].id) = p
    BY <1>14
  <2> HIDE DEF p
  <2>5. p \in DOMAIN s.links => p \in DOMAIN end.links /\ end.links[p] = s.links[p]
    BY <1>5, <2>1 DEF IsWith
  <2>6. p \in DOMAIN s.variables => p \in DOMAIN end.variables /\ end.variables[p] = s.variables[p]
    BY <1>5, <2>1 DEF IsWith
  <2> QED BY <1>4, <2>2, <2>3, <2>4, <2>5, <2>6 DEF LandedRefs
<1>18. RowsOK(end, k, b, org, policy)
  <2>1. ASSUME NEW i \in DOMAIN end.rows PROVE Origin(i, end, k, b, org, policy)
    <3>1. Origin(i, s, k, b, org, policy)
      BY <1>2, <1>4 DEF RowsOK
    <3> QED BY <1>4, <3>1 DEF Origin, Written
  <2> QED BY <1>2, <1>4, <2>1 DEF RowsOK
<1>19. MapOK(end, k, policy) /\ FateOK(end, k, b, org, policy)
  BY <1>2, <1>4, <1>14 DEF MapOK, FateOK
<1>20. \A j \in 1..k : LandedRow(end, file[j], b, org, policy) /\ LandedRefs(end, file[j])
  BY <1>15, <1>16, <1>17
<1> QED BY <1>2, <1>4, <1>9, <1>12, <1>13, <1>18, <1>19, <1>20 DEF FoldOK

(* What is not a template has none.                                         *)
LEMMA HalfIsAll ==
  ASSUME NEW s, NEW k, NEW b, NEW org, NEW policy, Half(s, k, b, org, policy),
         ~(file[k].id.kind = "tpl" /\ s.fate[file[k].id] # "skipped")
  PROVE  FoldOK(s, k, b, org, policy)
<1>1. LandedRefs(s, file[k])
  BY DEF LandedRefs
<1> QED BY <1>1 DEF Half, FoldOK

(* One row of the file, from whatever the rows before it left.              *)
LEMMA ItemStep ==
  ASSUME NEW s, NEW k, NEW b, NEW org, NEW policy, Importing(s, k, b, org, policy),
         NEW end, end = ImportItem(s, file[k], org, policy)
  PROVE  RunOK(end, k, b, org, policy)
<1> DEFINE item == file[k]
           row == Imported(s, item, org, NewName(s.rows, item, org, policy))
           after == ImportRow(s, item, org, policy)
<1>1. /\ Shape(s) /\ s.error = "none" /\ policy \in Policies
      /\ FileOK /\ next \in Nat /\ Sound(b, next) /\ k \in 1..Len(file)
  BY DEF Importing, FoldOK
<1>2. end = IF item.id.kind = "tpl" /\ after.error = "none" /\ after.fate[item.id] # "skipped"
            THEN Attached(after, item) ELSE after
  BY <1>1 DEF ImportItem
<1>3. \/ Created(s, after, item, row) \/ Rewritten(s, after, item, row, org, policy)
      \/ Copied(s, after, item, row, policy) \/ Passed(s, after, item, org, policy)
      \/ Refused(s, after, item, row, org, policy)
  BY <1>1, ImportRowCases
<1>4. RowMade(s, k, row, org)
  BY ImportedFacts
<1>5. row = Imported(s, file[k], org, NewName(s.rows, file[k], org, policy))
  OBVIOUS
<1> HIDE DEF row, after, item
<1>6. item = file[k]
  BY DEF item
<1>7. CASE Refused(s, after, item, row, org, policy)
  <2>1. FailOK(after, b, org, policy)
    BY <1>5, <1>6, <1>7, RefusedFails
  <2>2. after.error # "none"
    BY <2>1 DEF FailOK
  <2>3. end = after
    BY <1>2, <2>2
  <2> QED BY <2>1, <2>3 DEF RunOK
<1>8. ASSUME Half(after, k, b, org, policy) PROVE RunOK(end, k, b, org, policy)
  <2>1. after.error = "none"
    BY <1>8 DEF Half
  <2>2. CASE item.id.kind = "tpl" /\ after.fate[item.id] # "skipped"
    <3>1. end = Attached(after, item)
      BY <1>2, <2>1, <2>2
    <3>2. FoldOK(end, k, b, org, policy)
      BY <1>1, <1>6, <1>8, <2>2, <3>1, AttachedFold
    <3> QED BY <3>2 DEF RunOK
  <2>3. CASE ~(item.id.kind = "tpl" /\ after.fate[item.id] # "skipped")
    <3>1. end = after
      BY <1>2, <2>3
    <3>2. FoldOK(after, k, b, org, policy)
      BY <1>6, <1>8, <2>3, HalfIsAll
    <3> QED BY <3>1, <3>2 DEF RunOK
  <2> QED BY <2>2, <2>3
<1>9. CASE Passed(s, after, item, org, policy)
  <2>1. Half(after, k, b, org, policy)
    BY <1>6, <1>9, PassedHalf
  <2> QED BY <1>8, <2>1
<1>10. CASE Created(s, after, item, row)
  <2>1. Storing(s, after, k, b, org, policy, item.id, row, "created")
    BY <1>4, <1>6, <1>10 DEF Storing, Created, Target
  <2>2. Half(after, k, b, org, policy)
    BY <2>1, StoredHalf
  <2> QED BY <1>8, <2>2
<1>11. CASE Rewritten(s, after, item, row, org, policy)
  <2>1. Storing(s, after, k, b, org, policy, item.id, row, "updated")
    BY <1>4, <1>6, <1>11 DEF Storing, Rewritten, Target
  <2>2. Half(after, k, b, org, policy)
    BY <2>1, StoredHalf
  <2> QED BY <1>8, <2>2
<1>12. CASE Copied(s, after, item, row, policy)
  <2>1. Storing(s, after, k, b, org, policy, Id(item.id.kind, s.next), row, "copied")
    BY <1>4, <1>6, <1>12 DEF Storing, Copied, Target
  <2>2. Half(after, k, b, org, policy)
    BY <2>1, StoredHalf
  <2> QED BY <1>8, <2>2
<1> QED BY <1>3, <1>7, <1>9, <1>10, <1>11, <1>12

(* A set of numbers has a least one.                                        *)
LEMMA LeastOf == ASSUME NEW T \in SUBSET Nat, T # {} PROVE \E n \in T : \A m \in T : n <= m
<1> DEFINE U == {1..n : n \in T}
           R == StrictSubsetOrdering(Nat)
           F == FiniteSubsetsOf(Nat)
<1>1. IsWellFoundedOn(R, F) BY FS_StrictSubsetOrderingWellFounded
<1>2. U \subseteq F
  BY FS_Interval DEF FiniteSubsetsOf
<1>2a. U # {} OBVIOUS
<1>3. \E x \in U : \A y \in U : <<y, x>> \notin R
  <2> HIDE DEF R, U, F
  <2> QED BY <1>1, <1>2, <1>2a, WFMin
<1>4. PICK n \in T : \A m \in T : <<1..m, 1..n>> \notin R
  BY <1>3
<1>5. ASSUME NEW m \in T, m < n PROVE <<1..m, 1..n>> \in R
  <2>1. 1..m \in SUBSET Nat /\ 1..n \in SUBSET Nat OBVIOUS
  <2>2. n \in 1..n /\ n \notin 1..m /\ 1..m \subseteq 1..n BY <1>5
  <2> QED BY <2>1, <2>2 DEF StrictSubsetOrdering
<1>6. \A m \in T : ~(m < n)
  <2> HIDE DEF R, U, F
  <2> QED BY <1>4, <1>5
<1>7. n \in Nat /\ \A m \in T : m \in Nat
  OBVIOUS
<1> HIDE DEF R, U, F
<1> QED BY <1>6, <1>7

(* Induction up to n, for the numbers in G.                                 *)
LEMMA UpTo ==
  ASSUME NEW n \in Nat, NEW G, 0 \in G, \A k \in 1..n : k - 1 \in G => k \in G
  PROVE  0..n \subseteq G
<1> SUFFICES ASSUME ~(0..n \subseteq G) PROVE FALSE
  OBVIOUS
<1> DEFINE T == (0..n) \ G
<1>1. T \in SUBSET Nat /\ T # {}
  OBVIOUS
<1>2. PICK k \in T : \A m \in T : k <= m
  <2> HIDE DEF T
  <2> QED BY <1>1, LeastOf
<1> QED BY <1>2

-----------------------------------------------------------------------------
(* The whole file.                                                          *)

Loop(f, m, site, org, policy) ==
    f = [k \in 0..m |-> IF k = 0 THEN Began(site) ELSE ImportItem(f[k - 1], file[k], org, policy)]

(* The recursion of ImportAll has a value, by taking the least number of    *)
(* rows for which there is none.                                            *)
LEMMA LoopExists ==
  ASSUME Len(file) \in Nat, NEW site, NEW org, NEW policy
  PROVE  \E f : Loop(f, Len(file), site, org, policy)
<1> DEFINE n == Len(file)
           G == {m \in 0..n : \E f : Loop(f, m, site, org, policy)}
<1> HIDE DEF n
<1>1. n \in Nat
  BY DEF n
<1>2. 0 \in G
  <2> DEFINE f == [k \in 0..0 |-> Began(site)]
  <2>1. Loop(f, 0, site, org, policy)
    BY DEF Loop
  <2> QED BY <1>1, <2>1
<1>3. ASSUME NEW m \in 1..n, m - 1 \in G PROVE m \in G
  <2>1. PICK f : Loop(f, m - 1, site, org, policy)
    BY <1>3
  <2> DEFINE g == [k \in 0..m |-> IF k = m THEN ImportItem(f[m - 1], file[m], org, policy) ELSE f[k]]
  <2>2. m \in Nat /\ m # 0
    BY <1>1
  <2>3. ASSUME NEW k \in 0..m
        PROVE  g[k] = IF k = 0 THEN Began(site) ELSE ImportItem(g[k - 1], file[k], org, policy)
    <3>1. CASE k = m
      <4>1. m - 1 \in 0..m /\ m - 1 # m
        BY <2>2
      <4>2. g[m - 1] = f[m - 1]
        BY <4>1
      <4> QED BY <2>2, <3>1, <4>2
    <3>2. CASE k # m
      <4>1. k \in 0..(m - 1)
        BY <2>2, <3>2
      <4>2. f[k] = IF k = 0 THEN Began(site) ELSE ImportItem(f[k - 1], file[k], org, policy)
        BY <2>1, <4>1 DEF Loop
      <4>3. g[k] = f[k]
        BY <3>2
      <4>4. k # 0 => g[k - 1] = f[k - 1]
        <5> SUFFICES ASSUME k # 0 PROVE g[k - 1] = f[k - 1]
          OBVIOUS
        <5>1. k - 1 \in 0..m /\ k - 1 # m
          BY <2>2, <3>2
        <5> QED BY <5>1
      <4> HIDE DEF g
      <4> QED BY <4>2, <4>3, <4>4
    <3> QED BY <3>1, <3>2
  <2>4. g = [k \in 0..m |-> g[k]]
    OBVIOUS
  <2>5. Loop(g, m, site, org, policy)
    <3> HIDE DEF g
    <3> QED BY <2>3, <2>4 DEF Loop
  <2> HIDE DEF g
  <2> QED BY <1>3, <2>5
<1>4. n \in G
  <2>1. \A k \in 1..n : k - 1 \in G => k \in G
    BY <1>3
  <2> HIDE DEF G
  <2> QED BY <1>1, <1>2, <2>1, UpTo
<1> QED BY <1>4 DEF n

LEMMA ImportAllIsLoop ==
  ASSUME Len(file) \in Nat, NEW site, NEW org, NEW policy
  PROVE  \E f : /\ Loop(f, Len(file), site, org, policy)
                /\ ImportAll(site, org, policy) = f[Len(file)]
<1> DEFINE run == CHOOSE f : Loop(f, Len(file), site, org, policy)
<1>1. ImportAll(site, org, policy) = run[Len(file)]
  BY DEF ImportAll, Loop
<1>2. Loop(run, Len(file), site, org, policy)
  BY LoopExists
<1> QED BY <1>1, <1>2

LEMMA BeganOK ==
  ASSUME NEW site, NEW org, NEW policy, Sound(db[site], next), next \in Nat
  PROVE  FoldOK(Began(site), 0, db[site], org, policy)
<1> DEFINE s == Began(site)
           b == db[site]
<1>1. /\ Shape(s) /\ s.error = "none" /\ s.next = next /\ s.rows = b.rows /\ s.links = b.links
      /\ s.variables = b.variables /\ s.map = <<>> /\ s.fate = <<>>
  BY DEF Began, Shape
<1>2. Sofar(0) = {} /\ 1..0 = {}
  BY DEF Sofar
<1>3. /\ b.rows = [i \in DOMAIN b.rows |-> b.rows[i]] /\ IsFiniteSet(DOMAIN b.rows)
      /\ RefsOK(b.rows, b.links, b.variables)
  BY DEF Sound
<1>4. DOMAIN <<>> = {} /\ <<>> = [i \in {} |-> <<>>[i]]
  OBVIOUS
<1> HIDE DEF s, b
<1>5. RowsOK(s, 0, b, org, policy)
  BY <1>1, <1>3 DEF RowsOK, Origin
<1>6. MapOK(s, 0, policy)
  BY <1>1, <1>4 DEF MapOK
<1>7. FateOK(s, 0, b, org, policy)
  BY <1>1, <1>2, <1>4 DEF FateOK
<1>8. KeptRefs(b.links, s.links, 0, policy) /\ KeptRefs(b.variables, s.variables, 0, policy)
  BY <1>1 DEF KeptRefs
<1>9. FoldOK(s, 0, b, org, policy)
  BY <1>1, <1>2, <1>3, <1>5, <1>6, <1>7, <1>8 DEF FoldOK
<1> QED BY <1>9 DEF s, b

(* All rows of the file: the least row after which it does not hold is      *)
(* none.                                                                    *)
LEMMA ImportAllOK ==
  ASSUME FileOK, next \in Nat, NEW site, NEW org \in Orgs, NEW policy \in Policies,
         Sound(db[site], next)
  PROVE  RunOK(ImportAll(site, org, policy), Len(file), db[site], org, policy)
<1> DEFINE n == Len(file)
           b == db[site]
<1>1. n \in Nat
  BY DEF FileOK
<1>2. PICK f : Loop(f, n, site, org, policy) /\ ImportAll(site, org, policy) = f[n]
  BY <1>1, ImportAllIsLoop
<1> DEFINE G == {k \in 0..n : RunOK(f[k], k, b, org, policy)}
<1>3. 0 \in G
  <2>1. f[0] = Began(site) /\ 0 \in 0..n
    BY <1>1, <1>2 DEF Loop
  <2>2. FoldOK(f[0], 0, b, org, policy)
    BY <2>1, BeganOK
  <2> QED BY <2>1, <2>2 DEF RunOK
<1>4. ASSUME NEW k \in 1..n, k - 1 \in G PROVE k \in G
  <2>1. f[k] = ImportItem(f[k - 1], file[k], org, policy) /\ k \in 0..n
    BY <1>1, <1>2 DEF Loop
  <2>2. CASE FoldOK(f[k - 1], k - 1, b, org, policy)
    <3>1. Importing(f[k - 1], k, b, org, policy)
      BY <2>2 DEF Importing
    <3>2. RunOK(f[k], k, b, org, policy)
      BY <2>1, <3>1, ItemStep
    <3> QED BY <2>1, <3>2
  <2>3. CASE FailOK(f[k - 1], b, org, policy)
    <3>1. f[k - 1].error # "none"
      BY <2>3 DEF FailOK
    <3>2. f[k] = f[k - 1]
      BY <2>1, <3>1 DEF ImportItem
    <3> QED BY <2>1, <2>3, <3>2 DEF RunOK
  <2> QED BY <1>4, <2>2, <2>3 DEF RunOK
<1>5. n \in G
  <2>1. \A k \in 1..n : k - 1 \in G => k \in G
    BY <1>4
  <2> HIDE DEF G, n
  <2> QED BY <1>1, <1>3, <2>1, UpTo
<1> QED BY <1>2, <1>5

-----------------------------------------------------------------------------
(* Growing.                                                                 *)

(* A database stays sound while identifiers are given.                      *)
LEMMA SoundGrows ==
  ASSUME NEW d, NEW m \in Nat, NEW n \in Nat, m <= n, Sound(d, m)
  PROVE  Sound(d, n)
<1>1. ASSUME NEW i \in DOMAIN d.rows PROVE i \in Ids /\ i.n < n /\ RowOK(i, d.rows[i], n)
  <2>1. i \in Ids /\ i.n < m /\ RowOK(i, d.rows[i], m)
    BY DEF Sound
  <2>2. i.n \in Nat
    BY <2>1 DEF Ids
  <2> QED BY <2>1, <2>2, RowGrows
<1> QED BY <1>1 DEF Sound

(* So does what the file says.                                              *)
LEMMA ItemGrows ==
  ASSUME NEW item, NEW m \in Nat, NEW n \in Nat, m <= n, ItemOK(item, m)
  PROVE  ItemOK(item, n)
<1>1. item.id \in Ids /\ item.id.n < m
  BY DEF ItemOK
<1>2. item.id.n \in Nat
  BY <1>1 DEF Ids
<1>3. item.id.kind = "tpl" => item.row.vcs.n \in Nat /\ item.row.vcs.n < m
  <2>1. item.id.kind = "tpl" => item.row.vcs \in Ids /\ item.row.vcs.n < m
    BY DEF ItemOK
  <2>2. item.row.vcs \in Ids => item.row.vcs.n \in Nat
    BY DEF Ids
  <2> QED BY <2>1, <2>2
<1>4. item.id.n < n
  BY <1>1, <1>2
<1>5. item.id.kind = "tpl" => item.row.vcs.n < n
  BY <1>3
<1> QED BY <1>4, <1>5 DEF ItemOK

(* While the file stays, identifiers and what is raced only grow.           *)
LEMMA FileStays ==
  ASSUME FileOK, next \in Nat, next' \in Nat, next <= next', raced \subseteq raced', file' = file
  PROVE  FileOK'
<1>1. ASSUME NEW k \in DOMAIN file PROVE ItemOK(file[k], next')
  BY ItemGrows DEF FileOK
<1>2. FileIds' = FileIds
  BY DEF FileIds
<1>3. \A k \in DOMAIN file : ItemOK(file[k], next)'
  BY <1>1 DEF ItemOK
<1> QED BY <1>2, <1>3 DEF FileOK

-----------------------------------------------------------------------------
(* What an import does.                                                     *)

GoingOK ==
    \A x \in going : x[2].n < next /\ (x[2] \in raced \/ ~Used(db[x[1]], x[2]))

IInv == TablesOK /\ FileOK /\ HasService /\ GoingOK

(* What the transaction leaves is sound.                                    *)
Committed(s) == [rows |-> s.rows, links |-> s.links, variables |-> s.variables,
                 offered |-> s.offered]
(* What an import commits is sound.                                         *)
LEMMA CommittedSound ==
  ASSUME FileOK, next \in Nat, NEW s, NEW b, NEW org, NEW policy, Sound(b, next),
         FoldOK(s, Len(file), b, org, policy)
  PROVE  Sound(Committed(s), s.next)
<1> DEFINE d == Committed(s)
<1>1. /\ d = [rows |-> d.rows, links |-> d.links, variables |-> d.variables, offered |-> d.offered]
      /\ d.rows = s.rows /\ d.links = s.links /\ d.variables = s.variables
  BY DEF Committed
<1>2. /\ s.next \in Nat /\ next <= s.next
      /\ RowsOK(s, Len(file), b, org, policy) /\ RefsOK(s.rows, s.links, s.variables)
  BY DEF FoldOK
<1>3. ASSUME NEW i \in DOMAIN s.rows
      PROVE  i \in Ids /\ i.n < s.next /\ RowOK(i, s.rows[i], s.next)
  <2>1. Origin(i, s, Len(file), b, org, policy)
    BY <1>2 DEF RowsOK
  <2>2. CASE i \in DOMAIN b.rows
    <3>1. i \in Ids /\ i.n < next /\ RowOK(i, b.rows[i], next)
      BY <2>2 DEF Sound
    <3>2. i.n \in Nat
      BY <3>1 DEF Ids
    <3>3. RowOK(i, b.rows[i], s.next)
      BY <1>2, <3>1, RowGrows
    <3> QED BY <1>2, <2>1, <3>1, <3>2, <3>3 DEF Origin, Written
  <2>3. CASE i \notin DOMAIN b.rows
    <3>1. Written(i, s, Len(file), org) /\ (i \in Sofar(Len(file)) \/ Fresh(i, s.next))
      BY <2>1, <2>3 DEF Origin
    <3>2. i \in Sofar(Len(file)) => i \in Ids /\ i.n < s.next
      <4> SUFFICES ASSUME i \in Sofar(Len(file)) PROVE i \in Ids /\ i.n < s.next
        OBVIOUS
      <4>1. PICK j \in DOMAIN file : i = file[j].id
        BY DEF Sofar, FileOK
      <4>2. i \in Ids /\ i.n < next
        BY <4>1 DEF FileOK, ItemOK
      <4>3. i.n \in Nat
        BY <4>2 DEF Ids
      <4> QED BY <1>2, <4>2, <4>3
    <3>3. Fresh(i, s.next) => i \in Ids /\ i.n < s.next
      BY DEF Fresh
    <3> QED BY <3>1, <3>2, <3>3 DEF Written
  <2> QED BY <2>2, <2>3
<1> HIDE DEF d
<1>4. Sound(d, s.next)
  BY <1>1, <1>2, <1>3 DEF Sound, RowsOK
<1> QED BY <1>4 DEF d

(* A template keeps its service, or has one of the file, or a new one.      *)
LEMMA ServiceOfCommitted ==
  ASSUME NEW s, NEW k, NEW b, NEW org, NEW policy, RowsOK(s, k, b, org, policy),
         NEW t \in DOMAIN s.rows, t.kind = "tpl"
  PROVE  LET v == s.rows[t].vcs IN
         \/ t \in DOMAIN b.rows /\ s.rows[t] = b.rows[t]
         \/ v \in DOMAIN s.rows \union raced /\ (v \in FileIds \union raced \/ next <= v.n)
<1>1. Origin(t, s, k, b, org, policy)
  BY DEF RowsOK
<1> QED BY <1>1 DEF Origin, Written

(* An import keeps the invariant.                                           *)
LEMMA ImportInv ==
  ASSUME IInv, NEW site \in Sites, NEW org \in Orgs, NEW policy \in Policies,
         Import(site, org, policy)
  PROVE  IInv'
<1> DEFINE end == ImportAll(site, org, policy)
           b == db[site]
           n == Len(file)
<1>1. /\ next \in Nat /\ clock \in Nat /\ FileOK /\ HasService /\ GoingOK
      /\ db = [x \in Sites |-> db[x]] /\ \A x \in Sites : Sound(db[x], next)
      /\ going \subseteq Sites \X {v \in Ids : v.kind = "vcs"}
  BY DEF IInv, TablesOK
<1>2. RunOK(end, n, b, org, policy)
  BY <1>1, ImportAllOK
<1> DEFINE d == Committed(end)
<1>3. /\ db' = IF end.error # "none" THEN db ELSE [db EXCEPT ![site] = d]
      /\ last'.policy = policy /\ next' = end.next
      /\ raced' = raced \union {file[k].id : k \in {j \in DOMAIN file : <<site, file[j].id>> \in going}}
      /\ file' = file /\ going' = going /\ clock' = clock
  BY DEF Import, Committed
<1> HIDE DEF end, b, n, d
<1>4. next' \in Nat /\ next <= next'
  BY <1>2, <1>3 DEF RunOK, FoldOK, FailOK
<1>5. raced \subseteq raced'
  BY <1>3
<1>6. FileOK'
  BY <1>1, <1>3, <1>4, <1>5, FileStays
<1>7. \A x \in Sites : Sound(db[x], next')
  BY <1>1, <1>4, SoundGrows
<1>8. going' \subseteq Sites \X {v \in Ids : v.kind = "vcs"}
  BY <1>1, <1>3
<1>9. ASSUME NEW x \in going PROVE x[2].n < next' /\ x[2].n \in Nat /\ x[2].n < next
  <2>1. x[2] \in Ids /\ x[2].n < next
    BY <1>1 DEF GoingOK
  <2>2. x[2].n \in Nat
    BY <2>1 DEF Ids
  <2> QED BY <1>1, <1>4, <2>1, <2>2
<1>10. CASE end.error # "none"
  <2>1. db' = db
    BY <1>3, <1>10
  <2>2. TablesOK'
    BY <1>1, <1>3, <1>4, <1>7, <1>8, <2>1 DEF TablesOK, Sound
  <2>3. HasService'
    BY <1>1, <1>5, <2>1 DEF HasService, Templates
  <2>4. GoingOK'
    <3> SUFFICES ASSUME NEW x \in going PROVE x[2] \in raced' \/ ~Used(db[x[1]], x[2])
      BY <1>3, <1>9, <2>1 DEF GoingOK, Used, Templates
    <3> QED BY <1>1, <1>5 DEF GoingOK
  <2> QED BY <1>6, <2>2, <2>3, <2>4 DEF IInv
<1>11. CASE end.error = "none"
  <2>1. FoldOK(end, n, b, org, policy)
    BY <1>2, <1>11 DEF RunOK, FailOK
  <2>2. Sound(d, next')
    BY <1>1, <1>3, <2>1, CommittedSound DEF b, n, d
  <2>3. /\ db' = [x \in Sites |-> db'[x]] /\ db'[site] = d
        /\ \A x \in Sites : x # site => db'[x] = db[x]
    BY <1>1, <1>3, <1>11
  <2>4. \A x \in Sites : Sound(db'[x], next')
    BY <1>7, <2>2, <2>3
  <2>5. TablesOK'
    BY <1>1, <1>3, <1>4, <1>8, <2>3, <2>4 DEF TablesOK, Sound
  <2>6. d.rows = end.rows
    BY DEF d, Committed
  <2>7. RowsOK(end, n, b, org, policy) /\ DOMAIN b.rows \subseteq DOMAIN end.rows
    BY <2>1 DEF FoldOK, RowsOK
  <2>8. ASSUME NEW o \in Orgs, NEW t \in Templates(d, o)
        PROVE  d.rows[t].vcs \in DOMAIN d.rows \/ d.rows[t].vcs \in raced
    <3>1. t \in DOMAIN end.rows /\ t.kind = "tpl" /\ end.rows[t].org = o /\ end.rows[t].alive
      BY <2>6 DEF Templates
    <3>2. CASE t \in DOMAIN b.rows /\ end.rows[t] = b.rows[t]
      <4>1. t \in Templates(db[site], o)
        BY <3>1, <3>2 DEF Templates, b
      <4>2. b.rows[t].vcs \in DOMAIN b.rows \/ b.rows[t].vcs \in raced
        BY <1>1, <4>1 DEF HasService, b
      <4> QED BY <2>6, <2>7, <3>2, <4>2
    <3> QED BY <2>6, <2>7, <3>1, <3>2, ServiceOfCommitted
  <2>9. HasService'
    <3> SUFFICES ASSUME NEW x \in Sites, NEW o \in Orgs, NEW t \in Templates(db'[x], o)
                 PROVE  db'[x].rows[t].vcs \in DOMAIN db'[x].rows \/ db'[x].rows[t].vcs \in raced'
      BY DEF HasService, Templates
    <3>1. CASE x = site
      BY <1>5, <2>3, <2>8, <3>1
    <3>2. CASE x # site
      BY <1>1, <1>5, <2>3, <3>2 DEF HasService
    <3> QED BY <3>1, <3>2
  <2>10. ASSUME NEW x \in going, x[1] = site, Used(d, x[2]) PROVE x[2] \in raced'
    <3>1. PICK o \in Orgs : \E t \in Templates(d, o) : d.rows[t].vcs = x[2]
      BY <2>10 DEF Used
    <3>2. PICK t \in Templates(d, o) : d.rows[t].vcs = x[2]
      BY <3>1
    <3>3. /\ t \in DOMAIN end.rows /\ t.kind = "tpl" /\ end.rows[t].org = o /\ end.rows[t].alive
          /\ end.rows[t].vcs = x[2]
      BY <2>6, <3>2 DEF Templates
    <3>4. CASE t \in DOMAIN b.rows /\ end.rows[t] = b.rows[t]
      <4>1. Used(db[x[1]], x[2])
        BY <2>10, <3>3, <3>4 DEF Used, Templates, b
      <4> QED BY <1>1, <1>5, <4>1 DEF GoingOK
    <3>5. CASE x[2] \in FileIds \union raced \/ next <= x[2].n
      <4>1. x[2] \in FileIds \union raced
        BY <1>1, <1>9, <3>5
      <4>2. CASE x[2] \in FileIds
        <5>1. PICK k \in DOMAIN file : file[k].id = x[2]
          BY <4>2 DEF FileIds
        <5>2. x = <<site, file[k].id>>
          BY <1>1, <2>10, <5>1
        <5> QED BY <1>3, <5>1, <5>2
      <4> QED BY <1>5, <4>1, <4>2
    <3> QED BY <2>7, <3>3, <3>4, <3>5, ServiceOfCommitted
  <2>11. GoingOK'
    <3> SUFFICES ASSUME NEW x \in going PROVE x[2] \in raced' \/ ~Used(db'[x[1]], x[2])
      BY <1>3, <1>9 DEF GoingOK, Used, Templates
    <3>1. CASE x[1] = site
      BY <2>3, <2>10, <3>1
    <3>2. CASE x[1] # site
      BY <1>1, <1>5, <2>3, <3>2 DEF GoingOK
    <3> QED BY <3>1, <3>2
  <2> QED BY <1>6, <2>5, <2>9, <2>11 DEF IInv
<1> QED BY <1>10, <1>11

(* What an import leaves behind, and says of itself.                        *)
Imports(site, org, policy, s) ==
    /\ last' = [count |-> last.count + 1, site |-> site, org |-> org, policy |-> policy,
                result |-> s.error, map |-> s.map, fate |-> s.fate, before |-> db[site]]
    /\ db'[site] = IF s.error # "none" THEN db[site] ELSE Committed(s)
    /\ file' = file /\ raced \subseteq raced'
    /\ FileOK /\ next \in Nat /\ Sound(db[site], next) /\ policy \in Policies
    /\ RunOK(s, Len(file), db[site], org, policy)

(* An import is a run over all rows of the file.                            *)
LEMMA ImportFacts ==
  ASSUME IInv, NEW site \in Sites, NEW org \in Orgs, NEW policy \in Policies,
         Import(site, org, policy)
  PROVE  \E s : Imports(site, org, policy, s)
<1> DEFINE s == ImportAll(site, org, policy)
<1>1. /\ next \in Nat /\ FileOK /\ db = [x \in Sites |-> db[x]] /\ Sound(db[site], next)
  BY DEF IInv, TablesOK
<1>2. RunOK(s, Len(file), db[site], org, policy)
  BY <1>1, ImportAllOK
<1>3. /\ db' = IF s.error # "none" THEN db ELSE [db EXCEPT ![site] = Committed(s)]
      /\ last' = [count |-> last.count + 1, site |-> site, org |-> org, policy |-> policy,
                  result |-> s.error, map |-> s.map, fate |-> s.fate, before |-> db[site]]
      /\ file' = file /\ raced \subseteq raced'
  BY DEF Import, Committed
<1> HIDE DEF s
<1>4. db'[site] = IF s.error # "none" THEN db[site] ELSE Committed(s)
  BY <1>1, <1>3
<1>5. Imports(site, org, policy, s)
  BY <1>1, <1>2, <1>3, <1>4 DEF Imports
<1> QED BY <1>5

(* What last says, by field.                                                *)
Tells(site, org, policy, s) ==
    /\ last'.site = site /\ last'.org = org /\ last'.policy = policy /\ last'.result = s.error
    /\ last'.map = s.map /\ last'.fate = s.fate /\ last'.before = db[site]
LEMMA ImportTells ==
  ASSUME NEW site, NEW org, NEW policy, NEW s, Imports(site, org, policy, s)
  PROVE  Tells(site, org, policy, s)
  BY DEF Imports, Tells

(* After it what was not skipped has landed,                                *)
LEMMA ImportLands ==
  ASSUME NEW site, NEW org, NEW policy, NEW s, Imports(site, org, policy, s)
  PROVE  Landed'
<1> DEFINE b == db[site]
           d == db'[site]
           n == Len(file)
<1>1. /\ Tells(site, org, policy, s) /\ file' = file /\ FileOK
  BY ImportTells DEF Imports
<1>2. SUFFICES ASSUME s.error = "none" PROVE Landed'
  BY <1>1 DEF Landed, Done, Tells
<1>3. FoldOK(s, n, b, org, policy)
  BY <1>2 DEF Imports, RunOK, FailOK
<1>4. d = Committed(s)
  BY <1>2 DEF Imports
<1>5. d.rows = s.rows /\ d.links = s.links /\ d.variables = s.variables /\ d.offered = s.offered
  BY <1>4 DEF Committed
<1>6. Now' = d
  BY <1>1 DEF Now, Tells
<1> HIDE DEF b, d, n
<1>7. ASSUME NEW i PROVE Place(i)' = Mapped(s, i)
  BY <1>1 DEF Place, Mapped, Tells
<1>8. Items' = Items /\ Exported' = Exported
  BY <1>1 DEF Items, Exported
<1>9. ASSUME NEW item \in Items PROVE LandedRow(s, item, b, org, policy) /\ LandedRefs(s, item)
  <2>1. PICK k \in 1..n : item = file[k]
    BY <1>1 DEF Items, FileOK, n
  <2> QED BY <1>3, <2>1 DEF FoldOK
<1>10. ASSUME NEW item \in Items, s.fate[item.id] # "skipped",
              ~(Mapped(s, item.id) \in DOMAIN b.rows /\ ~b.rows[Mapped(s, item.id)].alive)
       PROVE  LET id == Mapped(s, item.id) IN
              /\ id \in DOMAIN s.rows /\ s.rows[id].alive /\ s.rows[id].org = org
              /\ s.rows[id].body = item.row.body
              /\ item \in Exported => s.rows[id].vcs = Mapped(s, item.row.vcs)
  <2>1. LandedRow(s, item, b, org, policy)
    BY <1>9
  <2>2. Mapped(s, item.id) \in DOMAIN s.rows
    <3>1. PICK k \in 1..n : item = file[k]
      BY <1>1 DEF Items, FileOK, n
    <3>2. item.id \in Sofar(n)
      BY <3>1 DEF Sofar
    <3> QED BY <1>3, <3>2 DEF FoldOK, FateOK
  <2> QED BY <1>10, <2>1, <2>2 DEF LandedRow, Exported
<1>11. ASSUME NEW item \in Exported, s.fate[item.id] # "skipped"
       PROVE  LET id == Mapped(s, item.id) IN
              /\ s.links[id] = {Mapped(s, g) : g \in item.links}
              /\ \A v \in DOMAIN item.variables : s.variables[id][v] = item.variables[v]
              /\ id \in s.offered
  <2>1. item \in Items /\ item.id.kind = "tpl"
    BY DEF Exported
  <2>2. LandedRefs(s, item)
    BY <1>9, <2>1
  <2> QED BY <1>11, <2>1, <2>2 DEF LandedRefs
<1>12. last'.fate = s.fate /\ last'.org = org /\ last'.before = b
  BY <1>1 DEF Tells, b
<1>13. ASSUME NEW item \in Items, last'.fate[item.id] # "skipped", ~Deleted(Place(item.id))'
       PROVE  /\ Place(item.id)' \in DOMAIN d.rows
              /\ d.rows[Place(item.id)'].alive /\ d.rows[Place(item.id)'].org = org
              /\ d.rows[Place(item.id)'].body = item.row.body
              /\ item \in Exported => d.rows[Place(item.id)'].vcs = Place(item.row.vcs)'
  <2>1. Place(item.id)' = Mapped(s, item.id) /\ Place(item.row.vcs)' = Mapped(s, item.row.vcs)
    BY <1>7
  <2>2. ~(Mapped(s, item.id) \in DOMAIN b.rows /\ ~b.rows[Mapped(s, item.id)].alive)
    BY <1>12, <1>13, <2>1 DEF Deleted
  <2> QED BY <1>5, <1>10, <1>12, <1>13, <2>1, <2>2
<1>14. ASSUME NEW item \in Exported, last'.fate[item.id] # "skipped"
       PROVE  /\ d.links[Place(item.id)'] = {Place(g)' : g \in item.links}
              /\ \A v \in DOMAIN item.variables :
                    d.variables[Place(item.id)'][v] = item.variables[v]
              /\ Place(item.id)' \in d.offered
  <2>1. {Place(g)' : g \in item.links} = {Mapped(s, g) : g \in item.links}
    BY <1>7
  <2>2. Place(item.id)' = Mapped(s, item.id)
    BY <1>7
  <2> QED BY <1>5, <1>11, <1>12, <1>14, <2>1, <2>2
<1>15. \A item \in Items' :
          last'.fate[item.id] # "skipped" /\ ~Deleted(Place(item.id))' =>
             /\ Place(item.id)' \in DOMAIN Now'.rows
             /\ Now'.rows[Place(item.id)'].alive /\ Now'.rows[Place(item.id)'].org = last'.org
             /\ Now'.rows[Place(item.id)'].body = item.row.body
             /\ item \in Exported' => Now'.rows[Place(item.id)'].vcs = Place(item.row.vcs)'
  BY <1>6, <1>8, <1>12, <1>13
<1>16. \A item \in Exported' :
          last'.fate[item.id] # "skipped" =>
             /\ Now'.links[Place(item.id)'] = {Place(g)' : g \in item.links}
             /\ \A v \in DOMAIN item.variables :
                   Now'.variables[Place(item.id)'][v] = item.variables[v]
             /\ Place(item.id)' \in Now'.offered
  BY <1>6, <1>8, <1>14
<1> QED BY <1>15, <1>16 DEF Landed

(* the rest is kept,                                                        *)
LEMMA ImportKeeps ==
  ASSUME NEW site, NEW org, NEW policy, NEW s, Imports(site, org, policy, s)
  PROVE  KeepsTheRest'
<1> DEFINE b == db[site]
           d == db'[site]
           n == Len(file)
           named == IF policy = "update" THEN FileIds ELSE {}
<1>1. Tells(site, org, policy, s) /\ file' = file /\ FileOK /\ raced \subseteq raced'
  BY ImportTells DEF Imports
<1>2. /\ next \in Nat /\ Sound(b, next)
  BY DEF Imports
<1>3. /\ Now' = d /\ last'.before = b /\ last'.policy = policy /\ last'.org = org
      /\ last'.result = s.error
  BY <1>1 DEF Now, Tells
<1>4. {item.id : item \in Items}' = FileIds /\ Exported' = Exported
  BY <1>1 DEF Items, FileIds, Exported
<1>5. CASE s.error # "none"
  <2>1. d = b
    BY <1>5 DEF Imports
  <2> HIDE DEF b, d
  <2> QED BY <1>3, <1>5, <2>1 DEF KeepsTheRest, Kept, Done
<1>6. CASE s.error = "none"
  <2>1. FoldOK(s, n, b, org, policy)
    BY <1>6 DEF Imports, RunOK, FailOK
  <2>2. d = Committed(s)
    BY <1>6 DEF Imports
  <2>3. d.rows = s.rows /\ d.links = s.links /\ d.variables = s.variables
    BY <2>2 DEF Committed
  <2>4. \A i \in Sofar(n) : i \in FileIds
    BY <1>1 DEF Sofar, FileIds, FileOK
  <2>5. \A item \in Items : item.id \in Sofar(n)
    BY <1>1 DEF Sofar, Items, FileOK
  <2> HIDE DEF b, d, n
  <2>6. /\ RowsOK(s, n, b, org, policy) /\ MapOK(s, n, policy) /\ FateOK(s, n, b, org, policy)
        /\ KeptRefs(b.links, s.links, n, policy) /\ KeptRefs(b.variables, s.variables, n, policy)
    BY <2>1 DEF FoldOK
  <2>7. Kept(b.rows, d.rows, named)
    <3> SUFFICES ASSUME NEW i \in DOMAIN b.rows \ named
                 PROVE  i \in DOMAIN s.rows /\ s.rows[i] = b.rows[i]
      BY <2>3 DEF Kept
    <3>1. i \in DOMAIN s.rows /\ Origin(i, s, n, b, org, policy)
      BY <2>6 DEF RowsOK
    <3> QED BY <2>4, <3>1 DEF Origin
  <2>8. Kept(b.links, d.links, named) /\ Kept(b.variables, d.variables, named)
    BY <2>3, <2>4, <2>6 DEF Kept, KeptRefs
  <2>9. \A i \in named \intersect DOMAIN b.rows : b.rows[i].org = org
    <3> SUFFICES ASSUME NEW i \in named \intersect DOMAIN b.rows PROVE b.rows[i].org = org
      OBVIOUS
    <3>1. policy = "update" /\ i \in Sofar(n)
      BY <1>1 DEF FileIds, Sofar, FileOK, n
    <3> QED BY <2>6, <3>1 DEF FateOK
  <2>10. ASSUME policy = "copy", NEW item \in Exported
         PROVE  (({d.rows[Place(item.id)'].vcs} \ raced') \union d.links[Place(item.id)'])
                   \intersect DOMAIN b.rows = {}
    <3> DEFINE id == Mapped(s, item.id)
    <3>1. PICK k \in 1..n : item = file[k]
      BY <1>1 DEF Exported, Items, FileOK, n
    <3>2. k \in DOMAIN file /\ item.id.kind = "tpl" /\ item \in Items /\ item.id \in Sofar(n)
      BY <1>1, <2>5, <3>1 DEF Exported, n, FileOK
    <3>3. \A i \in Sofar(n) : Mapped(s, i) \notin DOMAIN b.rows
      BY <2>6, <2>10 DEF FateOK
    <3>4. LandedRow(s, item, b, org, policy) /\ LandedRefs(s, item)
      BY <2>1, <3>1 DEF FoldOK
    <3>5. s.fate[item.id] # "skipped"
      BY <2>6, <2>10, <3>2 DEF FateOK
    <3>6. s.rows[id].vcs = Mapped(s, item.row.vcs) /\ s.links[id] = {Mapped(s, g) : g \in item.links}
      BY <2>10, <3>2, <3>4, <3>5 DEF LandedRow, LandedRefs
    <3>7. \A g \in item.links : g \in Sofar(n)
      <4> SUFFICES ASSUME NEW g \in item.links PROVE g \in Sofar(n)
        OBVIOUS
      <4>1. \E j \in DOMAIN file : file[j].id = g
        BY <1>1, <1>2, <3>1, <3>2, FileFacts
      <4> QED BY <1>1, <4>1 DEF Sofar, FileOK, n
    <3>8. item.row.vcs \in raced \/ item.row.vcs \in Sofar(n)
      <4>1. item.row.vcs \in raced \/ \E j \in DOMAIN file : file[j].id = item.row.vcs
        BY <1>1, <1>2, <3>1, <3>2, FileFacts
      <4> QED BY <1>1, <4>1 DEF Sofar, FileOK, n
    <3>9. item.row.vcs \notin Sofar(n) => Mapped(s, item.row.vcs) = item.row.vcs
      BY <2>6 DEF MapOK, Mapped, At
    <3>10. Place(item.id)' = id
      BY <1>1 DEF Place, Mapped, Tells
    <3> HIDE DEF id
    <3>11. s.rows[id].vcs \in raced' \/ s.rows[id].vcs \notin DOMAIN b.rows
      BY <1>1, <3>3, <3>6, <3>8, <3>9
    <3>12. s.links[id] \intersect DOMAIN b.rows = {}
      BY <3>3, <3>6, <3>7
    <3> QED BY <2>3, <3>10, <3>11, <3>12
  <2> HIDE DEF named
  <2>11. named = IF last'.policy = "update" THEN FileIds ELSE {}
    BY <1>3 DEF named
  <2>12. \A i \in named \intersect DOMAIN last'.before.rows :
            last'.before.rows[i].org # last'.org => Now' = last'.before
    BY <1>3, <2>9
  <2>13. Done' /\ last'.policy = "copy" =>
            \A item \in Exported' :
                LET id == Place(item.id)'
                IN  (({d.rows[id].vcs} \ raced') \union d.links[id]) \intersect DOMAIN b.rows = {}
    BY <1>3, <1>4, <2>10
  <2> QED BY <1>3, <1>4, <2>7, <2>8, <2>11, <2>12, <2>13 DEF KeepsTheRest
<1> QED BY <1>5, <1>6

(* and what failed failed for cause.                                        *)
LEMMA ImportHasCause ==
  ASSUME NEW site, NEW org, NEW policy, NEW s, Imports(site, org, policy, s)
  PROVE  ImportFailsForCause'
<1> DEFINE b == db[site]
<1>1. Tells(site, org, policy, s) /\ file' = file
  BY ImportTells DEF Imports
<1>2. s.error = "none" \/ FailOK(s, b, org, policy)
  BY DEF Imports, RunOK, FoldOK
<1>3. /\ last'.before = b /\ last'.policy = policy /\ last'.org = org
      /\ last'.result = s.error
  BY <1>1 DEF Tells
<1> HIDE DEF b
<1>4. Items' = Items /\ ListedTwice' = ListedTwice
  BY <1>1 DEF Items, ListedTwice
<1>5. Met' = FileIds \intersect DOMAIN b.rows
  BY <1>1, <1>3 DEF Met, Items, FileIds
<1>6. Seen' = SeenIn(b)
  BY <1>3, <1>4 DEF Seen, SeenIn
<1>7. last'.result = "duplicate" => last'.policy = "abort" /\ (Met' # {} \/ ListedTwice')
  BY <1>2, <1>3, <1>4, <1>5 DEF FailOK
<1>8. last'.result = "org" =>
        last'.policy = "update" /\ \E i \in Met' : last'.before.rows[i].org # last'.org
  BY <1>2, <1>3, <1>5 DEF FailOK
<1>9. last'.result = "name" =>
        \E item \in Items', met \in Seen' :
            /\ item.id.kind = "group" /\ met.id.kind = "group"
            /\ met.row.name = item.row.name /\ met.row.type # item.row.type
  BY <1>2, <1>3, <1>4, <1>6 DEF FailOK, NameMet
<1> QED BY <1>7, <1>8, <1>9 DEF ImportFailsForCause

-----------------------------------------------------------------------------
(* What the users do, to the database of a site.                            *)

Idle == last' = NoImport
(* Of no import nothing is said.                                            *)
LEMMA IdleSaysNothing == ASSUME Idle PROVE Landed' /\ KeepsTheRest' /\ ImportFailsForCause'
<1>1. last'.count = 0 /\ last'.result = "none"
  BY DEF Idle, NoImport
<1>2. Landed' /\ KeepsTheRest'
  BY <1>1 DEF Landed, KeepsTheRest, Done
<1>3. ImportFailsForCause'
  BY <1>1 DEF ImportFailsForCause
<1> QED BY <1>2, <1>3

(* d comes instead of what the site has.                                    *)
Becomes(site, d) ==
    /\ db' = [db EXCEPT ![site] = d] /\ Sound(d, next')
    /\ next' \in Nat /\ next <= next' /\ clock' \in Nat /\ file' = file /\ Idle
    /\ raced \subseteq raced'
    /\ \A o \in Orgs : \A t \in Templates(d, o) :
          d.rows[t].vcs \in DOMAIN d.rows \/ d.rows[t].vcs \in raced'
    /\ going' \subseteq Sites \X {v \in Ids : v.kind = "vcs"}
    /\ \A x \in going' : x \in going \/ (x[1] = site /\ x[2].n < next' /\ ~Used(d, x[2]))
    /\ \A x \in going' : x \in going /\ x[1] = site /\ Used(d, x[2]) =>
          x[2] \in raced' \/ Used(db[site], x[2])

(* An edit after which this holds keeps the invariant.                      *)
LEMMA EditInv ==
  ASSUME IInv, NEW site \in Sites, NEW d, Becomes(site, d)
  PROVE  IInv'
<1>1. /\ next \in Nat /\ clock \in Nat /\ FileOK /\ HasService /\ GoingOK
      /\ db = [x \in Sites |-> db[x]] /\ \A x \in Sites : Sound(db[x], next)
  BY DEF IInv, TablesOK
<1>2. /\ next' \in Nat /\ next <= next' /\ raced \subseteq raced'
      /\ db' = [x \in Sites |-> db'[x]] /\ db'[site] = d
      /\ \A x \in Sites : x # site => db'[x] = db[x]
  BY <1>1 DEF Becomes
<1>3. FileOK'
  BY <1>1, <1>2, FileStays DEF Becomes
<1>4. \A x \in Sites : Sound(db'[x], next')
  BY <1>1, <1>2, SoundGrows DEF Becomes
<1>5. TablesOK'
  <2>1. last'.policy = ""
    BY DEF Becomes, Idle, NoImport
  <2> QED BY <1>2, <1>4, <2>1 DEF TablesOK, Becomes, Sound
<1>6. HasService'
  <2> SUFFICES ASSUME NEW x \in Sites, NEW o \in Orgs, NEW t \in Templates(db'[x], o)
               PROVE  db'[x].rows[t].vcs \in DOMAIN db'[x].rows \/ db'[x].rows[t].vcs \in raced'
    BY DEF HasService, Templates
  <2>1. CASE x = site
    BY <1>2, <2>1 DEF Becomes
  <2>2. CASE x # site
    BY <1>1, <1>2, <2>2 DEF HasService
  <2> QED BY <2>1, <2>2
<1>7. GoingOK'
  <2> SUFFICES ASSUME NEW x \in going'
               PROVE  x[2].n < next' /\ (x[2] \in raced' \/ ~Used(db'[x[1]], x[2]))
    BY DEF GoingOK, Used, Templates
  <2>1. x[1] \in Sites /\ x[2] \in Ids
    BY DEF Becomes
  <2>2. CASE x \in going
    <3>1. x[2].n < next /\ (x[2] \in raced \/ ~Used(db[x[1]], x[2]))
      BY <1>1, <2>2 DEF GoingOK
    <3>2. x[2].n < next'
      <4>1. x[2].n \in Nat
        BY <2>1 DEF Ids
      <4> QED BY <1>1, <1>2, <3>1, <4>1
    <3>3. CASE x[1] = site
      <4>1. Used(d, x[2]) => x[2] \in raced' \/ Used(db[site], x[2])
        BY <2>2, <3>3 DEF Becomes
      <4> QED BY <1>2, <3>1, <3>2, <3>3, <4>1
    <3>4. CASE x[1] # site
      BY <1>2, <2>1, <3>1, <3>2, <3>4
    <3> QED BY <3>3, <3>4
  <2>3. CASE x \notin going
    <3>1. x[1] = site /\ x[2].n < next' /\ ~Used(d, x[2])
      BY <2>3 DEF Becomes
    <3> QED BY <1>2, <3>1
  <2> QED BY <2>2, <2>3
<1> QED BY <1>3, <1>5, <1>6, <1>7 DEF IInv

(* The templates of d were there, of the same services.                     *)
NoNewTemplate(old, d) ==
    \A o \in Orgs : \A t \in Templates(d, o) :
        t \in Templates(old, o) /\ d.rows[t].vcs = old.rows[t].vcs

(* A service that is used then was used before.                             *)
LEMMA UsedBefore ==
  ASSUME NEW old, NEW d, NoNewTemplate(old, d), NEW v, Used(d, v)
  PROVE  Used(old, v)
  BY DEF NoNewTemplate, Used

(* An edit without a new template or a lost service.                        *)
LEMMA PlainEdit ==
  ASSUME IInv, NEW site \in Sites, NEW d, Edits(site, d), Sound(d, next'), NoNewTemplate(db[site], d),
         next' \in Nat, next <= next', going' = going, raced \subseteq raced',
         \A v \in DOMAIN db[site].rows : v.kind = "vcs" => v \in DOMAIN d.rows
  PROVE  IInv' /\ Idle
<1>1. /\ next \in Nat /\ clock \in Nat /\ HasService /\ Sound(db[site], next)
      /\ going \subseteq Sites \X {v \in Ids : v.kind = "vcs"}
  BY DEF IInv, TablesOK
<1>2. ASSUME NEW o \in Orgs, NEW t \in Templates(d, o)
      PROVE  d.rows[t].vcs \in DOMAIN d.rows \/ d.rows[t].vcs \in raced'
  <2>1. t \in Templates(db[site], o) /\ d.rows[t].vcs = db[site].rows[t].vcs
    BY DEF NoNewTemplate
  <2>2. db[site].rows[t].vcs \in DOMAIN db[site].rows \/ db[site].rows[t].vcs \in raced
    BY <1>1, <2>1 DEF HasService
  <2>3. db[site].rows[t].vcs.kind = "vcs"
    BY <1>1, <2>1 DEF Sound, RowOK, Templates
  <2> QED BY <2>1, <2>2, <2>3
<1>3. \A x \in going : Used(d, x[2]) => Used(db[site], x[2])
  BY UsedBefore
<1>4. db' = [db EXCEPT ![site] = d] /\ clock' \in Nat /\ Idle /\ file' = file
  BY <1>1 DEF Edits, Idle
<1>5. Becomes(site, d)
  BY <1>1, <1>2, <1>3, <1>4 DEF Becomes
<1> QED BY <1>4, <1>5, EditInv

(* What the invariant says of the database of a site.                       *)
LEMMA SiteFacts ==
  ASSUME IInv, NEW site \in Sites
  PROVE  LET d == db[site] IN
         /\ next \in Nat /\ clock \in Nat /\ Sound(d, next)
         /\ d = [rows |-> d.rows, links |-> d.links, variables |-> d.variables, offered |-> d.offered]
         /\ d.rows = [i \in DOMAIN d.rows |-> d.rows[i]] /\ IsFiniteSet(DOMAIN d.rows)
         /\ \A i \in DOMAIN d.rows : i \in Ids /\ i.n < next /\ RowOK(i, d.rows[i], next)
         /\ RefsOK(d.rows, d.links, d.variables)
  BY DEF IInv, TablesOK, Sound

(* A change of one row.                                                     *)
LEMMA RowEdit ==
  ASSUME IInv, NEW site \in Sites, NEW i \in DOMAIN db[site].rows, NEW row,
         RowOK(i, row, next), row.vcs = db[site].rows[i].vcs, row.org = db[site].rows[i].org,
         row.alive => db[site].rows[i].alive,
         Edits(site, [db[site] EXCEPT !.rows = [@ EXCEPT ![i] = row]]),
         next' = next, going' = going, raced' = raced
  PROVE  IInv' /\ Idle
<1> DEFINE old == db[site]
           d == [old EXCEPT !.rows = [@ EXCEPT ![i] = row]]
<1>1. /\ next \in Nat /\ clock \in Nat /\ Sound(old, next)
      /\ old = [rows |-> old.rows, links |-> old.links, variables |-> old.variables, offered |-> old.offered]
      /\ old.rows = [x \in DOMAIN old.rows |-> old.rows[x]] /\ IsFiniteSet(DOMAIN old.rows)
      /\ \A x \in DOMAIN old.rows : x \in Ids /\ x.n < next /\ RowOK(x, old.rows[x], next)
      /\ RefsOK(old.rows, old.links, old.variables)
  BY SiteFacts
<1> DEFINE table == [old.rows EXCEPT ![i] = row]
<1>2. /\ table = [x \in DOMAIN table |-> table[x]] /\ DOMAIN table = DOMAIN old.rows
      /\ table[i] = row /\ \A x \in DOMAIN old.rows : x # i => table[x] = old.rows[x]
  BY <1>1
<1>3. d = [old EXCEPT !.rows = table]
  OBVIOUS
<1> HIDE DEF table, d
<1>4. /\ d = [rows |-> d.rows, links |-> d.links, variables |-> d.variables, offered |-> d.offered]
      /\ d.rows = table /\ d.links = old.links /\ d.variables = old.variables
  BY <1>1, <1>3
<1> HIDE DEF old
<1>5. i \in DOMAIN old.rows /\ row.vcs = old.rows[i].vcs /\ row.org = old.rows[i].org
      /\ (row.alive => old.rows[i].alive)
  BY DEF old
<1>6. \A x \in DOMAIN d.rows : x \in Ids /\ x.n < next /\ RowOK(x, d.rows[x], next)
  BY <1>1, <1>2, <1>4, <1>5
<1>7. RefsOK(d.rows, d.links, d.variables)
  BY <1>1, <1>2, <1>4, RefsGrow
<1>8. Sound(d, next)
  BY <1>1, <1>2, <1>4, <1>6, <1>7 DEF Sound
<1>9. NoNewTemplate(old, d)
  BY <1>2, <1>4, <1>5 DEF NoNewTemplate, Templates
<1>10. Edits(site, d) /\ Sound(d, next') /\ next' \in Nat /\ next <= next'
  BY <1>1, <1>8 DEF d, old
<1>11. \A v \in DOMAIN old.rows : v.kind = "vcs" => v \in DOMAIN d.rows
  BY <1>2, <1>4
<1> QED BY <1>9, <1>10, <1>11, PlainEdit DEF old

LEMMA ChangeInv ==
  ASSUME IInv, NEW site \in Sites, NEW i \in DOMAIN db[site].rows, Change(site, i)
  PROVE  IInv' /\ Idle
<1> DEFINE old == db[site].rows[i]
<1>1. RowOK(i, old, next)
  BY SiteFacts
<1>2. PICK row \in {[old EXCEPT !.body = clock + 1]}
                   \union {[old EXCEPT !.own = TRUE, !.name = Name(b)] : b \in Bases(i.kind)} :
        Edits(site, [db[site] EXCEPT !.rows = [@ EXCEPT ![i] = row]])
  BY DEF Change
<1>3. next' = next /\ going' = going /\ raced' = raced
  BY DEF Change
<1> HIDE DEF old
<1>4. RowOK(i, row, next) /\ row.vcs = old.vcs /\ row.org = old.org /\ row.alive = old.alive
  <2>1. CASE row = [old EXCEPT !.body = clock + 1]
    BY <1>1, <2>1 DEF RowOK
  <2>2. ASSUME NEW c, row = [old EXCEPT !.own = TRUE, !.name = Name(c)]
        PROVE  RowOK(i, row, next) /\ row.vcs = old.vcs /\ row.org = old.org /\ row.alive = old.alive
    <3>1. /\ Name(c) = [base |-> Name(c).base, mark |-> Name(c).mark] /\ Name(c).mark \in Nat
      BY DEF Name
    <3>2. row = [type |-> old.type, org |-> old.org, name |-> Name(c), body |-> old.body,
                 own |-> TRUE, vcs |-> old.vcs, alive |-> old.alive]
      BY <1>1, <2>2 DEF RowOK
    <3> QED BY <1>1, <3>1, <3>2 DEF RowOK
  <2> QED BY <1>2, <2>1, <2>2
<1> QED BY <1>2, <1>3, <1>4, RowEdit DEF old

LEMMA DeleteTemplateInv ==
  ASSUME IInv, NEW site \in Sites, NEW t \in DOMAIN db[site].rows, DeleteTemplate(site, t)
  PROVE  IInv' /\ Idle
<1> DEFINE old == db[site].rows[t]
           row == [old EXCEPT !.alive = FALSE]
<1>1. RowOK(t, old, next)
  BY SiteFacts
<1>2. t.kind = "tpl"
  BY DEF DeleteTemplate, Templates
<1>3. Edits(site, [db[site] EXCEPT !.rows = [@ EXCEPT ![t] = row]])
  BY DEF DeleteTemplate
<1>4. next' = next /\ going' = going /\ raced' = raced
  BY DEF DeleteTemplate
<1> HIDE DEF old
<1>5. row = [old EXCEPT !.alive = FALSE]
  OBVIOUS
<1> HIDE DEF row
<1>6. RowOK(t, row, next) /\ row.vcs = old.vcs /\ row.org = old.org /\ ~row.alive
  <2>1. row = [type |-> old.type, org |-> old.org, name |-> old.name, body |-> old.body,
               own |-> old.own, vcs |-> old.vcs, alive |-> FALSE]
    BY <1>1, <1>5 DEF RowOK
  <2> QED BY <1>1, <1>2, <2>1 DEF RowOK
<1> QED BY <1>3, <1>4, <1>6, RowEdit DEF old

(* What DeleteGroup and DeleteVcs leave of a database.                      *)
Dropped(old, d, g) ==
    Sound(d, next) /\ NoNewTemplate(old, d) /\ DOMAIN d.rows = DOMAIN old.rows \ {g}
LEMMA DropEdit ==
  ASSUME IInv, NEW site \in Sites, NEW g, NEW d, NEW links,
         d = [db[site] EXCEPT !.rows = [i \in DOMAIN @ \ {g} |-> @[i]], !.links = links],
         links = [t \in DOMAIN links |-> links[t]],
         DOMAIN links = DOMAIN db[site].links,
         \A t \in DOMAIN links : links[t] \subseteq db[site].links[t] /\ g \notin links[t],
         g.kind # "tpl"
  PROVE  Dropped(db[site], d, g)
<1> DEFINE old == db[site]
           table == [i \in DOMAIN old.rows \ {g} |-> old.rows[i]]
<1>1. /\ next \in Nat /\ clock \in Nat /\ Sound(old, next)
      /\ old = [rows |-> old.rows, links |-> old.links, variables |-> old.variables, offered |-> old.offered]
      /\ old.rows = [x \in DOMAIN old.rows |-> old.rows[x]] /\ IsFiniteSet(DOMAIN old.rows)
      /\ \A x \in DOMAIN old.rows : x \in Ids /\ x.n < next /\ RowOK(x, old.rows[x], next)
      /\ RefsOK(old.rows, old.links, old.variables)
  BY SiteFacts
<1>2. /\ DOMAIN table = DOMAIN old.rows \ {g} /\ table = [x \in DOMAIN table |-> table[x]]
      /\ \A x \in DOMAIN table : table[x] = old.rows[x]
  OBVIOUS
<1>3. IsFiniteSet(DOMAIN table)
  BY <1>1, <1>2, FS_RemoveElement
<1>4. d = [old EXCEPT !.rows = table, !.links = links]
  OBVIOUS
<1> HIDE DEF table, old
<1>5. /\ d = [rows |-> d.rows, links |-> d.links, variables |-> d.variables, offered |-> d.offered]
      /\ d.rows = table /\ d.links = links /\ d.variables = old.variables
  BY <1>1, <1>4
<1>6. RefsOK(table, links, old.variables)
  <2>1. DOMAIN links = DOMAIN old.links /\ \A t \in DOMAIN links : links[t] \subseteq old.links[t]
    BY DEF old
  <2> QED BY <1>1, <1>2, <2>1 DEF RefsOK
<1>7. \A x \in DOMAIN d.rows : x \in Ids /\ x.n < next /\ RowOK(x, d.rows[x], next)
  BY <1>1, <1>2, <1>5
<1>8. IsFiniteSet(DOMAIN d.rows) /\ d.rows = [x \in DOMAIN d.rows |-> d.rows[x]]
  BY <1>2, <1>3, <1>5
<1>9. RefsOK(d.rows, d.links, d.variables)
  BY <1>5, <1>6
<1>10. Sound(d, next)
  BY <1>5, <1>7, <1>8, <1>9 DEF Sound
<1>11. NoNewTemplate(old, d)
  BY <1>2, <1>5 DEF NoNewTemplate, Templates
<1> QED BY <1>2, <1>5, <1>10, <1>11 DEF old, Dropped

LEMMA DeleteGroupInv ==
  ASSUME IInv, NEW site \in Sites, NEW g \in DOMAIN db[site].rows, DeleteGroup(site, g)
  PROVE  IInv' /\ Idle
<1> DEFINE old == db[site]
           links == [t \in DOMAIN old.links |-> old.links[t] \ {g}]
           d == [old EXCEPT !.rows = [i \in DOMAIN @ \ {g} |-> @[i]], !.links = links]
<1>1. g.kind = "group" /\ next' = next /\ going' = going /\ raced' = raced
  BY DEF DeleteGroup
<1>2. Edits(site, d)
  BY DEF DeleteGroup
<1>3. /\ links = [t \in DOMAIN links |-> links[t]] /\ DOMAIN links = DOMAIN old.links
      /\ \A t \in DOMAIN links : links[t] \subseteq old.links[t] /\ g \notin links[t]
  OBVIOUS
<1>4. d = [old EXCEPT !.rows = [i \in DOMAIN @ \ {g} |-> @[i]], !.links = links]
  OBVIOUS
<1> HIDE DEF links, d
<1>5. Dropped(old, d, g)
  BY <1>1, <1>3, <1>4, DropEdit
<1>6. /\ Sound(d, next) /\ NoNewTemplate(old, d)
      /\ DOMAIN d.rows = DOMAIN old.rows \ {g}
  BY <1>5 DEF Dropped
<1>7. next \in Nat
  BY SiteFacts
<1>8. \A v \in DOMAIN old.rows : v.kind = "vcs" => v \in DOMAIN d.rows
  BY <1>1, <1>6
<1> QED BY <1>1, <1>2, <1>6, <1>7, <1>8, PlainEdit

LEMMA DeleteVcsInv ==
  ASSUME IInv, NEW site \in Sites, NEW v \in DOMAIN db[site].rows, DeleteVcs(site, v)
  PROVE  IInv' /\ Idle
<1> DEFINE old == db[site]
           d == [old EXCEPT !.rows = [i \in DOMAIN @ \ {v} |-> @[i]], !.links = old.links]
           e == [old EXCEPT !.rows = [i \in DOMAIN @ \ {v} |-> @[i]]]
<1>1. /\ <<site, v>> \in going /\ going' = going \ {<<site, v>>} /\ Idle
      /\ file' = file /\ raced' = raced /\ next' = next /\ clock' = clock
  BY DEF DeleteVcs, Idle
<1>2. /\ next \in Nat /\ clock \in Nat /\ Sound(old, next)
      /\ old = [rows |-> old.rows, links |-> old.links, variables |-> old.variables, offered |-> old.offered]
      /\ RefsOK(old.rows, old.links, old.variables)
  BY SiteFacts
<1>3. /\ HasService /\ GoingOK /\ going \subseteq Sites \X {x \in Ids : x.kind = "vcs"}
  BY DEF IInv, TablesOK
<1>4. v.kind = "vcs"
  BY <1>1, <1>3
<1>5. db' = [db EXCEPT ![site] = e]
  BY DEF DeleteVcs
<1>6. d = e
  BY <1>2
<1>7. d = [old EXCEPT !.rows = [i \in DOMAIN @ \ {v} |-> @[i]], !.links = old.links]
  OBVIOUS
<1>8. /\ old.links = [t \in DOMAIN old.links |-> old.links[t]]
      /\ \A t \in DOMAIN old.links : v \notin old.links[t]
  BY <1>2, <1>4 DEF RefsOK
<1> HIDE DEF d, e
<1>9. /\ Sound(d, next) /\ NoNewTemplate(old, d)
      /\ DOMAIN d.rows = DOMAIN old.rows \ {v}
  <2> DEFINE links == old.links
  <2>1. /\ links = [t \in DOMAIN links |-> links[t]] /\ DOMAIN links = DOMAIN old.links
        /\ \A t \in DOMAIN links : links[t] \subseteq old.links[t] /\ v \notin links[t]
    BY <1>8
  <2>2. d = [old EXCEPT !.rows = [i \in DOMAIN @ \ {v} |-> @[i]], !.links = links]
    BY <1>7
  <2> HIDE DEF links
  <2>3. Dropped(old, d, v)
    BY <1>4, <2>1, <2>2, DropEdit
  <2> QED BY <2>3 DEF Dropped
<1>10. ASSUME NEW o \in Orgs, NEW t \in Templates(d, o)
       PROVE  d.rows[t].vcs \in DOMAIN d.rows \/ d.rows[t].vcs \in raced'
  <2>1. t \in Templates(old, o) /\ d.rows[t].vcs = old.rows[t].vcs
    BY <1>9 DEF NoNewTemplate
  <2>2. old.rows[t].vcs \in DOMAIN old.rows \/ old.rows[t].vcs \in raced
    BY <1>3, <2>1 DEF HasService
  <2>3. old.rows[t].vcs = v => v \in raced
    <3>1. old.rows[t].vcs = v => Used(old, v)
      BY <2>1 DEF Used
    <3>2. v \in raced \/ ~Used(old, v)
      BY <1>1, <1>3 DEF GoingOK
    <3> QED BY <3>1, <3>2
  <2> QED BY <1>1, <1>9, <2>1, <2>2, <2>3
<1>11. \A x \in going : Used(d, x[2]) => Used(old, x[2])
  BY <1>9, UsedBefore
<1>12. Becomes(site, d)
  BY <1>1, <1>2, <1>3, <1>5, <1>6, <1>9, <1>10, <1>11 DEF Becomes
<1> QED BY <1>1, <1>12, EditInv

LEMMA CheckVcsInv ==
  ASSUME IInv, NEW site \in Sites, NEW v \in DOMAIN db[site].rows, CheckVcs(site, v)
  PROVE  IInv' /\ Idle
<1> DEFINE d == db[site]
<1>1. /\ v.kind = "vcs" /\ ~Used(d, v) /\ going' = going \union {<<site, v>>}
      /\ raced' = raced /\ next' = next /\ Edits(site, d)
  BY DEF CheckVcs
<1>2. /\ next \in Nat /\ clock \in Nat /\ Sound(d, next) /\ v \in Ids /\ v.n < next
  BY SiteFacts
<1>3. HasService /\ going \subseteq Sites \X {x \in Ids : x.kind = "vcs"}
  BY DEF IInv, TablesOK
<1>4. going' \subseteq Sites \X {x \in Ids : x.kind = "vcs"}
  BY <1>1, <1>2, <1>3
<1>5. ASSUME NEW o \in Orgs, NEW t \in Templates(d, o)
      PROVE  d.rows[t].vcs \in DOMAIN d.rows \/ d.rows[t].vcs \in raced'
  BY <1>1, <1>3 DEF HasService
<1>6. Becomes(site, d)
  BY <1>1, <1>2, <1>4, <1>5 DEF Becomes, Edits, Idle
<1>7. Idle
  BY <1>1 DEF Edits, Idle
<1> QED BY <1>6, <1>7, EditInv

LEMMA RelinkInv ==
  ASSUME IInv, NEW site \in Sites, NEW t \in DOMAIN db[site].rows, Relink(site, t)
  PROVE  IInv' /\ Idle
<1> DEFINE old == db[site]
           linked == At(old.links, t, {})
<1>1. /\ next \in Nat /\ Sound(old, next)
      /\ old = [rows |-> old.rows, links |-> old.links, variables |-> old.variables, offered |-> old.offered]
      /\ RefsOK(old.rows, old.links, old.variables)
  BY SiteFacts
<1>2. /\ next' = next /\ going' = going /\ raced' = raced /\ t.kind = "tpl"
  BY DEF Relink, Templates
<1>3. ASSUME NEW d, Edits(site, d), d.rows = old.rows,
             d = [rows |-> d.rows, links |-> d.links, variables |-> d.variables, offered |-> d.offered],
             RefsOK(d.rows, d.links, d.variables)
      PROVE  IInv' /\ Idle
  <2>1. Sound(d, next)
    BY <1>1, <1>3 DEF Sound
  <2>2. NoNewTemplate(old, d)
    BY <1>3 DEF NoNewTemplate, Templates
  <2> QED BY <1>1, <1>2, <1>3, <2>1, <2>2, PlainEdit
<1>4. \A g \in linked : g.kind = "group" /\ g \in DOMAIN old.rows
  BY <1>1 DEF At, RefsOK
<1> HIDE DEF linked
<1>5. ASSUME NEW those, \A g \in those : g.kind = "group" /\ g \in DOMAIN old.rows,
             Edits(site, [old EXCEPT !.links = With(@, t, those)])
      PROVE  IInv' /\ Idle
  <2> DEFINE d == [old EXCEPT !.links = With(@, t, those)]
  <2>1. /\ d = [rows |-> d.rows, links |-> d.links, variables |-> d.variables, offered |-> d.offered]
        /\ d.rows = old.rows /\ d.links = With(old.links, t, those) /\ d.variables = old.variables
    BY <1>1
  <2>2. IsWith(d.links, old.links, t, those)
    BY <2>1, WithFacts
  <2>3. Edits(site, d)
    BY <1>5
  <2> HIDE DEF d, old
  <2>4. t \in DOMAIN old.rows
    BY DEF old
  <2>5. RefsOK(d.rows, d.links, d.variables)
    BY <1>1, <1>2, <1>5, <2>1, <2>2, <2>4 DEF RefsOK, IsWith
  <2> QED BY <1>3, <2>1, <2>3, <2>5
<1>6. ASSUME NEW new, Edits(site, [old EXCEPT !.variables = With(@, t, new)])
      PROVE  IInv' /\ Idle
  <2> DEFINE d == [old EXCEPT !.variables = With(@, t, new)]
  <2>1. /\ d = [rows |-> d.rows, links |-> d.links, variables |-> d.variables, offered |-> d.offered]
        /\ d.rows = old.rows /\ d.links = old.links /\ d.variables = With(old.variables, t, new)
    BY <1>1
  <2>2. IsWith(d.variables, old.variables, t, new)
    BY <2>1, WithFacts
  <2>3. Edits(site, d)
    BY <1>6
  <2> HIDE DEF d, old
  <2>4. t \in DOMAIN old.rows
    BY DEF old
  <2>5. RefsOK(d.rows, d.links, d.variables)
    BY <1>1, <1>2, <2>1, <2>2, <2>4 DEF RefsOK, IsWith
  <2> QED BY <1>3, <2>1, <2>3, <2>5
<1>7. ASSUME NEW g \in DOMAIN old.rows, g.kind = "group",
             Edits(site, [old EXCEPT !.links = With(@, t, linked \union {g})])
      PROVE  IInv' /\ Idle
  <2>1. \A x \in linked \union {g} : x.kind = "group" /\ x \in DOMAIN old.rows
    BY <1>4, <1>7
  <2> QED BY <1>5, <1>7, <2>1
<1>8. ASSUME NEW g \in linked, Edits(site, [old EXCEPT !.links = With(@, t, linked \ {g})])
      PROVE  IInv' /\ Idle
  <2>1. \A x \in linked \ {g} : x.kind = "group" /\ x \in DOMAIN old.rows
    BY <1>4
  <2> QED BY <1>5, <1>8, <2>1
<1>9. CASE \E v \in {"x", "y"} :
             Edits(site, [old EXCEPT !.variables = With(@, t, With(At(@, t, <<>>), v, clock + 1))])
  BY <1>6, <1>9
<1> QED BY <1>7, <1>8, <1>9 DEF Relink, linked

-----------------------------------------------------------------------------
(* A new row, with a new identifier.                                        *)

(* The next identifier.                                                     *)
LEMMA NewIds ==
  ASSUME NEW kind \in {"vcs", "group", "tpl"}, NEW n \in Nat
  PROVE  Id(kind, n) \in Ids /\ Id(kind, n).kind = kind /\ Id(kind, n).n = n
  BY DEF Id, Ids

(* A new row is as it should be.                                            *)
LEMMA NewRows ==
  ASSUME NEW i, NEW type, NEW org, NEW base, NEW vcs, NEW n,
         i.kind # "group" => type = "",
         i.kind = "tpl" => org \in Orgs /\ vcs \in Ids /\ vcs.kind = "vcs" /\ vcs.n < n
  PROVE  RowOK(i, NewRow(type, org, Name(base), vcs), n)
<1> DEFINE row == NewRow(type, org, Name(base), vcs)
<1>1. row = [type |-> type, org |-> org, name |-> [base |-> base, mark |-> 0], body |-> 0,
             own |-> TRUE, vcs |-> vcs, alive |-> TRUE]
  BY DEF NewRow, Name
<1> HIDE DEF row
<1>2. RowOK(i, row, n)
  BY <1>1 DEF RowOK
<1> QED BY <1>2 DEF row

(* What Adds makes of a database.                                           *)
Added(old, d, new, kind, row) ==
    /\ Sound(d, next + 1) /\ new.kind = kind /\ IsWith(d.rows, old.rows, new, row)
    /\ \A o \in Orgs : \A t \in Templates(d, o) :
          \/ t = new /\ kind = "tpl" /\ d.rows[t] = row
          \/ t \in Templates(old, o) /\ d.rows[t] = old.rows[t]

(* The new row is the only difference.                                      *)
LEMMA AddEdit ==
  ASSUME IInv, NEW site \in Sites, NEW kind \in {"vcs", "group", "tpl"}, NEW row,
         NEW new, new = Id(kind, next), RowOK(new, row, next),
         NEW d, d = [db[site] EXCEPT !.rows = With(@, new, row)]
  PROVE  Added(db[site], d, new, kind, row)
<1> DEFINE old == db[site]
<1>1. /\ next \in Nat /\ Sound(old, next)
      /\ old = [rows |-> old.rows, links |-> old.links, variables |-> old.variables, offered |-> old.offered]
      /\ old.rows = [x \in DOMAIN old.rows |-> old.rows[x]] /\ IsFiniteSet(DOMAIN old.rows)
      /\ \A x \in DOMAIN old.rows : x \in Ids /\ x.n < next /\ RowOK(x, old.rows[x], next)
      /\ RefsOK(old.rows, old.links, old.variables)
  BY SiteFacts
<1>2. new \in Ids /\ new.kind = kind /\ new.n = next
  BY <1>1, NewIds
<1> HIDE DEF old
<1>3. d = [old EXCEPT !.rows = With(@, new, row)]
  BY DEF old
<1>4. /\ d = [rows |-> d.rows, links |-> d.links, variables |-> d.variables, offered |-> d.offered]
      /\ d.rows = With(old.rows, new, row) /\ d.links = old.links /\ d.variables = old.variables
  BY <1>1, <1>3
<1>5. IsWith(d.rows, old.rows, new, row)
  BY <1>4, WithFacts
<1>6. DOMAIN d.rows = DOMAIN old.rows \union {new} /\ IsFiniteSet(DOMAIN d.rows)
      /\ d.rows = [y \in DOMAIN d.rows |-> d.rows[y]]
  BY <1>1, <1>5, FS_AddElement DEF IsWith
<1>7. Sound(old, next + 1) /\ RowOK(new, row, next + 1)
  BY <1>1, SoundGrows, RowGrows
<1>8. ASSUME NEW i \in DOMAIN d.rows PROVE i \in Ids /\ i.n < next + 1 /\ RowOK(i, d.rows[i], next + 1)
  <2>1. CASE i = new
    BY <1>1, <1>2, <1>5, <1>7, <2>1 DEF IsWith
  <2>2. CASE i # new
    BY <1>5, <1>6, <1>7, <2>2 DEF IsWith, Sound
  <2> QED BY <2>1, <2>2
<1>9. RefsOK(d.rows, d.links, d.variables)
  BY <1>1, <1>4, <1>6 DEF RefsOK
<1>10. Sound(d, next + 1)
  BY <1>4, <1>6, <1>8, <1>9 DEF Sound
<1>11. ASSUME NEW o \in Orgs, NEW t \in Templates(d, o)
       PROVE  \/ t = new /\ kind = "tpl" /\ d.rows[t] = row
              \/ t \in Templates(old, o) /\ d.rows[t] = old.rows[t]
  BY <1>2, <1>5, <1>6 DEF Templates, IsWith
<1> QED BY <1>2, <1>5, <1>10, <1>11 DEF old, Added

(* All that Adds needs to keep the invariant.                               *)
LEMMA AddInv ==
  ASSUME IInv, NEW site \in Sites, NEW kind \in {"vcs", "group", "tpl"}, NEW row,
         RowOK(Id(kind, next), row, next), Adds(site, kind, row), raced \subseteq raced',
         kind = "tpl" => /\ row.vcs \in DOMAIN db[site].rows
                         /\ <<site, row.vcs>> \in going => row.vcs \in raced'
  PROVE  IInv' /\ Idle
<1> DEFINE old == db[site]
           new == Id(kind, next)
           d == [old EXCEPT !.rows = With(@, new, row)]
<1>1. Edits(site, d) /\ next' = next + 1 /\ going' = going
  BY DEF Adds
<1>2. /\ next \in Nat /\ clock \in Nat /\ HasService /\ Sound(old, next)
      /\ going \subseteq Sites \X {v \in Ids : v.kind = "vcs"}
  BY DEF IInv, TablesOK
<1>3. d = [old EXCEPT !.rows = With(@, new, row)] /\ new = Id(kind, next)
  OBVIOUS
<1>4. db' = [db EXCEPT ![site] = d] /\ clock' \in Nat /\ Idle /\ file' = file
  BY <1>1, <1>2 DEF Edits, Idle
<1> HIDE DEF d, new
<1>5. RowOK(new, row, next)
  BY <1>3
<1>6. Added(old, d, new, kind, row)
  BY <1>3, <1>5, AddEdit
<1>7. /\ Sound(d, next + 1) /\ IsWith(d.rows, old.rows, new, row)
      /\ \A o \in Orgs : \A t \in Templates(d, o) :
            \/ t = new /\ kind = "tpl" /\ d.rows[t] = row
            \/ t \in Templates(old, o) /\ d.rows[t] = old.rows[t]
  BY <1>6 DEF Added
<1>8. DOMAIN old.rows \subseteq DOMAIN d.rows
  BY <1>7 DEF IsWith
<1>9. ASSUME NEW o \in Orgs, NEW t \in Templates(d, o)
      PROVE  d.rows[t].vcs \in DOMAIN d.rows \/ d.rows[t].vcs \in raced'
  <2>1. CASE kind = "tpl" /\ d.rows[t] = row
    BY <1>8, <2>1
  <2>2. CASE t \in Templates(old, o) /\ d.rows[t] = old.rows[t]
    BY <1>2, <1>8, <2>2 DEF HasService
  <2> QED BY <1>7, <2>1, <2>2
<1>10. ASSUME NEW x \in going, x[1] = site, Used(d, x[2])
      PROVE  x[2] \in raced' \/ Used(old, x[2])
  <2>1. PICK o \in Orgs : \E t \in Templates(d, o) : d.rows[t].vcs = x[2]
    BY <1>10 DEF Used
  <2>2. PICK t \in Templates(d, o) : d.rows[t].vcs = x[2]
    BY <2>1
  <2>3. CASE kind = "tpl" /\ d.rows[t] = row
    <3>1. x = <<site, row.vcs>>
      BY <1>2, <1>10, <2>2, <2>3
    <3> QED BY <2>2, <2>3, <3>1
  <2>4. CASE t \in Templates(old, o) /\ d.rows[t] = old.rows[t]
    BY <2>2, <2>4 DEF Used
  <2> QED BY <1>7, <2>3, <2>4
<1>11. Becomes(site, d)
  BY <1>1, <1>2, <1>7, <1>4, <1>9, <1>10 DEF Becomes
<1> QED BY <1>4, <1>11, EditInv

LEMMA CreateInv ==
  ASSUME IInv, NEW site \in Sites, NEW org \in Orgs,
         CreateTemplate(site, org) \/ CreateGroup(site, org) \/ CreateVcs(site, org)
  PROVE  IInv' /\ Idle
<1>1. next \in Nat /\ \A i \in DOMAIN db[site].rows : i \in Ids /\ i.n < next
  BY SiteFacts
<1>2. CASE CreateTemplate(site, org)
  <2>1. PICK b \in Bases("tpl"), v \in DOMAIN db[site].rows :
           /\ v.kind = "vcs" /\ Adds(site, "tpl", NewRow("", org, Name(b), v))
           /\ raced' = IF <<site, v>> \in going THEN raced \union {v} ELSE raced
    BY <1>2 DEF CreateTemplate
  <2>2. NewRow("", org, Name(b), v).vcs = v
    BY DEF NewRow
  <2>3. RowOK(Id("tpl", next), NewRow("", org, Name(b), v), next)
    BY <1>1, <2>1, NewRows
  <2> QED BY <2>1, <2>2, <2>3, AddInv
<1>3. CASE CreateGroup(site, org)
  <2>1. PICK b \in Bases("group"), type \in {"environment", "terraform"} :
           Adds(site, "group", NewRow(type, org, Name(b), Id("vcs", 0)))
    BY <1>3 DEF CreateGroup
  <2>2. raced' = raced
    BY <1>3 DEF CreateGroup
  <2>3. Id("group", next).kind = "group"
    BY DEF Id
  <2>4. RowOK(Id("group", next), NewRow(type, org, Name(b), Id("vcs", 0)), next)
    BY <2>3, NewRows
  <2> QED BY <2>1, <2>2, <2>4, AddInv
<1>4. CASE CreateVcs(site, org)
  <2>1. PICK b \in Bases("vcs") : Adds(site, "vcs", NewRow("", org, Name(b), Id("vcs", 0)))
    BY <1>4 DEF CreateVcs
  <2>2. raced' = raced
    BY <1>4 DEF CreateVcs
  <2>3. Id("vcs", next).kind = "vcs"
    BY DEF Id
  <2>4. RowOK(Id("vcs", next), NewRow("", org, Name(b), Id("vcs", 0)), next)
    BY <2>3, NewRows
  <2> QED BY <2>1, <2>2, <2>4, AddInv
<1> QED BY <1>2, <1>3, <1>4

-----------------------------------------------------------------------------
(* What is exported.                                                        *)

(* What the file says of a row is as it should be.                          *)
LEMMA ItemOfRow ==
  ASSUME NEW d, NEW n, Sound(d, n), NEW i \in DOMAIN d.rows
  PROVE  ItemOK(Item(d, i), n) /\ Item(d, i).id = i
<1>1. i \in Ids /\ i.n < n /\ RowOK(i, d.rows[i], n)
  BY DEF Sound
<1>2. Item(d, i).id = i /\ Item(d, i).row = d.rows[i]
  BY DEF Item
<1> HIDE DEF Item
<1> QED BY <1>1, <1>2 DEF ItemOK, RowOK

(* The rows of d that s lists, in the file at some distance.                *)
Shows(d, s, f, off) ==
    \A k \in 1..Len(s) : off + k \in DOMAIN f /\ s[k] \in DOMAIN d.rows /\ f[off + k] = Item(d, s[k])

Shown(d, s, shown) ==
    /\ shown \in Seq({Item(d, i) : i \in DOMAIN d.rows}) /\ Len(shown) = Len(s)
    /\ \A k \in 1..Len(s) : shown[k] = Item(d, s[k])
LEMMA ShownList ==
  ASSUME NEW d, NEW s \in Seq(DOMAIN d.rows), NEW shown,
         shown = [k \in DOMAIN s |-> Item(d, s[k])]
  PROVE  Shown(d, s, shown)
<1>1. Len(s) \in Nat /\ DOMAIN s = 1..Len(s) /\ \A k \in 1..Len(s) : s[k] \in DOMAIN d.rows
  OBVIOUS
<1> DEFINE S == {Item(d, i) : i \in DOMAIN d.rows}
<1>2. \A i \in DOMAIN d.rows : Item(d, i) \in S
  OBVIOUS
<1> HIDE DEF S
<1>3. shown \in [1..Len(s) -> S]
  BY <1>1, <1>2
<1>4. shown \in Seq(S) /\ Len(shown) = Len(s)
  BY <1>1, <1>3
<1> QED BY <1>1, <1>4 DEF S, Shown

(* The file that Export makes of three lists.                               *)
Together(d, s, g, t, f) ==
    /\ Len(f) = Len(s) + Len(g) + Len(t) /\ DOMAIN f = 1..Len(f)
    /\ Shows(d, s, f, 0) /\ Shows(d, g, f, Len(s)) /\ Shows(d, t, f, Len(s) + Len(g))
LEMMA ThreeLists ==
  ASSUME NEW d, NEW s \in Seq(DOMAIN d.rows), NEW g \in Seq(DOMAIN d.rows), NEW t \in Seq(DOMAIN d.rows),
         NEW f, f = [k \in DOMAIN s |-> Item(d, s[k])] \o [k \in DOMAIN g |-> Item(d, g[k])]
                    \o [k \in DOMAIN t |-> Item(d, t[k])]
  PROVE  Together(d, s, g, t, f)
<1> DEFINE S == {Item(d, i) : i \in DOMAIN d.rows}
           a == [k \in DOMAIN s |-> Item(d, s[k])]
           b == [k \in DOMAIN g |-> Item(d, g[k])]
           c == [k \in DOMAIN t |-> Item(d, t[k])]
<1>1. Shown(d, s, a) /\ Shown(d, g, b) /\ Shown(d, t, c)
  BY ShownList
<1>2. a \in Seq(S) /\ Len(a) = Len(s) /\ \A k \in 1..Len(s) : a[k] = Item(d, s[k])
  BY <1>1 DEF Shown
<1>3. b \in Seq(S) /\ Len(b) = Len(g) /\ \A k \in 1..Len(g) : b[k] = Item(d, g[k])
  BY <1>1 DEF Shown
<1>4. c \in Seq(S) /\ Len(c) = Len(t) /\ \A k \in 1..Len(t) : c[k] = Item(d, t[k])
  BY <1>1 DEF Shown
<1>5. f = a \o b \o c
  OBVIOUS
<1> HIDE DEF a, b, c, S
<1>6. Triple(S, a, b, c, f)
  BY <1>2, <1>3, <1>4, <1>5, ThreeFacts
<1>7. /\ f \in Seq(S) /\ Len(f) = Len(a) + Len(b) + Len(c)
      /\ \A k \in 1..Len(a) : f[k] = a[k]
      /\ \A k \in 1..Len(b) : f[Len(a) + k] = b[k]
      /\ \A k \in 1..Len(c) : f[Len(a) + Len(b) + k] = c[k]
  BY <1>6 DEF Triple
<1>8. /\ Len(s) \in Nat /\ Len(g) \in Nat /\ Len(t) \in Nat
      /\ \A k \in 1..Len(s) : s[k] \in DOMAIN d.rows
      /\ \A k \in 1..Len(g) : g[k] \in DOMAIN d.rows
      /\ \A k \in 1..Len(t) : t[k] \in DOMAIN d.rows
  OBVIOUS
<1>9. DOMAIN f = 1..Len(s) + Len(g) + Len(t)
  BY <1>2, <1>3, <1>4, <1>7
<1>10. Len(f) = Len(s) + Len(g) + Len(t) /\ DOMAIN f = 1..Len(f)
  BY <1>2, <1>3, <1>4, <1>7, <1>9
<1>11. Shows(d, s, f, 0)
  BY <1>2, <1>7, <1>8, <1>9 DEF Shows
<1>12. Shows(d, g, f, Len(s))
  <2> SUFFICES ASSUME NEW k \in 1..Len(g)
               PROVE  Len(s) + k \in DOMAIN f /\ g[k] \in DOMAIN d.rows /\ f[Len(s) + k] = Item(d, g[k])
    BY DEF Shows
  <2>1. Len(s) + k \in DOMAIN f
    BY <1>8, <1>9
  <2>2. f[Len(a) + k] = b[k]
    BY <1>3, <1>7
  <2> QED BY <1>2, <1>3, <1>8, <2>1, <2>2
<1>13. Shows(d, t, f, Len(s) + Len(g))
  <2> SUFFICES ASSUME NEW k \in 1..Len(t)
               PROVE  /\ Len(s) + Len(g) + k \in DOMAIN f /\ t[k] \in DOMAIN d.rows
                      /\ f[Len(s) + Len(g) + k] = Item(d, t[k])
    BY DEF Shows
  <2>1. Len(s) + Len(g) + k \in DOMAIN f
    BY <1>8, <1>9
  <2>2. f[Len(a) + Len(b) + k] = c[k]
    BY <1>4, <1>7
  <2> QED BY <1>2, <1>3, <1>4, <1>8, <2>1, <2>2
<1> QED BY <1>10, <1>11, <1>12, <1>13 DEF Together

(* The lists that Export takes.                                             *)
Lists(s, S) ==
    /\ s \in Seq(S) /\ \A x \in S : \E k \in 1..Len(s) : s[k] = x

(* The lists hold what they are lists of.                                   *)
LEMMA ListedOnce ==
  ASSUME NEW S, IsFiniteSet(S) PROVE Lists(SetToSeq(S), S)
<1> DEFINE s == SetToSeq(S)
<1>1. s \in Seq(S) /\ \A x \in S : \E k \in DOMAIN s : s[k] = x
  BY Listing
<1> HIDE DEF s
<1>2. DOMAIN s = 1..Len(s)
  BY <1>1
<1> QED BY <1>1, <1>2 DEF Lists, s

(* A template comes with its groups and its service, in the order that      *)
(* importing needs.                                                         *)
LEMMA ExportedFile ==
  ASSUME IInv, NEW site \in Sites, NEW org \in Orgs, NEW ids \in SUBSET Templates(db[site], org),
         Export(site, org, ids)
  PROVE  FileOK'
<1> DEFINE d == db[site]
           links == SetToSeq(GroupsOf(d, ids))
           s == SetToSeq(ServicesOf(d, ids))
           g == [k \in DOMAIN links |-> links[k][2]]
           t == SetToSeq(ids)
<1>1. /\ Sound(d, next) /\ next \in Nat /\ IsFiniteSet(DOMAIN d.rows)
      /\ \A i \in DOMAIN d.rows : i \in Ids /\ i.n < next /\ RowOK(i, d.rows[i], next)
      /\ RefsOK(d.rows, d.links, d.variables)
  BY SiteFacts
<1>2. /\ next' = next /\ raced' = raced
      /\ file' = [k \in DOMAIN s |-> Item(d, s[k])]
                 \o [k \in DOMAIN links |-> Item(d, links[k][2])]
                 \o [k \in DOMAIN t |-> Item(d, t[k])]
  BY DEF Export
<1>3. ids \subseteq DOMAIN d.rows /\ IsFiniteSet(ids) /\ \A i \in ids : i.kind = "tpl"
  <2>1. ids \subseteq DOMAIN d.rows /\ \A i \in ids : i.kind = "tpl"
    BY DEF Templates
  <2> QED BY <1>1, <2>1, FS_Subset
<1>4. ServicesOf(d, ids) \subseteq DOMAIN d.rows /\ IsFiniteSet(ServicesOf(d, ids))
  BY <1>1, FS_Subset DEF ServicesOf
<1>5. IsFiniteSet(GroupsOf(d, ids))
  <2>1. IsFiniteSet(ids \X DOMAIN d.rows)
    BY <1>1, <1>3, FS_Product
  <2>2. GroupsOf(d, ids) \subseteq ids \X DOMAIN d.rows
    BY DEF GroupsOf
  <2> QED BY <2>1, <2>2, FS_Subset
<1>6. Lists(s, ServicesOf(d, ids)) /\ Lists(t, ids) /\ Lists(links, GroupsOf(d, ids))
  BY <1>3, <1>4, <1>5, ListedOnce
<1> HIDE DEF s, t, links
<1>7. /\ s \in Seq(DOMAIN d.rows) /\ \A k \in 1..Len(s) : s[k] \in ServicesOf(d, ids)
      /\ t \in Seq(DOMAIN d.rows) /\ \A k \in 1..Len(t) : t[k] \in ids
  BY <1>3, <1>4, <1>6 DEF Lists
<1>8. /\ g \in Seq(DOMAIN d.rows) /\ Len(g) = Len(links) /\ DOMAIN g = DOMAIN links
      /\ \A k \in 1..Len(g) : links[k] \in GroupsOf(d, ids) /\ g[k] = links[k][2]
  <2>1. /\ links \in Seq(GroupsOf(d, ids)) /\ Len(links) \in Nat /\ DOMAIN links = 1..Len(links)
        /\ \A k \in 1..Len(links) : links[k] \in GroupsOf(d, ids)
    BY <1>6 DEF Lists
  <2>2. \A x \in GroupsOf(d, ids) : x[2] \in DOMAIN d.rows
    BY DEF GroupsOf
  <2>3. g \in [1..Len(links) -> DOMAIN d.rows]
    BY <2>1, <2>2
  <2>4. g \in Seq(DOMAIN d.rows) /\ Len(g) = Len(links)
    BY <2>1, <2>3
  <2> QED BY <2>1, <2>4
<1>9. [k \in DOMAIN links |-> Item(d, links[k][2])] = [k \in DOMAIN g |-> Item(d, g[k])]
  OBVIOUS
<1> HIDE DEF g
<1> DEFINE f == file'
<1>10. f = [k \in DOMAIN s |-> Item(d, s[k])] \o [k \in DOMAIN g |-> Item(d, g[k])]
           \o [k \in DOMAIN t |-> Item(d, t[k])]
  BY <1>2, <1>9
<1> HIDE DEF f
<1>11. Together(d, s, g, t, f)
  BY <1>7, <1>8, <1>10, ThreeLists
<1>12. /\ Len(f) = Len(s) + Len(g) + Len(t) /\ DOMAIN f = 1..Len(f)
       /\ Shows(d, s, f, 0) /\ Shows(d, g, f, Len(s)) /\ Shows(d, t, f, Len(s) + Len(g))
  BY <1>11 DEF Together
<1>13. Len(s) \in Nat /\ Len(g) \in Nat /\ Len(t) \in Nat
  BY <1>7, <1>8
<1>14. \A v \in ServicesOf(d, ids) : v.kind = "vcs"
  <2> SUFFICES ASSUME NEW x \in ids PROVE d.rows[x].vcs.kind = "vcs"
    BY DEF ServicesOf
  <2> QED BY <1>1, <1>3 DEF RowOK
<1>15. \A k \in 1..Len(g) : g[k].kind = "group"
  <2> SUFFICES ASSUME NEW k \in 1..Len(g) PROVE g[k].kind = "group"
    OBVIOUS
  <2>1. links[k][1] \in ids /\ g[k] \in At(d.links, links[k][1], {})
    BY <1>8 DEF GroupsOf
  <2> QED BY <1>1, <2>1 DEF At, RefsOK
<1>16. ASSUME NEW k \in DOMAIN f
       PROVE  \/ k <= Len(s) + Len(g) /\ f[k].id.kind # "tpl"
                 /\ (\E i \in DOMAIN d.rows : f[k] = Item(d, i))
              \/ k > Len(s) + Len(g) /\ \E i \in ids : f[k] = Item(d, i)
  <2>1. k \in Nat /\ 1 <= k /\ k <= Len(s) + Len(g) + Len(t)
    BY <1>12, <1>13
  <2>2. CASE k <= Len(s)
    <3>1. k \in 1..Len(s)
      BY <1>13, <2>1, <2>2
    <3>2. f[0 + k] = Item(d, s[k]) /\ s[k] \in DOMAIN d.rows
      BY <1>12, <3>1 DEF Shows
    <3>3. f[k] = Item(d, s[k]) /\ s[k].kind = "vcs"
      BY <1>7, <1>14, <2>1, <3>1, <3>2
    <3> QED BY <1>1, <1>13, <2>1, <2>2, <3>2, <3>3, ItemOfRow
  <2>3. CASE k > Len(s) /\ k <= Len(s) + Len(g)
    <3>1. k - Len(s) \in 1..Len(g) /\ Len(s) + (k - Len(s)) = k
      BY <1>13, <2>1, <2>3
    <3>2. f[k] = Item(d, g[k - Len(s)]) /\ g[k - Len(s)] \in DOMAIN d.rows
      BY <1>12, <3>1 DEF Shows
    <3>3. g[k - Len(s)].kind = "group"
      BY <1>15, <3>1
    <3> QED BY <1>1, <2>3, <3>2, <3>3, ItemOfRow
  <2>4. CASE k > Len(s) + Len(g)
    <3> DEFINE off == Len(s) + Len(g)
    <3>1. k - off \in 1..Len(t) /\ off + (k - off) = k
      BY <1>13, <2>1, <2>4
    <3>2. f[k] = Item(d, t[k - off])
      BY <1>12, <3>1 DEF Shows
    <3>3. t[k - off] \in ids
      BY <1>7, <3>1
    <3> QED BY <2>4, <3>2, <3>3
  <2> QED BY <1>13, <2>1, <2>2, <2>3, <2>4
<1>17. \A k \in DOMAIN f : \E i \in DOMAIN d.rows : f[k] = Item(d, i)
  BY <1>3, <1>16
<1>18. \A k \in DOMAIN f : ItemOK(f[k], next) /\ f[k] = Item(d, f[k].id)
  BY <1>1, <1>17, ItemOfRow
<1>19. ASSUME NEW k \in DOMAIN f, f[k].id.kind = "tpl"
       PROVE  k > Len(s) + Len(g) /\ f[k].id \in ids
  BY <1>1, <1>3, <1>16, <1>19, ItemOfRow
<1>20. ASSUME NEW j \in DOMAIN f, NEW k \in DOMAIN f, j < k, f[j].id.kind = "tpl"
       PROVE  f[k].id.kind = "tpl"
  <2>1. j > Len(s) + Len(g)
    BY <1>19, <1>20
  <2>2. k > Len(s) + Len(g)
    BY <1>12, <1>13, <1>20, <2>1
  <2>3. PICK i \in ids : f[k] = Item(d, i)
    BY <1>13, <1>12, <1>16, <2>2
  <2> QED BY <1>1, <1>3, <2>3, ItemOfRow
<1> DEFINE there == {f[k].id : k \in DOMAIN f}
<1>21. ASSUME NEW v \in ServicesOf(d, ids) PROVE v \in there
  <2>1. PICK k \in 1..Len(s) : s[k] = v
    BY <1>6 DEF Lists
  <2>2. 0 + k \in DOMAIN f /\ f[0 + k] = Item(d, v) /\ v \in DOMAIN d.rows
    BY <1>12, <2>1 DEF Shows
  <2>3. f[0 + k].id = v
    BY <1>1, <2>2, ItemOfRow
  <2> QED BY <2>2, <2>3
<1>22. ASSUME NEW x \in GroupsOf(d, ids) PROVE x[2] \in there
  <2>1. PICK k \in 1..Len(links) : links[k] = x
    BY <1>6 DEF Lists
  <2>2. k \in 1..Len(g) /\ g[k] = x[2]
    BY <1>8, <2>1
  <2>3. Len(s) + k \in DOMAIN f /\ f[Len(s) + k] = Item(d, x[2]) /\ x[2] \in DOMAIN d.rows
    BY <1>12, <2>2 DEF Shows
  <2>4. f[Len(s) + k].id = x[2]
    BY <1>1, <2>3, ItemOfRow
  <2> QED BY <2>3, <2>4
<1> HIDE DEF there
<1>23. ASSUME NEW k \in DOMAIN f, f[k].id.kind = "tpl"
       PROVE  /\ \A x \in f[k].links : x.kind = "group" /\ x \in there
              /\ f[k].row.vcs \in there \union raced
  <2> DEFINE i == f[k].id
  <2>1. i \in ids /\ f[k].links = At(d.links, i, {}) /\ f[k].row = d.rows[i]
    <3>1. i \in ids /\ f[k] = Item(d, i)
      BY <1>18, <1>19, <1>23
    <3> HIDE DEF i
    <3> QED BY <3>1 DEF Item
  <2> HIDE DEF i
  <2>2. ASSUME NEW x \in At(d.links, i, {}) PROVE x.kind = "group" /\ x \in there
    <3>1. x.kind = "group" /\ x \in DOMAIN d.rows
      BY <1>1 DEF At, RefsOK
    <3>2. <<i, x>> \in GroupsOf(d, ids)
      BY <2>1, <3>1 DEF GroupsOf
    <3> QED BY <1>22, <3>1, <3>2
  <2>3. d.rows[i].vcs \in DOMAIN d.rows \/ d.rows[i].vcs \in raced
    BY <2>1 DEF IInv, HasService
  <2>4. d.rows[i].vcs \in DOMAIN d.rows => d.rows[i].vcs \in there
    BY <1>21, <2>1 DEF ServicesOf
  <2> QED BY <2>1, <2>2, <2>3, <2>4
<1>24. Len(f) \in Nat
  BY <1>12, <1>13
<1>25. ASSUME NEW j \in DOMAIN f, NEW k \in DOMAIN f, f[j].id = f[k].id PROVE f[j] = f[k]
  BY <1>18, <1>25
<1>26. FileIds' = there
  BY DEF FileIds, f, there
<1> HIDE DEF d
<1>27. \A k \in DOMAIN f : f[k].id.kind = "tpl" =>
         /\ \A x \in f[k].links : x.kind = "group" /\ x \in FileIds'
         /\ f[k].row.vcs \in FileIds' \union raced'
  BY <1>2, <1>23, <1>26
<1>28. \A j, k \in DOMAIN f :
         /\ j < k /\ f[j].id.kind = "tpl" => f[k].id.kind = "tpl"
         /\ f[j].id = f[k].id => f[j] = f[k]
  BY <1>20, <1>25
<1>29. \A k \in DOMAIN file' : ItemOK(file[k], next)'
  BY <1>2, <1>18 DEF ItemOK, f
<1> QED BY <1>12, <1>24, <1>27, <1>28, <1>29 DEF FileOK, f

-----------------------------------------------------------------------------
(* What holds at first, and what every step keeps.                          *)

LEMMA ExportInv ==
  ASSUME IInv, NEW site \in Sites, NEW org \in Orgs, NEW ids \in SUBSET Templates(db[site], org),
         Export(site, org, ids)
  PROVE  IInv' /\ Idle
<1>1. UNCHANGED <<db, going, raced, next, clock>> /\ last' = NoImport
  BY DEF Export
<1>2. FileOK'
  BY ExportedFile
<1>3. last'.policy = ""
  BY <1>1 DEF NoImport
<1>4. TablesOK'
  BY <1>1, <1>3 DEF IInv, TablesOK
<1>5. HasService' /\ GoingOK'
  BY <1>1 DEF IInv, HasService, GoingOK
<1> QED BY <1>1, <1>2, <1>4, <1>5 DEF IInv, Idle

(* What is said of the last import.                                         *)
Told == Landed /\ KeepsTheRest /\ ImportFailsForCause

LEMMA InitInv == ExchangeInit => IInv /\ Told
<1> SUFFICES ASSUME ExchangeInit PROVE IInv /\ Told
  OBVIOUS
<1>1. PICK s \in Starts : db = s.db /\ next = s.next
  BY DEF ExchangeInit
<1>2. file = << >> /\ going = {} /\ raced = {} /\ clock = 0 /\ last = NoImport
  BY DEF ExchangeInit
<1>3. last.count = 0 /\ last.policy = "" /\ last.result = "none"
  BY <1>2 DEF NoImport
<1>4. /\ s.next \in Nat /\ s.db = [site \in Sites |-> s.db[site]]
      /\ \A site \in Sites :
           /\ Sound(s.db[site], s.next)
           /\ \A t \in DOMAIN s.db[site].rows :
                t.kind = "tpl" /\ s.db[site].rows[t].alive
                => s.db[site].rows[t].vcs \in DOMAIN s.db[site].rows
  BY TplExchangeAssumption
<1>5. TablesOK
  BY <1>1, <1>2, <1>3, <1>4 DEF TablesOK
<1>6. FileOK
  <2>1. Len(file) = 0 /\ DOMAIN file = {} /\ DOMAIN file = 1..Len(file)
    BY <1>2
  <2> QED BY <2>1 DEF FileOK
<1>7. HasService
  BY <1>1, <1>4 DEF HasService, Templates
<1>8. GoingOK
  BY <1>2 DEF GoingOK
<1>9. \A n : n = 0 => ~(n > 0)
  OBVIOUS
<1>10. ~(last.count > 0)
  BY <1>3, <1>9, Zenon
<1>11. ~Done
  BY <1>10 DEF Done
<1>12. Landed /\ KeepsTheRest
  BY <1>10, <1>11, Zenon DEF Landed, KeepsTheRest
<1>13. ImportFailsForCause
  BY <1>3 DEF ImportFailsForCause
<1> QED BY <1>5, <1>6, <1>7, <1>8, <1>12, <1>13 DEF IInv, Told

(* Every step keeps the invariant, and what is said of the last import.     *)
LEMMA NextInv ==
  IInv /\ Told /\ [ExchangeNext]_exchangeVars => (IInv /\ Told)'
<1> SUFFICES ASSUME IInv, Told, [ExchangeNext]_exchangeVars PROVE IInv' /\ Told'
  OBVIOUS
<1>1. CASE UNCHANGED exchangeVars
  <2>1. db' = db /\ file' = file /\ going' = going /\ raced' = raced /\ next' = next /\ last' = last
        /\ clock' = clock
    BY <1>1 DEF exchangeVars
  <2>2. TablesOK' /\ HasService' /\ GoingOK'
    BY <2>1 DEF IInv, TablesOK, HasService, GoingOK
  <2>3. FileOK'
    <3>1. FileOK /\ next \in Nat
      BY DEF IInv, TablesOK
    <3>2. next' \in Nat /\ next <= next' /\ raced \subseteq raced'
      BY <2>1, <3>1
    <3> QED BY <2>1, <3>1, <3>2, FileStays
  <2>4. IInv'
    BY <2>2, <2>3 DEF IInv
  <2>5. Items' = Items /\ Exported' = Exported /\ Now' = Now /\ Done' = Done
    BY <2>1 DEF Items, Exported, Now, Done
  <2>6. Landed'
    BY <2>1, <2>5 DEF Told, Landed, Place, Deleted
  <2>7. KeepsTheRest'
    BY <2>1, <2>5 DEF Told, KeepsTheRest, Place
  <2>8. ImportFailsForCause'
    BY <1>1 DEF exchangeVars, Told, ImportFailsForCause, Met, ListedTwice, Seen, Items
  <2> QED BY <2>4, <2>6, <2>7, <2>8 DEF Told
<1>2. CASE ExchangeNext
  <2>1. PICK site \in Sites :
        \/ \E org \in Orgs : \E ids \in SUBSET Templates(db[site], org) : Export(site, org, ids)
        \/ \E org \in Orgs, policy \in Policies : Import(site, org, policy)
        \/ \E org \in Orgs :
              CreateTemplate(site, org) \/ CreateGroup(site, org) \/ CreateVcs(site, org)
        \/ \E i \in DOMAIN db[site].rows :
              \/ Change(site, i) \/ Relink(site, i) \/ DeleteTemplate(site, i)
              \/ DeleteGroup(site, i) \/ CheckVcs(site, i) \/ DeleteVcs(site, i)
    BY <1>2 DEF ExchangeNext
  <2>2. CASE \E org \in Orgs, policy \in Policies : Import(site, org, policy)
    <3>1. PICK org \in Orgs, policy \in Policies : Import(site, org, policy)
      BY <2>2
    <3>2. IInv'
      BY <3>1, ImportInv
    <3>3. PICK s : Imports(site, org, policy, s)
      BY <3>1, ImportFacts
    <3> QED BY <3>2, <3>3, ImportLands, ImportKeeps, ImportHasCause DEF Told
  <2>3. IInv' /\ Idle => IInv' /\ Told'
    BY IdleSaysNothing DEF Told
  <2>4. CASE \E org \in Orgs : \E ids \in SUBSET Templates(db[site], org) : Export(site, org, ids)
    BY <2>3, <2>4, ExportInv
  <2>5. CASE \E org \in Orgs :
              CreateTemplate(site, org) \/ CreateGroup(site, org) \/ CreateVcs(site, org)
    BY <2>3, <2>5, CreateInv
  <2>6. CASE \E i \in DOMAIN db[site].rows :
              \/ Change(site, i) \/ Relink(site, i) \/ DeleteTemplate(site, i)
              \/ DeleteGroup(site, i) \/ CheckVcs(site, i) \/ DeleteVcs(site, i)
    BY <2>3, <2>6, ChangeInv, RelinkInv, DeleteTemplateInv, DeleteGroupInv, CheckVcsInv, DeleteVcsInv
  <2> QED BY <2>1, <2>2, <2>4, <2>5, <2>6
<1> QED BY <1>1, <1>2

(* Every table keeps its shape: identifiers are never given twice, and      *)
(* links, variables and services hang on rows of their kind, whatever is    *)
(* exported, imported, changed and deleted meanwhile.                       *)
THEOREM TablesCorrect == ExchangeSpec => []TablesOK
  BY InitInv, NextInv, PTL DEF ExchangeSpec, IInv

(* A template that is not deleted has its service, unless it was given one  *)
(* that was about to be deleted.                                            *)
THEOREM ServiceCorrect == ExchangeSpec => []HasService
<1>1. IInv => HasService
  BY DEF IInv
<1> QED BY <1>1, InitInv, NextInv, PTL DEF ExchangeSpec

(* What an import did not skip is there with the contents of the file, its  *)
(* service, groups and variables where the import has put them.             *)
THEOREM LandedCorrect == ExchangeSpec => []Landed
<1>1. Told => Landed
  BY DEF Told
<1> QED BY <1>1, InitInv, NextInv, PTL DEF ExchangeSpec

(* An import changes nothing but what it is to update, and a copy refers to *)
(* nothing that was there before.                                           *)
THEOREM KeptCorrect == ExchangeSpec => []KeepsTheRest
<1>1. Told => KeepsTheRest
  BY DEF Told
<1> QED BY <1>1, InitInv, NextInv, PTL DEF ExchangeSpec

(* An import fails for a row that is there already, a row of others to      *)
(* update, or a group whose name one of the other type bears; never because *)
(* a name it made itself was taken.                                         *)
THEOREM CauseCorrect == ExchangeSpec => []ImportFailsForCause
<1>1. Told => ImportFailsForCause
  BY DEF Told
<1> QED BY <1>1, InitInv, NextInv, PTL DEF ExchangeSpec
=============================================================================
