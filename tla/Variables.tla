------------------------------ MODULE Variables ------------------------------
(***************************************************************************)
(* The variables an environment is deployed with.  A variable is set in    *)
(* one of four scopes, or belongs to a group (a resource account) bound to *)
(* scopes; the values that hold in a deployment are computed from all of   *)
(* them.  One organization with one project, template and environment: a   *)
(* scope names the object.  The database is MySQL: a transaction reads the *)
(* state of its first read, and writes the rows as they are.               *)
(***************************************************************************)
EXTENDS Naturals, FiniteSets, Sequences

CONSTANTS
    Names,      \* of variables
    Secrets,    \* those whose value is not shown, and may be left blank in a form
    Groups,
    Sessions,   \* users, each making one call at a time
    Setups      \* what the runs start from, which calls are made, and the bound: how many

ASSUME VariablesAssumption ==
    /\ Secrets \subseteq Names
    /\ \A setup \in Setups :
         /\ setup.calls \subseteq {"update", "batch", "bind", "form", "group", "drop"}
         /\ setup.groups \in [Groups -> SUBSET Names]
         /\ setup.plain \subseteq Names /\ setup.bound \subseteq Groups
         /\ setup.users \subseteq Sessions /\ setup.each \in Nat /\ setup.most \in Nat

VARIABLES
    setup,
    rows,      \* database: the variables of each scope, with the call that made and set each
    groups,    \* database: the variables of each group
    live,      \* database: groups not deleted
    bound,     \* database: rows that bind a group to a scope
    granted,   \* database: groups the project may use
    at, mem,   \* the call each session makes, and what it has read
    calls,     \* calls begun so far
    settled    \* history: what the last call on a scope asked for, if no other was under way

dbVars == <<rows, groups, live, bound, granted>>
vars == <<setup, dbVars, at, mem, calls, settled>>

(* consts.VariableGroupEnv and consts.SortedVarScopes, lowest first: groups *)
(* and variables are taken in different orders.                             *)
GroupScopes == <<"org", "project", "template", "env">>
PlainScopes == <<"org", "template", "project", "env">>
Scopes == {"org", "project", "template", "env"}

Row(n) == [id |-> n, value |-> n]
Partial(S, T) == UNION {[D -> T] : D \in SUBSET S}

NoMem == [scope |-> "org", call |-> 0, form |-> <<>>, seen |-> <<>>, alone |-> TRUE]

Init ==
    /\ setup \in Setups
    /\ \E plain \in [Scopes -> SUBSET setup.plain] :
          rows = [s \in Scopes |-> [n \in plain[s] |-> Row(0)]]
    /\ groups = [g \in Groups |-> [n \in setup.groups[g] |-> 0]]
    /\ live = Groups
    /\ \E to \in [Scopes -> SUBSET setup.bound] :
          bound = [s \in Scopes |-> [g \in Groups |-> IF g \in to[s] THEN 1 ELSE 0]]
    /\ granted = Groups
    /\ at = [s \in Sessions |-> "idle"] /\ mem = [s \in Sessions |-> NoMem]
    /\ calls = 0
    /\ settled = [s \in Scopes |-> <<>>]

-----------------------------------------------------------------------------
(* The values of a deployment.                                              *)

(* MatchVarGroup.                                                           *)
Match(g, h) == DOMAIN groups[g] \intersect DOMAIN groups[h] # {}

(* GetVariableGroupByObject: a row of a deleted group is not found.         *)
BoundTo(scope) == {g \in live : bound[scope][g] > 0}
Twice == {g \in live : bound["org"][g] > 1}

(* Variant: the groups of the scopes before all stay.                       *)
AddLevelKeeping(found, scope) ==
    [g \in DOMAIN found \union BoundTo(scope) |-> IF g \in BoundTo(scope) THEN scope ELSE found[g]]

(* addVarGroupRel and the loop around it: the groups of a scope replace     *)
(* those of the scopes before with which they share a name, whole.  found   *)
(* gives the scope of each group that is left.                              *)
AddLevel(found, scope) ==
    LET kept == {g \in DOMAIN found : \A h \in BoundTo(scope) : ~Match(g, h)}
    IN  [g \in kept \union BoundTo(scope) |-> IF g \in BoundTo(scope) THEN scope ELSE found[g]]

(* The organization's groups come first and are not compared, but a second  *)
(* row of a group is: what it replaces depends on the order of the rows.    *)
FirstLevels ==
    {[g \in BoundTo("org") \ gone |-> "org"] :
        gone \in SUBSET {g \in BoundTo("org") : \E h \in Twice \ {g} : Match(g, h)}}

(* SearchVariableGroupRel: the loop over the scopes that follow.            *)
GroupsFound ==
    {AddLevel(AddLevel(AddLevel(first, GroupScopes[2]), GroupScopes[3]), GroupScopes[4]) :
        first \in FirstLevels}

Source(kind, scope, group) == [kind |-> kind, scope |-> scope, group |-> group]
NoGroup == "no group"

(* The last of the scopes of S, in the order given.                         *)
LastOf(order, S) == order[CHOOSE i \in DOMAIN order :
                            order[i] \in S /\ \A j \in DOMAIN order : j > i => order[j] \notin S]

(* getNewVarsMap, MergeVariableGroupVars: where the value of a name comes   *)
(* from.  Groups found with the same name are met in any order.             *)
Sources(found, n) ==
    LET plain == {s \in Scopes : n \in DOMAIN rows[s]}
        having == {g \in DOMAIN found : n \in DOMAIN groups[g]}
        Merged(g) == LET s == LastOf(PlainScopes, plain \union {found[g]})
                     IN  IF s \in plain THEN Source("plain", s, NoGroup) ELSE Source("group", s, g)
    IN  IF having # {} THEN {Merged(g) : g \in having}
        ELSE IF plain # {} THEN {Source("plain", LastOf(PlainScopes, plain), NoGroup)} ELSE {}

(* GetValidVarsAndVgVars: every outcome a deployment may meet.              *)
Outcomes ==
    LET all == GroupsFound
    IN  [n \in Names |-> UNION {Sources(found, n) : found \in all}]

-----------------------------------------------------------------------------
(* The calls.                                                               *)

Ready(s, call) ==
    /\ call \in setup.calls /\ s \in setup.users
    /\ at[s] = "idle" /\ calls < setup.most

Begin(s, call, m) ==
    /\ calls' = calls + 1
    /\ at' = [at EXCEPT ![s] = call]
    /\ mem' = [mem EXCEPT ![s] = [m EXCEPT !.call = calls + 1,
                                           !.alone = \A r \in Sessions : at[r] = "idle"]]
    /\ UNCHANGED <<setup, dbVars, settled>>

(* A call ends; those under way are no longer alone.                        *)
Ends(s) ==
    /\ at' = [at EXCEPT ![s] = "idle"]
    /\ mem' = [r \in Sessions |-> IF r = s THEN NoMem ELSE [mem[r] EXCEPT !.alone = FALSE]]
    /\ UNCHANGED <<setup, calls>>

Fails(s) ==
    /\ Ends(s) /\ UNCHANGED <<dbVars, settled>>

(* UpdateObjectVars, OperationVariables: a form gives names a value, or     *)
(* leaves a secret blank; it is made from what the transaction or the user  *)
(* has read.  A full update deletes the names the form does not have, a     *)
(* batch those it says.                                                     *)
Forms == {f \in Partial(Names, {"set", "blank"}) : \A n \in DOMAIN f : f[n] = "blank" => n \in Secrets}

SubmitVars(s, call) ==
    /\ call \in {"update", "batch"} /\ Ready(s, call)
    /\ \E scope \in {"env"}, form \in Forms :
       \E drop \in (IF call = "batch" THEN SUBSET (DOMAIN rows[scope] \ DOMAIN form)
                    ELSE {DOMAIN rows[scope] \ DOMAIN form}) :
          Begin(s, call, [NoMem EXCEPT !.scope = scope, !.form = <<form, drop>>, !.seen = rows[scope]])

(* Variant: a full update deletes nothing.                                  *)
StaysListed(s, n) == at[s] = "update" \/ n \notin mem[s].form[2]

(* A full update deletes by name, a batch by the id it was given.           *)
Stays(s, n) ==
    LET m == mem[s] IN
    n \in m.form[2] => at[s] = "batch" /\ m.seen[n].id # rows[m.scope][n].id

(* insertVars, updateOrCreateVars: a name that was read is updated by its   *)
(* id, unless it is a secret left blank; one that was not is inserted.      *)
Updated(s, n) ==
    LET m == mem[s]
        row == rows[m.scope][n]
    IN  IF m.form[1][n] = "set" /\ m.seen[n].id = row.id THEN [row EXCEPT !.value = m.call] ELSE row

Inserted(s, n) ==
    [id |-> mem[s].call, value |-> IF mem[s].form[1][n] = "set" THEN mem[s].call ELSE 0]

(* What the call should make of what it has read.                           *)
Asked(s) ==
    LET m == mem[s]
        form == m.form[1]
    IN  [n \in DOMAIN form \union (DOMAIN m.seen \ m.form[2]) |->
            IF n \in DOMAIN form /\ form[n] = "set" THEN m.call
            ELSE IF n \in DOMAIN m.seen THEN m.seen[n].value ELSE 0]

WriteVars(s) ==
    LET m == mem[s]
        stored == rows[m.scope]
        listed == DOMAIN m.form[1]
        new == listed \ DOMAIN m.seen
        left == {n \in DOMAIN stored : Stays(s, n)}
    IN  /\ at[s] \in {"update", "batch"}
        /\ IF new \intersect left # {}
           THEN Fails(s)                           \* the unique index: rolled back
           ELSE /\ rows' = [rows EXCEPT ![m.scope] =
                     [n \in left \union new |->
                        IF n \in new THEN Inserted(s, n)
                        ELSE IF n \in listed THEN Updated(s, n) ELSE stored[n]]]
                /\ settled' = [settled EXCEPT ![m.scope] = IF m.alone THEN <<Asked(s)>> ELSE <<>>]
                /\ Ends(s) /\ UNCHANGED <<groups, live, bound, granted>>

(* BatchUpdateRelationship ("bind") refuses a group which shares a name with *)
(* one that stays bound; BatchUpdateVarGroupObjectRel ("form": the forms of *)
(* templates and environments) does not.  Where the project is known the    *)
(* group must be granted to it.                                             *)
Allowed(call, scope, add, del) ==
    /\ call = "bind" => \A g \in add, h \in BoundTo(scope) \ del : ~Match(g, h)
    /\ scope \in {"project", "env"} => add \subseteq granted

Bind(s, call) ==
    /\ call \in {"bind", "form"} /\ Ready(s, call)
    /\ \E scope \in (IF call = "bind" THEN Scopes ELSE {"template", "env"}),
          add \in SUBSET live, del \in SUBSET Groups :
          /\ Cardinality(add) <= setup.each /\ add \union del # {}
          /\ \A g \in del : bound[scope][g] > 0
          /\ Allowed(call, scope, add, del)
          /\ Begin(s, call, [NoMem EXCEPT !.scope = scope, !.form = <<add, del>>])

WriteBind(s) ==
    LET m == mem[s]
        add == m.form[1]
        del == m.form[2]
    IN  /\ at[s] \in {"bind", "form"}
        /\ bound' = [bound EXCEPT ![m.scope] =
              [g \in Groups |-> (IF g \in del THEN 0 ELSE @[g]) + (IF g \in add THEN 1 ELSE 0)]]
        /\ Ends(s) /\ UNCHANGED <<rows, groups, live, granted, settled>>

(* UpdateVariableGroup: the group is read before the transaction, for the   *)
(* secrets left blank; the variables are stored whole.                      *)
EditGroup(s) ==
    /\ Ready(s, "group")
    /\ \E g \in live, form \in Forms, grant \in BOOLEAN :
          Begin(s, "group", [NoMem EXCEPT !.form = <<g, form, grant>>, !.seen = groups[g]])

WriteGroup(s) ==
    LET m == mem[s]
        g == m.form[1]
        form == m.form[2]
    IN  /\ at[s] = "group"
        /\ groups' = IF g \notin live THEN groups ELSE [groups EXCEPT ![g] =
              [n \in DOMAIN form |-> IF form[n] = "set" THEN m.call
                                     ELSE IF n \in DOMAIN m.seen THEN m.seen[n] ELSE 0]]
        /\ granted' = IF m.form[3] THEN granted \union {g} ELSE granted \ {g}
        /\ Ends(s) /\ UNCHANGED <<rows, live, bound, settled>>

(* DeleteVariableGroup, in one transaction.                                 *)
DropGroup(s) ==
    /\ Ready(s, "drop")
    /\ \E g \in live :
          /\ live' = live \ {g}
          /\ bound' = [scope \in Scopes |-> [bound[scope] EXCEPT ![g] = 0]]
          /\ granted' = granted \ {g}
    /\ calls' = calls + 1
    /\ mem' = [r \in Sessions |-> [mem[r] EXCEPT !.alone = FALSE]]
    /\ UNCHANGED <<setup, rows, groups, at, settled>>

Next ==
    \E s \in Sessions :
        \/ \E call \in setup.calls : SubmitVars(s, call) \/ Bind(s, call)
        \/ WriteVars(s) \/ WriteBind(s) \/ EditGroup(s) \/ WriteGroup(s) \/ DropGroup(s)

Spec == Init /\ [][Next]_vars
-----------------------------------------------------------------------------
(* Properties.                                                              *)

(* The tables have the shapes declared.                                     *)
TypeOK ==
    /\ setup \in Setups /\ calls \in Nat
    /\ rows \in [Scopes -> Partial(Names, [id : 0..calls, value : 0..calls])]
    /\ bound \in [Scopes -> [Groups -> Nat]]
    /\ groups \in [Groups -> Partial(Names, 0..calls)]
    /\ live \subseteq Groups /\ granted \subseteq Groups
    /\ at \in [Sessions -> {"idle", "update", "batch", "bind", "form", "group"}]

(* The documentation forbids two groups with a name in common on one        *)
(* object: a name then has two values, and a deployment takes either.       *)
NoSameLevelConflict ==
    \A scope \in Scopes : \A g, h \in BoundTo(scope) : g # h => ~Match(g, h)

(* A user alone who binds one group at a time is kept from such a conflict, *)
(* whatever else he binds, unbinds or deletes.                              *)
CheckedApart ==
    setup.each = 1 /\ Cardinality(setup.users) = 1 /\ setup.calls \subseteq {"bind", "drop"}
    /\ setup.bound = {} => NoSameLevelConflict

(* The scopes nearer than one.  The documentation has one order for         *)
(* variables and groups alike: organization, template, project, environment *)
(* (variables.md, resource-account.md).                                     *)
Nearer(scope) ==
    {PlainScopes[j] : j \in {j \in DOMAIN PlainScopes :
                               \E i \in DOMAIN PlainScopes : i < j /\ PlainScopes[i] = scope}}

(* A group holds in a scope unless one bound to a nearer scope shares a     *)
(* name with it.                                                            *)
Holds(g, scope) ==
    /\ g \in BoundTo(scope)
    /\ \A nearer \in Nearer(scope) : \A h \in BoundTo(nearer) : ~Match(g, h)

(* The value of a name comes from the nearest scope that sets it or where a *)
(* group with it holds, and the variable of a scope comes before its groups.*)
Nearest(n) ==
    LET plain == {s \in Scopes : n \in DOMAIN rows[s]}
        here  == {x \in Groups \X Scopes : n \in DOMAIN groups[x[1]] /\ Holds(x[1], x[2])}
        level == LastOf(PlainScopes, plain \union {x[2] : x \in here})
    IN  IF plain = {} /\ here = {} THEN {}
        ELSE IF level \in plain THEN {Source("plain", level, NoGroup)}
        ELSE {Source("group", level, x[1]) : x \in {y \in here : y[2] = level}}

(* Without a conflict in one scope, a deployment has the value of the       *)
(* nearest scope for each name, by the one order documented.  It is the     *)
(* order of the code for variables, but not for groups.                     *)
OneOrder == NoSameLevelConflict => LET outcomes == Outcomes IN \A n \in Names : outcomes[n] = Nearest(n)

(* The two orders differ in the project and the template only.              *)
OrdersAgree == \A g \in BoundTo("project"), h \in BoundTo("template") : ~Match(g, h)

(* Where no group of the project shares a name with one of the template, a  *)
(* deployment does have the one value documented for each name.             *)
NearestWins == OrdersAgree => OneOrder

(* A call that no other overlaps does to the variables of its scope what it *)
(* was asked, though it deletes, updates and inserts one by one: a full     *)
(* update leaves the names of the form only, a batch leaves what it does    *)
(* not name, and a secret left blank keeps its value.                       *)
UpdateIsWhole ==
    \A scope \in Scopes : settled[scope] # <<>> =>
        [n \in DOMAIN rows[scope] |-> rows[scope][n].value] = settled[scope][1]

(* UpdateVariableGroup gives a secret left blank the value that is stored:  *)
(* a value that has been replaced does not come back.                       *)
SecretsMoveOn ==
    [][\A g \in Groups : \A n \in DOMAIN groups[g] \intersect DOMAIN groups'[g] :
          groups'[g][n] >= groups[g][n] \/ groups'[g][n] = 0]_vars
=============================================================================
