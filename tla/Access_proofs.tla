----------------------------- MODULE Access_proofs -----------------------------
(***************************************************************************)
(* Theorems of Access, for any users, units, roles, sessions and number of *)
(* calls: a login fails only where rows of its user were written during it *)
(* or two grants of one unit met, a login leaves the role it should, and   *)
(* no one keeps a role given by hand in a project whose organization he    *)
(* has left.                                                               *)
(***************************************************************************)
EXTENDS Access, FiniteSetTheorems, TLAPS

USE AccessAssumption

-----------------------------------------------------------------------------
(* What a call holds.  The users checked are all members: CheckMembers lets *)
(* no other through.                                                        *)
Ops == {"none", "login", "remove", "assign", "update", "authUser", "authOU"}

Held(m) ==
    /\ m.op \in Ops
    /\ m.op = "login" => /\ m.nr \in 0..MaxCalls /\ m.user \in Users
                         /\ \A s \in Places : m.mine[s] \subseteq Grant
    /\ m.op = "remove" => m.user \in Users
    /\ m.op \in {"assign", "update"} => /\ m.nr \in 0..MaxCalls /\ m.role \in Roles
                                        /\ m.users \subseteq Users /\ m.members = m.users
    /\ m.op = "authUser" => m.nr \in 0..MaxCalls /\ m.role \in Roles /\ m.users \subseteq Users
    /\ m.op = "authOU" => /\ m.nr \in 0..MaxCalls /\ m.role \in Roles
                          /\ m.place \in Places /\ m.unit \in Units

CallsHeld ==
    /\ call = [c \in Sessions |-> call[c]]
    /\ \A c \in Sessions : Held(call[c])

Rels == [Places -> [Users -> Row \cup {NoRow}]]
Typed == TypeOK /\ CallsHeld /\ grants = [s \in Places |-> grants[s]]

LEMMA TypedInit == Init => Typed
<1> SUFFICES ASSUME Init PROVE Typed
  OBVIOUS
<1>1. rel \in Rels
  BY DEF Init, Rels
<1>2. grants = [s \in Places |-> grants[s]] /\ \A s \in Places : grants[s] \subseteq Grant
  BY DEF Init
<1>3. CallsHeld
  BY DEF Init, CallsHeld, Held, Ops
<1>4. /\ unit \in [Users -> Units \cup {NoRow}]
      /\ calls \in 0..MaxCalls /\ loose \subseteq Users /\ crossed \in BOOLEAN
  <2>1. unit \in [Users -> Units \cup {NoRow}]
    BY Zenon DEF Init
  <2>2. calls = 0 /\ loose = {}
    BY Zenon DEF Init
  <2>3. crossed \in BOOLEAN
    BY Zenon DEF Init
  <2> QED BY <2>1, <2>2, <2>3
<1> QED BY <1>1, <1>2, <1>3, <1>4 DEF Typed, TypeOK, CallsHeld, Held, Ops, Rels

(* A session begins a call, or ends one, and the others are as they were.   *)
LEMMA BeginHeld ==
  ASSUME CallsHeld, NEW c \in Sessions, NEW made, Begin(c, made), Held(made)
  PROVE  /\ CallsHeld' /\ call'[c] = made
         /\ \A e \in Sessions \ {c} : call'[e] = call[e]
BY DEF CallsHeld, Begin

LEMMA EndHeld ==
  ASSUME CallsHeld, NEW c \in Sessions, NEW result, End(c, result)
  PROVE  /\ CallsHeld' /\ call'[c] = [op |-> "none", result |-> result]
         /\ \A e \in Sessions \ {c} : call'[e] = call[e]
<1>1. Held([op |-> "none", result |-> result])
  BY DEF Held, Ops
<1> QED BY <1>1 DEF CallsHeld, End

(* A call that begins, and writes nothing but what it holds and, when a     *)
(* member is removed, the row in the organization.                          *)
LEMMA TypedBegin ==
  ASSUME Typed, NEW c \in Sessions,
         \/ \E u \in Users : Login(c, u) \/ DeleteUserOrgRel(c, u)
         \/ \E us \in SUBSET Users, r \in Roles :
               CheckMembers(c, us, r, "assign") \/ CheckMembers(c, us, r, "update")
               \/ AuthLdapUser(c, us, r)
         \/ \E s \in Places, d \in Units, r \in Roles : AuthOU(c, s, d, r)
  PROVE  Typed' /\ (\A e \in Sessions \ {c} : call'[e] = call[e]) /\ call[c].op = "none"
<1>0. CallsHeld /\ (calls < MaxCalls /\ calls' = calls + 1 => calls' \in 0..MaxCalls)
  BY DEF Typed, TypeOK
<1>1. ASSUME NEW u \in Users, Login(c, u)
      PROVE  Typed' /\ (\A e \in Sessions \ {c} : call'[e] = call[e]) /\ call[c].op = "none"
  <2> DEFINE made == [op |-> "login", nr |-> calls', user |-> u, unit |-> unit[u],
                      found |-> [s \in Places |-> rel[s][u]],
                      mine |-> [s \in Places |-> Granted(s, unit[u])]]
  <2>1. calls' \in 0..MaxCalls /\ Begin(c, made) /\ call[c].op = "none"
        /\ UNCHANGED <<rel, grants, unit, loose, crossed>>
    BY <1>0, <1>1 DEF Login, Calls, Free
  <2>2. Held(made)
    BY <2>1 DEF Held, Ops, Typed, TypeOK, Granted
  <2> HIDE DEF made
  <2> QED BY <1>0, <2>1, <2>2, BeginHeld DEF Typed, TypeOK, CallsHeld, Held, Ops
<1>2. ASSUME NEW u \in Users, DeleteUserOrgRel(c, u)
      PROVE  Typed' /\ (\A e \in Sessions \ {c} : call'[e] = call[e]) /\ call[c].op = "none"
  <2> DEFINE made == [op |-> "remove", user |-> u]
  <2>1. /\ calls' \in 0..MaxCalls /\ Begin(c, made) /\ call[c].op = "none"
        /\ UNCHANGED <<grants, unit, loose, crossed>>
        /\ rel' = [rel EXCEPT !["org"][u] = NoRow]
    BY <1>0, <1>2 DEF DeleteUserOrgRel, Calls, Free
  <2>2. Held(made)
    BY DEF Held, Ops
  <2> HIDE DEF made
  <2>3. rel' \in Rels
    BY <2>1 DEF Typed, TypeOK, Rels
  <2> QED BY <1>0, <2>1, <2>2, <2>3, BeginHeld DEF Typed, TypeOK, CallsHeld, Held, Ops, Rels
<1>3. ASSUME NEW us \in SUBSET Users, NEW r \in Roles, NEW op \in {"assign", "update"},
             CheckMembers(c, us, r, op)
      PROVE  Typed' /\ (\A e \in Sessions \ {c} : call'[e] = call[e]) /\ call[c].op = "none"
  <2> DEFINE made == [op |-> op, nr |-> calls', users |-> us, role |-> r,
                      members |-> {u \in us : IsMember(u)}]
  <2>1. /\ calls' \in 0..MaxCalls /\ Begin(c, made) /\ call[c].op = "none"
        /\ UNCHANGED <<rel, grants, unit, loose, crossed>>
        /\ \A u \in us : IsMember(u)
    BY <1>0, <1>3 DEF CheckMembers, Calls, Free
  <2>2. Held(made)
    <3>1. {u \in us : IsMember(u)} = us
      BY <2>1
    <3> QED BY <2>1, <3>1 DEF Held, Ops
  <2> HIDE DEF made
  <2> QED BY <1>0, <2>1, <2>2, BeginHeld DEF Typed, TypeOK, CallsHeld, Held, Ops
<1>4. ASSUME NEW us \in SUBSET Users, NEW r \in Roles, AuthLdapUser(c, us, r)
      PROVE  Typed' /\ (\A e \in Sessions \ {c} : call'[e] = call[e]) /\ call[c].op = "none"
  <2> DEFINE made == [op |-> "authUser", nr |-> calls', role |-> r, users |-> us,
                      found |-> [u \in us |-> rel["org"][u]]]
  <2>1. calls' \in 0..MaxCalls /\ Begin(c, made) /\ call[c].op = "none"
        /\ UNCHANGED <<rel, grants, unit, loose, crossed>>
    BY <1>0, <1>4 DEF AuthLdapUser, Calls, Free
  <2>2. Held(made)
    BY <2>1 DEF Held, Ops
  <2> HIDE DEF made
  <2> QED BY <1>0, <2>1, <2>2, BeginHeld DEF Typed, TypeOK, CallsHeld, Held, Ops
<1>5. ASSUME NEW s \in Places, NEW d \in Units, NEW r \in Roles, AuthOU(c, s, d, r)
      PROVE  Typed' /\ (\A e \in Sessions \ {c} : call'[e] = call[e]) /\ call[c].op = "none"
  <2> DEFINE made == [op |-> "authOU", nr |-> calls', place |-> s, unit |-> d, role |-> r,
                      found |-> Granted(s, d)]
  <2>1. /\ calls' \in 0..MaxCalls /\ Begin(c, made) /\ call[c].op = "none"
        /\ UNCHANGED <<rel, grants, unit, loose>>
    BY <1>0, <1>5 DEF AuthOU, Calls, Free
  <2>2. Held(made)
    BY <2>1 DEF Held, Ops
  <2>3. crossed' \in BOOLEAN
    BY <1>5, Zenon DEF AuthOU
  <2> HIDE DEF made
  <2> QED BY <1>0, <2>1, <2>2, <2>3, BeginHeld DEF Typed, TypeOK, CallsHeld, Held, Ops
<1> QED BY <1>1, <1>2, <1>3, <1>4, <1>5

(* A call that ends.                                                        *)
LEMMA TypedEnd ==
  ASSUME Typed, NEW c \in Sessions, Someone(c)
  PROVE  Typed' /\ \A e \in Sessions \ {c} : call'[e] = call[e]
<1> DEFINE m == call[c]
<1>0. /\ CallsHeld /\ Held(m) /\ rel \in Rels
      /\ loose \subseteq Users /\ \A s \in Places : grants[s] \subseteq Grant
  BY DEF Typed, TypeOK, CallsHeld, Rels
<1>1. PICK result : End(c, result)
  BY Zenon DEF Someone, LoginUnrefreshed, Refresh, DeleteUserAllProject, CreateProjectUser,
        UpdateProjectUser, CreateLdapUserOrg, CreateOUOrg, CreateOUProject, CreateOU, Cut
<1>2. CallsHeld' /\ \A e \in Sessions \ {c} : call'[e] = call[e]
  BY <1>0, <1>1, EndHeld
<1> SUFFICES Typed'
  BY <1>2
<1>3. ASSUME rel' \in Rels, UNCHANGED grants,
             UNCHANGED unit, calls' \in 0..MaxCalls, loose' \subseteq Users
      PROVE  Typed'
  <2>1. crossed' \in BOOLEAN
    BY Zenon DEF Someone, LoginUnrefreshed, Refresh, DeleteUserAllProject, CreateProjectUser,
          UpdateProjectUser, CreateLdapUserOrg, CreateOUOrg, CreateOUProject, CreateOU, Cut,
          Typed, TypeOK
  <2> QED BY <1>2, <1>3, <2>1 DEF Typed, TypeOK, CallsHeld, Held, Ops, Rels
<1>4. calls \in 0..MaxCalls /\ (Calls => calls' \in 0..MaxCalls)
  BY DEF Typed, TypeOK, Calls
<1> HIDE DEF m
<1>5. CASE LoginUnrefreshed(c)
  BY <1>0, <1>3, <1>4, <1>5 DEF LoginUnrefreshed
<1>6. CASE Refresh(c)
  <2>1. m.op = "login" /\ m.nr \in 0..MaxCalls /\ m.user \in Users
        /\ \A s \in Places : m.mine[s] \subseteq Grant
    BY <1>0, <1>6 DEF Refresh, Held, m
  <2>2. \A s \in Places : Refreshed(s, m) \in Row \cup {NoRow}
    <3> SUFFICES ASSUME NEW s \in Places PROVE Refreshed(s, m) \in Row \cup {NoRow}
      OBVIOUS
    <3>1. Kept(s, m.user) \in Row \cup {NoRow}
      BY <1>0, <2>1 DEF Kept, Rels
    <3>2. ASSUME Inserted(s, m) # {}
          PROVE  (CHOOSE g \in Inserted(s, m) : TRUE).role \in Roles
      <4>1. (CHOOSE g \in Inserted(s, m) : TRUE) \in Inserted(s, m)
        BY <3>2
      <4>2. Inserted(s, m) \subseteq Grant
        BY <2>1 DEF Inserted
      <4> QED BY <4>1, <4>2 DEF Grant
    <3> QED BY <2>1, <3>1, <3>2 DEF Refreshed, Row
  <2>3. /\ rel' = rel \/ rel' = [s \in Places |-> [rel[s] EXCEPT ![m.user] = Refreshed(s, m)]]
        /\ loose' = loose \/ loose' = loose \cup {m.user}
        /\ UNCHANGED <<grants, unit, calls>>
    BY <1>6 DEF Refresh, m
  <2>4. rel' \in Rels
    BY <1>0, <2>1, <2>2, <2>3 DEF Rels
  <2> QED BY <1>0, <1>3, <1>4, <2>1, <2>3, <2>4
<1>7. CASE DeleteUserAllProject(c)
  <2>1. m.user \in Users /\ rel' = [rel EXCEPT !["project"][m.user] = NoRow]
        /\ UNCHANGED <<grants, unit, calls, loose>>
    BY <1>0, <1>7 DEF DeleteUserAllProject, Held, m
  <2>2. rel' \in Rels
    BY <1>0, <2>1 DEF Places, Rels
  <2> QED BY <1>0, <1>3, <1>4, <2>1, <2>2
<1>8. CASE CreateProjectUser(c)
  <2>1. m.nr \in 0..MaxCalls /\ m.role \in Roles /\ m.users \subseteq Users /\ m.members = m.users
    BY <1>0, <1>8 DEF CreateProjectUser, Held, m
  <2>2. /\ \/ rel' = rel
           \/ rel' = [rel EXCEPT !["project"] = [u \in Users |->
                  IF u \in m.users THEN [id |-> m.nr, role |-> m.role, ldap |-> FALSE] ELSE @[u]]]
        /\ loose' = loose \/ loose' = loose \cup {u \in m.members : ~IsMember(u)}
        /\ UNCHANGED <<grants, unit, calls>>
    BY <1>8 DEF CreateProjectUser, m
  <2>3. rel' \in Rels
    <3> DEFINE new == [id |-> m.nr, role |-> m.role, ldap |-> FALSE]
               row(u) == IF u \in m.users THEN new ELSE rel["project"][u]
    <3>1. new \in Row
      BY <2>1 DEF Row
    <3>2. rel' = rel \/ rel' = [rel EXCEPT !["project"] = [u \in Users |-> row(u)]]
      BY <2>2
    <3> HIDE DEF new
    <3>3. \A u \in Users : row(u) \in Row \cup {NoRow}
      BY <1>0, <3>1 DEF Places, Rels
    <3> HIDE DEF row
    <3> QED BY <1>0, <3>2, <3>3 DEF Places, Rels
  <2> QED BY <1>0, <1>3, <1>4, <2>1, <2>2, <2>3
<1>9. CASE UpdateProjectUser(c)
  <2>1. m.role \in Roles /\ m.users \subseteq Users
        /\ UNCHANGED <<grants, unit, calls, loose>>
    BY <1>0, <1>9 DEF UpdateProjectUser, Held, m
  <2>2. PICK u \in m.users : rel' = [rel EXCEPT !["project"][u] =
                                       IF @ = NoRow THEN NoRow ELSE [@ EXCEPT !.role = m.role]]
    BY <1>9 DEF UpdateProjectUser, m
  <2>3. ASSUME NEW row \in Row PROVE [row EXCEPT !.role = m.role] \in Row
    BY <2>1 DEF Row
  <2>4. rel' \in Rels
    BY <1>0, <2>1, <2>2, <2>3 DEF Places, Rels
  <2> QED BY <1>0, <1>3, <1>4, <2>1, <2>4
<1>10. CASE CreateLdapUserOrg(c)
  <2> DEFINE Written(u) ==
               IF m.found[u] = NoRow THEN [id |-> m.nr, role |-> m.role, ldap |-> FALSE]
               ELSE IF IsMember(u) /\ rel["org"][u].id = m.found[u].id
                    THEN [rel["org"][u] EXCEPT !.role = m.role]
               ELSE rel["org"][u]
  <2>1. m.nr \in 0..MaxCalls /\ m.role \in Roles /\ m.users \subseteq Users
        /\ UNCHANGED <<grants, unit, calls, loose>>
    BY <1>0, <1>10 DEF CreateLdapUserOrg, Held, m
  <2>2. \/ rel' = rel
        \/ rel' = [rel EXCEPT !["org"] = [u \in Users |-> IF u \in m.users THEN Written(u) ELSE @[u]]]
    BY <1>10 DEF CreateLdapUserOrg, m
  <2>3. ASSUME NEW u \in Users PROVE Written(u) \in Row \cup {NoRow}
    <3>1. rel["org"][u] \in Row \cup {NoRow}
      BY <1>0 DEF Places, Rels
    <3> QED BY <2>1, <3>1 DEF Row, IsMember
  <2> HIDE DEF Written
  <2>4. rel' \in Rels
    BY <1>0, <2>1, <2>2, <2>3 DEF Places, Rels
  <2> QED BY <1>0, <1>3, <1>4, <2>1, <2>4
<1>11. CASE \E s \in Places : CreateOU(c, s)
  <2>1. /\ m.nr \in 0..MaxCalls /\ m.role \in Roles /\ m.place \in Places /\ m.unit \in Units
        /\ UNCHANGED <<rel, unit, calls, loose>> /\ crossed' \in BOOLEAN
    <3>1. crossed' \in BOOLEAN
      BY <1>11, Zenon DEF CreateOU, Typed, TypeOK
    <3> QED BY <1>0, <1>11, <3>1 DEF CreateOU, Held, m
  <2>2. \/ grants' = [grants EXCEPT ![m.place] =
                        @ \cup {[id |-> m.nr, unit |-> m.unit, role |-> m.role]}]
        \/ \E g \in m.found : grants' = [grants EXCEPT ![m.place] =
              {IF h.unit = g.unit /\ h.id = g.id THEN [h EXCEPT !.role = m.role] ELSE h : h \in @}]
    BY <1>11, Zenon DEF CreateOU, m
  <2>3. grants = [s \in Places |-> grants[s]]
    BY DEF Typed
  <2>4. \A h \in Grant : [h EXCEPT !.role = m.role] \in Grant
    BY <2>1 DEF Grant
  <2>5. [id |-> m.nr, unit |-> m.unit, role |-> m.role] \in Grant
    BY <2>1 DEF Grant
  <2>6. grants' = [s \in Places |-> grants'[s]] /\ \A s \in Places : grants'[s] \subseteq Grant
    BY <1>0, <2>1, <2>2, <2>3, <2>4, <2>5
  <2> QED BY <1>0, <1>2, <1>4, <2>1, <2>6 DEF Typed, TypeOK, CallsHeld, Held, Ops, Rels
<1>12. CASE Cut(c)
  <2>1. UNCHANGED <<rel, grants, unit, calls>> /\ loose' \subseteq Users
    BY <1>0, <1>12 DEF Cut, Held, m
  <2> QED BY <1>0, <1>3, <1>4, <2>1
<1>13. \/ LoginUnrefreshed(c) \/ Refresh(c) \/ DeleteUserAllProject(c) \/ CreateProjectUser(c)
       \/ UpdateProjectUser(c) \/ CreateLdapUserOrg(c) \/ Cut(c)
       \/ \E s \in Places : CreateOU(c, s)
  BY DEF Someone, CreateOUOrg, CreateOUProject, Places
<1> QED BY <1>2, <1>5, <1>6, <1>7, <1>8, <1>9, <1>10, <1>11, <1>12, <1>13

(* A step on rows that is a call of its own.                                *)
LEMMA TypedWrite ==
  ASSUME Typed,
         \/ \E u \in Users : DeleteProjectUser(u)
         \/ \E u \in Users, r \in Roles : InviteUser(u, r) \/ UpdateUserOrgRel(u, r)
         \/ \E s \in Places, r \in Roles : \E g \in grants[s] : UpdateLdapOU(s, g, r)
         \/ \E s \in Places : \E g \in grants[s] : DeleteLdapOU(s, g)
         \/ \E u \in Users, d \in Units \cup {NoRow} : Move(u, d)
  PROVE  Typed' /\ UNCHANGED call
<1>0. /\ calls' \in 0..MaxCalls /\ UNCHANGED <<call, loose>>
  BY DEF Calls, Typed, TypeOK, DeleteProjectUser, InviteUser, UpdateUserOrgRel, UpdateLdapOU,
         DeleteLdapOU, Move
<1>1. crossed' \in BOOLEAN
  BY Zenon DEF Typed, TypeOK, DeleteProjectUser, InviteUser, UpdateUserOrgRel, UpdateLdapOU,
         DeleteLdapOU, Move
<1>2. rel \in Rels /\ CallsHeld /\ CallsHeld'
  BY <1>0 DEF Typed, TypeOK, CallsHeld, Rels
<1>3. rel' \in Rels
  <2>1. ASSUME NEW s \in Places, NEW u \in Users, NEW row \in Row \cup {NoRow}
        PROVE  [rel EXCEPT ![s][u] = row] \in Rels
    BY <1>2 DEF Rels
  <2>2. CASE UNCHANGED rel
    BY <1>2, <2>2
  <2>3. ASSUME NEW u \in Users, DeleteProjectUser(u) PROVE rel' \in Rels
    BY <2>1, <2>3 DEF DeleteProjectUser, Places
  <2>4. ASSUME NEW u \in Users, NEW r \in Roles, InviteUser(u, r) PROVE rel' \in Rels
    <3>1. [id |-> calls', role |-> r, ldap |-> FALSE] \in Row
      BY <1>0 DEF Row
    <3> QED BY <2>1, <2>4, <3>1, Zenon DEF InviteUser, Places
  <2>5. ASSUME NEW u \in Users, NEW r \in Roles, UpdateUserOrgRel(u, r) PROVE rel' \in Rels
    <3>1. rel["org"][u] \in Row
      BY <1>2, <2>5 DEF UpdateUserOrgRel, IsMember, Rels, Places
    <3>2. [rel["org"][u] EXCEPT !.role = r] \in Row
      BY <3>1 DEF Row
    <3>3. rel' = [rel EXCEPT !["org"][u] = [rel["org"][u] EXCEPT !.role = r]]
      BY <2>5 DEF UpdateUserOrgRel
    <3> QED BY <2>1, <3>2, <3>3 DEF Places
  <2> QED BY <2>2, <2>3, <2>4, <2>5 DEF UpdateLdapOU, DeleteLdapOU, Move
<1>4. grants' = [s \in Places |-> grants'[s]] /\ \A s \in Places : grants'[s] \subseteq Grant
  <2>0. grants = [s \in Places |-> grants[s]] /\ \A s \in Places : grants[s] \subseteq Grant
    BY DEF Typed, TypeOK
  <2>1. CASE UNCHANGED grants
    BY <2>0, <2>1
  <2>2. ASSUME NEW s \in Places, NEW r \in Roles, NEW g \in grants[s], UpdateLdapOU(s, g, r)
        PROVE  grants' = [p \in Places |-> grants'[p]] /\ \A p \in Places : grants'[p] \subseteq Grant
    <3>1. [g EXCEPT !.role = r] \in Grant
      BY <2>0 DEF Grant
    <3> QED BY <2>0, <2>2, <3>1 DEF UpdateLdapOU
  <2>3. ASSUME NEW s \in Places, NEW g \in grants[s], DeleteLdapOU(s, g)
        PROVE  grants' = [p \in Places |-> grants'[p]] /\ \A p \in Places : grants'[p] \subseteq Grant
    BY <2>0, <2>3 DEF DeleteLdapOU
  <2> QED BY <2>1, <2>2, <2>3 DEF DeleteProjectUser, InviteUser, UpdateUserOrgRel, Move
<1>5. unit' \in [Users -> Units \cup {NoRow}] /\ loose' \subseteq Users
  BY <1>0 DEF Typed, TypeOK, DeleteProjectUser, InviteUser, UpdateUserOrgRel, UpdateLdapOU,
              DeleteLdapOU, Move
<1> QED BY <1>0, <1>1, <1>2, <1>3, <1>4, <1>5 DEF Typed, TypeOK, CallsHeld, Held, Ops, Rels

LEMMA TypedNext == Typed /\ [Next]_vars => Typed'
<1> SUFFICES ASSUME Typed, [Next]_vars PROVE Typed'
  OBVIOUS
<1>1. CASE UNCHANGED vars
  BY <1>1 DEF vars, Typed, TypeOK, CallsHeld
<1>2. CASE Next
  BY <1>2, TypedBegin, TypedEnd, TypedWrite DEF Next, AuthLdapOU, AuthProjectLdapOU, Places
<1> QED BY <1>1, <1>2

(* The rows and the calls have the shapes declared.                         *)
THEOREM TypeCorrect == Spec => []TypeOK
<1>1. Typed => TypeOK
  BY DEF Typed
<1> QED BY <1>1, TypedInit, TypedNext, PTL DEF Spec

-----------------------------------------------------------------------------
(* Who keeps a role in the project.                                         *)

(* One user: he is a member, or is being removed, or has no role by hand.   *)
Ghost(u) == rel["project"][u] # NoRow /\ ~rel["project"][u].ldap
Removed(u) == \E c \in Sessions : call[c].op = "remove" /\ call[c].user = u

(* A step that leaves the removals alone, gives no role by hand and takes   *)
(* no member out but into loose.                                            *)
LEMMA GhostKept ==
  ASSUME NoGhostRole, NEW u \in Users,
         u \notin loose' => u \notin loose,
         Removed(u) => Removed(u)' \/ ~Ghost(u)' \/ u \in loose',
         Ghost(u)' => Ghost(u) \/ IsMember(u)' \/ u \in loose' \/ Removed(u)',
         IsMember(u) => IsMember(u)' \/ u \in loose' \/ Removed(u)'
  PROVE  u \notin loose' /\ Ghost(u)' => IsMember(u)' \/ Removed(u)'
BY DEF NoGhostRole, Ghost, Removed

LEMMA GhostAlone ==
  ASSUME NEW c \in Sessions, call[c].op # "remove",
         \A e \in Sessions \ {c} : call'[e] = call[e], NEW u \in Users
  PROVE  Removed(u) => Removed(u)'
BY DEF Removed

LEMMA GhostBegin ==
  ASSUME Typed, NoGhostRole, NEW c \in Sessions,
         \/ \E u \in Users : Login(c, u) \/ DeleteUserOrgRel(c, u)
         \/ \E us \in SUBSET Users, r \in Roles :
               CheckMembers(c, us, r, "assign") \/ CheckMembers(c, us, r, "update")
               \/ AuthLdapUser(c, us, r)
         \/ \E s \in Places, d \in Units, r \in Roles : AuthOU(c, s, d, r)
  PROVE  NoGhostRole'
<1>1. /\ \A e \in Sessions \ {c} : call'[e] = call[e]
      /\ call[c].op = "none" /\ CallsHeld /\ rel \in Rels
  BY TypedBegin DEF Typed, TypeOK, Rels
<1>2. UNCHANGED loose
  BY DEF Login, DeleteUserOrgRel, CheckMembers, AuthLdapUser, AuthOU
<1> SUFFICES ASSUME NEW u \in Users PROVE u \notin loose' /\ Ghost(u)' => IsMember(u)' \/ Removed(u)'
  BY DEF NoGhostRole, Ghost, Removed
<1>3. Removed(u) => Removed(u)'
  BY <1>1, GhostAlone
<1>4. CASE UNCHANGED rel
  BY <1>2, <1>3, <1>4, GhostKept DEF Ghost, IsMember
<1>5. ASSUME NEW v \in Users, DeleteUserOrgRel(c, v)
      PROVE  u \notin loose' /\ Ghost(u)' => IsMember(u)' \/ Removed(u)'
  <2>1. /\ call'[c] = [op |-> "remove", user |-> v]
        /\ rel'["project"] = rel["project"]
        /\ u # v => rel'["org"][u] = rel["org"][u]
    BY <1>1, <1>5 DEF DeleteUserOrgRel, Begin, CallsHeld, Rels, Places
  <2>2. u = v => Removed(u)'
    BY <2>1 DEF Removed
  <2> QED BY <1>2, <1>3, <2>1, <2>2, GhostKept DEF Ghost, IsMember
<1> QED BY <1>4, <1>5 DEF Login, CheckMembers, AuthLdapUser, AuthOU

LEMMA GhostEnd ==
  ASSUME Typed, NoGhostRole, NEW c \in Sessions, Someone(c)
  PROVE  NoGhostRole'
<1> DEFINE m == call[c]
<1>1. /\ \A e \in Sessions \ {c} : call'[e] = call[e]
      /\ Held(m) /\ rel \in Rels /\ rel' \in Rels
  BY TypedEnd DEF Typed, TypeOK, CallsHeld, Rels
<1> SUFFICES ASSUME NEW u \in Users PROVE u \notin loose' /\ Ghost(u)' => IsMember(u)' \/ Removed(u)'
  BY DEF NoGhostRole, Ghost, Removed
<1>2. m.op # "remove" => (Removed(u) => Removed(u)')
  BY <1>1, GhostAlone
<1>3. ASSUME m.op = "remove"
      PROVE  Removed(u) => Removed(u)' \/ u = m.user
  BY <1>1, <1>3 DEF Removed
<1> HIDE DEF m
<1>4. CASE Refresh(c)
  <2>1. m.op = "login"
    BY <1>4 DEF Refresh, m
  <2>2. CASE UNCHANGED <<rel, loose>>
    BY <1>2, <2>1, <2>2, GhostKept DEF Ghost, IsMember
  <2>3. CASE /\ rel' = [s \in Places |-> [rel[s] EXCEPT ![m.user] = Refreshed(s, m)]]
             /\ loose' = IF IsMember(m.user) /\ rel'["org"][m.user] = NoRow
                         THEN loose \cup {m.user} ELSE loose
    <3>1. CASE u # m.user
      <4>1. rel'["org"][u] = rel["org"][u] /\ rel'["project"][u] = rel["project"][u]
        BY <1>1, <2>3, <3>1 DEF Rels, Places
      <4> QED BY <1>2, <2>1, <2>3, <4>1, GhostKept DEF Ghost, IsMember
    <3>2. CASE u = m.user
      <4>1. rel'["project"][u] = Refreshed("project", m)
        BY <1>1, <2>3, <3>2 DEF Rels, Places
      <4>2. Ghost(u)' => Ghost(u)
        BY <3>2, <4>1 DEF Ghost, Refreshed, Kept, FromLdap
      <4> QED BY <1>2, <2>1, <2>3, <3>2, <4>2, GhostKept DEF IsMember
    <3> QED BY <3>1, <3>2
  <2> QED BY <1>4, <2>2, <2>3 DEF Refresh, m
<1>5. CASE DeleteUserAllProject(c)
  <2>1. m.op = "remove" /\ rel' = [rel EXCEPT !["project"][m.user] = NoRow] /\ UNCHANGED loose
    BY <1>5 DEF DeleteUserAllProject, m
  <2>2. /\ rel'["org"][u] = rel["org"][u]
        /\ rel'["project"][u] = IF u = m.user THEN NoRow ELSE rel["project"][u]
    BY <1>1, <2>1 DEF Rels, Places, Held
  <2> QED BY <1>3, <2>1, <2>2, GhostKept DEF Ghost, IsMember
<1>6. CASE CreateProjectUser(c)
  <2>1. m.op = "assign" /\ m.members = m.users
    BY <1>1, <1>6 DEF CreateProjectUser, m, Held
  <2>2. CASE UNCHANGED <<rel, loose>>
    BY <1>2, <2>1, <2>2, GhostKept DEF Ghost, IsMember
  <2>3. CASE /\ rel' = [rel EXCEPT !["project"] = [v \in Users |->
                  IF v \in m.users THEN [id |-> m.nr, role |-> m.role, ldap |-> FALSE] ELSE @[v]]]
             /\ loose' = loose \cup {v \in m.members : ~IsMember(v)}
    <3>1. rel'["org"][u] = rel["org"][u] /\ (u \notin m.users => rel'["project"][u] = rel["project"][u])
      BY <1>1, <2>3 DEF Rels, Places
    <3>2. u \in m.users => IsMember(u) \/ u \in loose'
      BY <2>1, <2>3
    <3> QED BY <1>2, <2>1, <2>3, <3>1, <3>2, GhostKept DEF Ghost, IsMember
  <2> QED BY <1>6, <2>2, <2>3 DEF CreateProjectUser, m
<1>7. CASE UpdateProjectUser(c)
  <2>1. m.op = "update" /\ UNCHANGED loose
    BY <1>7 DEF UpdateProjectUser, m
  <2>2. PICK v \in m.users : rel' = [rel EXCEPT !["project"][v] =
                                       IF @ = NoRow THEN NoRow ELSE [@ EXCEPT !.role = m.role]]
    BY <1>7 DEF UpdateProjectUser, m
  <2>3. rel'["org"][u] = rel["org"][u] /\ (u # v => rel'["project"][u] = rel["project"][u])
    BY <1>1, <2>2 DEF Rels, Places
  <2>4. Ghost(u)' => Ghost(u)
    <3>1. CASE u # v
      BY <2>3, <3>1 DEF Ghost
    <3>2. ASSUME u = v, rel["project"][u] # NoRow
          PROVE  rel'["project"][u].ldap = rel["project"][u].ldap
      <4>1. rel["project"][u] \in Row
        BY <1>1, <3>2 DEF Rels, Places
      <4>2. rel'["project"][u] = [rel["project"][u] EXCEPT !.role = m.role]
        BY <1>1, <2>2, <3>2 DEF Rels, Places
      <4> QED BY <4>1, <4>2 DEF Row
    <3>3. ASSUME u = v, rel["project"][u] = NoRow
          PROVE  rel'["project"][u] = NoRow
      BY <1>1, <2>2, <3>3 DEF Rels, Places
    <3> QED BY <3>1, <3>2, <3>3 DEF Ghost
  <2> QED BY <1>2, <2>1, <2>3, <2>4, GhostKept DEF IsMember
<1>8. CASE CreateLdapUserOrg(c)
  <2> DEFINE Written(v) ==
               IF m.found[v] = NoRow THEN [id |-> m.nr, role |-> m.role, ldap |-> FALSE]
               ELSE IF IsMember(v) /\ rel["org"][v].id = m.found[v].id
                    THEN [rel["org"][v] EXCEPT !.role = m.role]
               ELSE rel["org"][v]
  <2>1. m.op = "authUser" /\ m.nr \in 0..MaxCalls /\ m.role \in Roles /\ UNCHANGED loose
    BY <1>1, <1>8 DEF CreateLdapUserOrg, Held, m
  <2>2. CASE UNCHANGED rel
    BY <1>2, <2>1, <2>2, GhostKept DEF Ghost, IsMember
  <2>3. CASE rel' = [rel EXCEPT !["org"] = [v \in Users |-> IF v \in m.users THEN Written(v) ELSE @[v]]]
    <3>1. IsMember(u) => Written(u) # NoRow
      <4>1. rel["org"][u] \in Row \cup {NoRow}
        BY <1>1 DEF Rels, Places
      <4>2. [id |-> m.nr, role |-> m.role, ldap |-> FALSE] \in Row
        BY <2>1 DEF Row
      <4>3. IsMember(u) => [rel["org"][u] EXCEPT !.role = m.role] \in Row
        BY <2>1, <4>1 DEF Row, IsMember
      <4> QED BY <4>2, <4>3 DEF IsMember
    <3> HIDE DEF Written
    <3>2. /\ rel'["project"] = rel["project"]
          /\ rel'["org"][u] = IF u \in m.users THEN Written(u) ELSE rel["org"][u]
      BY <1>1, <2>3 DEF Rels, Places
    <3> QED BY <1>2, <2>1, <3>1, <3>2, GhostKept DEF Ghost, IsMember
  <2> QED BY <1>8, <2>2, <2>3 DEF CreateLdapUserOrg, m
<1>9. CASE Cut(c)
  <2>1. UNCHANGED rel /\ loose' = IF m.op = "remove" THEN loose \cup {m.user} ELSE loose
    BY <1>9 DEF Cut, m
  <2> QED BY <1>2, <1>3, <2>1, GhostKept DEF Ghost, IsMember
<1>10. CASE LoginUnrefreshed(c) \/ CreateOUOrg(c) \/ CreateOUProject(c)
  <2>1. UNCHANGED <<rel, loose>> /\ m.op # "remove"
    BY <1>10 DEF LoginUnrefreshed, CreateOUOrg, CreateOUProject, CreateOU, Free, m
  <2> QED BY <1>2, <2>1, GhostKept DEF Ghost, IsMember
<1> QED BY <1>4, <1>5, <1>6, <1>7, <1>8, <1>9, <1>10 DEF Someone

LEMMA GhostWrite ==
  ASSUME Typed, NoGhostRole,
         \/ \E u \in Users : DeleteProjectUser(u)
         \/ \E u \in Users, r \in Roles : InviteUser(u, r) \/ UpdateUserOrgRel(u, r)
         \/ \E s \in Places, r \in Roles : \E g \in grants[s] : UpdateLdapOU(s, g, r)
         \/ \E s \in Places : \E g \in grants[s] : DeleteLdapOU(s, g)
         \/ \E u \in Users, d \in Units \cup {NoRow} : Move(u, d)
  PROVE  NoGhostRole'
<1>1. UNCHANGED <<call, loose>> /\ rel \in Rels
  BY DEF DeleteProjectUser, InviteUser, UpdateUserOrgRel, UpdateLdapOU, DeleteLdapOU, Move,
         Typed, TypeOK, Rels
<1> SUFFICES ASSUME NEW u \in Users PROVE u \notin loose' /\ Ghost(u)' => IsMember(u)' \/ Removed(u)'
  BY DEF NoGhostRole, Ghost, Removed
<1>2. Removed(u) <=> Removed(u)'
  BY <1>1 DEF Removed
<1>3. CASE UNCHANGED rel
  BY <1>1, <1>2, <1>3, GhostKept DEF Ghost, IsMember
<1>4. ASSUME NEW v \in Users, DeleteProjectUser(v) PROVE Ghost(u)' => IsMember(u)' \/ Removed(u)' \/ u \in loose'
  <2>1. /\ rel'["org"] = rel["org"]
        /\ rel'["project"][u] = IF u = v THEN NoRow ELSE rel["project"][u]
    BY <1>1, <1>4 DEF DeleteProjectUser, Rels, Places
  <2> QED BY <1>1, <1>2, <2>1, GhostKept DEF Ghost, IsMember
<1>5. ASSUME NEW v \in Users, NEW r \in Roles, InviteUser(v, r) \/ UpdateUserOrgRel(v, r)
      PROVE  Ghost(u)' => IsMember(u)' \/ Removed(u)' \/ u \in loose'
  <2>1. rel'["project"] = rel["project"] /\ (u # v => rel'["org"][u] = rel["org"][u])
    BY <1>1, <1>5 DEF InviteUser, UpdateUserOrgRel, Rels, Places
  <2>2. u = v => rel'["org"][u] # NoRow
    <3>1. CASE InviteUser(v, r)
      <4>1. calls' \in 0..MaxCalls
        BY <3>1 DEF InviteUser, Calls, Typed, TypeOK
      <4>2. [id |-> calls', role |-> r, ldap |-> FALSE] \in Row
        BY <4>1 DEF Row
      <4> QED BY <1>1, <3>1, <4>2 DEF InviteUser, Rels, Places
    <3>2. CASE UpdateUserOrgRel(v, r)
      <4>1. rel["org"][v] \in Row
        BY <1>1, <3>2 DEF UpdateUserOrgRel, IsMember, Rels, Places
      <4>2. [rel["org"][v] EXCEPT !.role = r] # NoRow
        BY <4>1 DEF Row
      <4> QED BY <1>1, <3>2, <4>2 DEF UpdateUserOrgRel, Rels, Places
    <3> QED BY <1>5, <3>1, <3>2
  <2> QED BY <1>1, <1>2, <2>1, <2>2, GhostKept DEF Ghost, IsMember
<1> QED BY <1>1, <1>3, <1>4, <1>5 DEF UpdateLdapOU, DeleteLdapOU, Move

LEMMA GhostNext == Typed /\ NoGhostRole /\ [Next]_vars => NoGhostRole'
<1>1. UNCHANGED vars /\ NoGhostRole => NoGhostRole'
  BY DEF vars, NoGhostRole, IsMember
<1>2. Typed /\ NoGhostRole /\ Next => NoGhostRole'
  BY GhostBegin, GhostEnd, GhostWrite DEF Next, AuthLdapOU, AuthProjectLdapOU, Places
<1> QED BY <1>1, <1>2

(* No one who has left the organization keeps a role that was given to him  *)
(* by hand in its project, unless the call that removed him or the one that *)
(* gave the role was cut short or crossed.                                  *)
THEOREM GhostCorrect == Spec => []NoGhostRole
<1>1. Init => NoGhostRole
  BY DEF Init, NoGhostRole, Places
<1> QED BY <1>1, GhostNext, TypedInit, TypedNext, PTL DEF Spec

-----------------------------------------------------------------------------
(* Logins.                                                                  *)

(* Only Refresh ends a login with a result of its own.                      *)
LEMMA EndsByRefresh ==
  ASSUME Typed, [Next]_vars, NEW c \in Sessions, NEW result \in {"ok", "refused"},
         LoginEnds(c, result)
  PROVE  Refresh(c)
<1>1. call[c].op = "login" /\ call'[c].op = "none" /\ call'[c].result = result /\ CallsHeld
  BY DEF LoginEnds, Typed
<1>2. call'[c] # call[c]
  BY <1>1
<1>3. Next
  BY <1>2 DEF vars
<1>4. \A e \in Sessions : Someone(e) => e = c
  BY <1>2, TypedEnd
<1>5. Someone(c)
  BY <1>1, <1>2, <1>3, <1>4, TypedBegin, TypedWrite DEF Next, AuthLdapOU, AuthProjectLdapOU, Places
<1>6. ~Cut(c)
  <2> SUFFICES ASSUME Cut(c) PROVE FALSE
    OBVIOUS
  <2>1. End(c, "failed")
    BY DEF Cut
  <2>2. call'[c] = [op |-> "none", result |-> "failed"]
    BY <1>1, <2>1, EndHeld
  <2> QED BY <1>1, <2>2
<1> QED BY <1>1, <1>5, <1>6
        DEF Someone, LoginUnrefreshed, Free, DeleteUserAllProject, CreateProjectUser,
            UpdateProjectUser, CreateLdapUserOrg, CreateOUOrg, CreateOUProject, CreateOU

(* Where the rows are as they were read, one that was given by hand is kept *)
(* and any other makes room for the role of the unit.                       *)
LEMMA RefreshRow ==
  ASSUME Typed, NEW m, NEW s \in Places, m.user \in Users, m.found[s] = rel[s][m.user]
  PROVE  /\ RightRow(s, m, Refreshed(s, m))
         /\ ~(Inserted(s, m) # {} /\ Kept(s, m.user) # NoRow)
<1> DEFINE row == rel[s][m.user]
<1>1. CASE row # NoRow /\ ~row.ldap
  <2>1. HasRole(s, m) /\ Kept(s, m.user) = row
    BY <1>1 DEF HasRole, Kept, FromLdap
  <2>2. Inserted(s, m) = {}
    BY <2>1 DEF Inserted
  <2> QED BY <1>1, <2>1, <2>2 DEF Refreshed, RightRow
<1>2. CASE row = NoRow \/ row.ldap
  <2>1. ~HasRole(s, m) /\ Kept(s, m.user) = NoRow
    <3>1. CASE row = NoRow
      BY <3>1 DEF HasRole, Kept, FromLdap
    <3>2. CASE row # NoRow /\ row.ldap
      BY <3>2 DEF HasRole, Kept, FromLdap
    <3> QED BY <1>2, <3>1, <3>2
  <2>2. Inserted(s, m) = m.mine[s]
    BY <2>1 DEF Inserted
  <2>3. ASSUME m.mine[s] # {}
        PROVE  \E g \in m.mine[s] : Refreshed(s, m) = [id |-> m.nr, role |-> g.role, ldap |-> TRUE]
    <3>1. (CHOOSE g \in Inserted(s, m) : TRUE) \in m.mine[s]
      BY <2>2, <2>3
    <3>2. Refreshed(s, m) =
            [id |-> m.nr, role |-> (CHOOSE g \in Inserted(s, m) : TRUE).role, ldap |-> TRUE]
      BY <2>2, <2>3 DEF Refreshed
    <3> QED BY <3>1, <3>2
  <2>4. m.mine[s] = {} => Refreshed(s, m) = NoRow
    BY <2>1, <2>2 DEF Refreshed
  <2> QED BY <1>2, <2>1, <2>3, <2>4 DEF RightRow
<1> QED BY <1>1, <1>2

LEMMA RefreshStep == Typed /\ [Next]_vars => \A c \in Sessions : RefreshedRight(c)
<1> SUFFICES ASSUME Typed, [Next]_vars, NEW c \in Sessions,
                    LoginEnds(c, "ok"), ~Met(call[c]), NEW s \in Places
             PROVE  RightRow(s, call[c], rel'[s][call[c].user])
  BY DEF RefreshedRight
<1> DEFINE m == call[c]
<1>1. Refresh(c)
  BY EndsByRefresh
<1>2. m.user \in Users /\ m.found[s] = rel[s][m.user] /\ rel \in Rels /\ CallsHeld
  BY <1>1 DEF Refresh, Met, Typed, TypeOK, CallsHeld, Held, Rels
<1>3. rel' = [p \in Places |-> [rel[p] EXCEPT ![m.user] = Refreshed(p, m)]]
  <2>1. ~End(c, "refused")
    <3> SUFFICES ASSUME End(c, "refused") PROVE FALSE
      OBVIOUS
    <3>1. call'[c] = [op |-> "none", result |-> "refused"]
      BY <1>2, EndHeld
    <3> QED BY <3>1 DEF LoginEnds
  <2> QED BY <1>1, <2>1 DEF Refresh
<1>4. rel'[s][m.user] = Refreshed(s, m)
  BY <1>2, <1>3 DEF Rels
<1> HIDE DEF m
<1>5. RightRow(s, m, rel'[s][m.user])
  BY <1>2, <1>4, RefreshRow
<1> QED BY <1>5 DEF m

(* A login during which no one writes the rows of its user leaves the right *)
(* role, whatever others do.                                                *)
THEOREM RefreshCorrect == Spec => RefreshAgrees
BY RefreshStep, TypedInit, TypedNext, PTL DEF Spec, RefreshAgrees

(* As long as no two calls that grant a unit a role have met, a unit is     *)
(* granted at most one role in each place: a call that found none still     *)
(* finds none when it inserts, and a login has read one at most.            *)
OneGrant ==
    ~crossed =>
      /\ \A s \in Places : \A g, h \in grants[s] : g.unit = h.unit => g = h
      /\ \A c, e \in Sessions : call[c].op = "authOU" /\ call[e].op = "authOU" => c = e
      /\ \A c \in Sessions : call[c].op = "authOU" /\ call[c].found = {} =>
            \A g \in grants[call[c].place] : g.unit # call[c].unit
      /\ \A c \in Sessions : call[c].op = "login" =>
            \A s \in Places : \A g, h \in call[c].mine[s] : g = h

LEMMA OneGrantKept ==
  ASSUME Typed, OneGrant, UNCHANGED <<grants, crossed>>,
         \A c \in Sessions : call'[c] = call[c] \/ call'[c].op \notin {"authOU", "login"}
  PROVE  OneGrant'
<1> SUFFICES ASSUME ~crossed PROVE OneGrant'
  BY DEF OneGrant
<1>1. \A c \in Sessions : call'[c].op \in {"authOU", "login"} => call'[c] = call[c]
  OBVIOUS
<1> QED BY <1>1 DEF OneGrant

LEMMA OneGrantBegin ==
  ASSUME Typed, OneGrant, NEW c \in Sessions,
         \/ \E u \in Users : Login(c, u) \/ DeleteUserOrgRel(c, u)
         \/ \E us \in SUBSET Users, r \in Roles :
               CheckMembers(c, us, r, "assign") \/ CheckMembers(c, us, r, "update")
               \/ AuthLdapUser(c, us, r)
         \/ \E s \in Places, d \in Units, r \in Roles : AuthOU(c, s, d, r)
  PROVE  OneGrant'
<1>1. /\ \A e \in Sessions \ {c} : call'[e] = call[e]
      /\ call[c].op = "none" /\ CallsHeld
  BY TypedBegin DEF Typed
<1>2. UNCHANGED grants
  BY DEF Login, DeleteUserOrgRel, CheckMembers, AuthLdapUser, AuthOU
<1>3. ASSUME NEW u \in Users, Login(c, u) PROVE OneGrant'
  <2>1. UNCHANGED crossed
    BY <1>3, Zenon DEF Login
  <2>2. call'[c].op = "login" /\ call'[c].mine = [s \in Places |-> Granted(s, unit[u])]
    BY <1>1, <1>3 DEF Login, Begin, CallsHeld
  <2> SUFFICES ASSUME ~crossed PROVE OneGrant'
    BY <2>1 DEF OneGrant
  <2>3. \A s \in Places : \A g, h \in call'[c].mine[s] : g = h
    BY <2>2 DEF OneGrant, Granted
  <2> QED BY <1>1, <1>2, <2>2, <2>3 DEF OneGrant
<1>4. ASSUME NEW s \in Places, NEW d \in Units, NEW r \in Roles, AuthOU(c, s, d, r)
      PROVE  OneGrant'
  <2>1. /\ call'[c].op = "authOU" /\ call'[c].place = s /\ call'[c].unit = d
        /\ call'[c].found = Granted(s, d)
    BY <1>1, <1>4 DEF AuthOU, Begin, CallsHeld
  <2>2. crossed' = (crossed \/ \E e \in Sessions : call[e].op = "authOU")
    BY <1>4, Zenon DEF AuthOU
  <2> SUFFICES ASSUME ~crossed' PROVE OneGrant'
    BY DEF OneGrant
  <2>3. ~crossed /\ \A e \in Sessions : call[e].op # "authOU"
    BY <2>2, Zenon
  <2>4. \A e \in Sessions : call'[e].op = "authOU" => e = c
    BY <1>1, <2>3
  <2>5. call'[c].found = {} => \A g \in grants[s] : g.unit # d
    BY <2>1 DEF Granted
  <2>6. \A e \in Sessions : call'[e].op = "login" => call'[e] = call[e]
    BY <1>1, <2>1
  <2> QED BY <1>2, <2>1, <2>3, <2>4, <2>5, <2>6 DEF OneGrant
<1>5. CASE \/ \E u \in Users : DeleteUserOrgRel(c, u)
           \/ \E us \in SUBSET Users, r \in Roles :
                 CheckMembers(c, us, r, "assign") \/ CheckMembers(c, us, r, "update")
                 \/ AuthLdapUser(c, us, r)
  <2>1. call'[c].op \notin {"authOU", "login"}
    BY <1>1, <1>5 DEF DeleteUserOrgRel, CheckMembers, AuthLdapUser, Begin, CallsHeld
  <2>2. UNCHANGED crossed
    BY <1>5, Zenon DEF DeleteUserOrgRel, CheckMembers, AuthLdapUser
  <2> QED BY <1>1, <1>2, <2>1, <2>2, OneGrantKept
<1> QED BY <1>3, <1>4, <1>5

LEMMA OneGrantEnd ==
  ASSUME Typed, OneGrant, NEW c \in Sessions, Someone(c)
  PROVE  OneGrant'
<1> DEFINE m == call[c]
<1>1. /\ \A e \in Sessions \ {c} : call'[e] = call[e]
      /\ Held(m) /\ CallsHeld /\ grants = [s \in Places |-> grants[s]]
      /\ \A s \in Places : grants[s] \subseteq Grant
  BY TypedEnd DEF Typed, TypeOK, CallsHeld
<1>2. PICK result : End(c, result)
  BY Zenon DEF Someone, LoginUnrefreshed, Refresh, DeleteUserAllProject, CreateProjectUser,
        UpdateProjectUser, CreateLdapUserOrg, CreateOUOrg, CreateOUProject, CreateOU, Cut
<1>3. call'[c].op = "none"
  <2>1. call'[c] = [op |-> "none", result |-> result]
    BY <1>1, <1>2, EndHeld
  <2> QED BY <2>1
<1>4. UNCHANGED crossed
  BY Zenon DEF Someone, LoginUnrefreshed, Refresh, DeleteUserAllProject, CreateProjectUser,
        UpdateProjectUser, CreateLdapUserOrg, CreateOUOrg, CreateOUProject, CreateOU, Cut
<1>5. CASE UNCHANGED grants
  BY <1>1, <1>3, <1>4, <1>5, OneGrantKept
<1>6. CASE \E s \in Places : CreateOU(c, s)
  <2> SUFFICES ASSUME ~crossed PROVE OneGrant'
    BY <1>4 DEF OneGrant
  <2>1. m.op = "authOU" /\ m.place \in Places /\ m.unit \in Units /\ m.role \in Roles
    BY <1>1, <1>6 DEF CreateOU, Held
  <2>2. \A e \in Sessions : call'[e].op # "authOU" /\ (call'[e].op = "login" => call'[e] = call[e])
    BY <1>1, <1>3, <2>1 DEF OneGrant
  <2>3. \A s \in Places : \A g, h \in grants'[s] : g.unit = h.unit => g = h
    <3> SUFFICES ASSUME NEW s \in Places, NEW g \in grants'[s], NEW h \in grants'[s], g.unit = h.unit
                 PROVE  g = h
      OBVIOUS
    <3>1. CASE /\ m.found = {}
               /\ grants' = [grants EXCEPT ![m.place] =
                               @ \cup {[id |-> m.nr, unit |-> m.unit, role |-> m.role]}]
      <4>1. \A x \in grants[m.place] : x.unit # m.unit
        BY <2>1, <3>1 DEF OneGrant
      <4>2. s # m.place => grants'[s] = grants[s]
        BY <1>1, <3>1
      <4>3. s = m.place => grants'[s] =
              grants[s] \cup {[id |-> m.nr, unit |-> m.unit, role |-> m.role]}
        BY <1>1, <3>1
      <4> QED BY <4>1, <4>2, <4>3 DEF OneGrant
    <3>2. ASSUME NEW x \in m.found,
                 grants' = [grants EXCEPT ![m.place] =
                   {IF k.unit = x.unit /\ k.id = x.id THEN [k EXCEPT !.role = m.role] ELSE k : k \in @}]
          PROVE  g = h
      <4> DEFINE F(k) == IF k.unit = x.unit /\ k.id = x.id THEN [k EXCEPT !.role = m.role] ELSE k
      <4>1. s # m.place => grants'[s] = grants[s]
        BY <1>1, <3>2
      <4>2. s = m.place => grants'[s] = {F(k) : k \in grants[s]}
        BY <1>1, <3>2
      <4>3. \A k \in Grant : F(k).unit = k.unit
        BY DEF Grant
      <4> HIDE DEF F
      <4>4. CASE s = m.place
        <5>1. PICK k \in grants[s], l \in grants[s] : g = F(k) /\ h = F(l)
          BY <4>2, <4>4
        <5>2. k.unit = l.unit
          BY <1>1, <4>3, <5>1
        <5>3. k = l
          BY <5>2 DEF OneGrant
        <5> QED BY <5>1, <5>3
      <4> QED BY <4>1, <4>4 DEF OneGrant
    <3> QED BY <1>6, <3>1, <3>2 DEF CreateOU
  <2> QED BY <2>2, <2>3 DEF OneGrant
<1> QED BY <1>5, <1>6
        DEF Someone, LoginUnrefreshed, Refresh, DeleteUserAllProject, CreateProjectUser,
            UpdateProjectUser, CreateLdapUserOrg, CreateOUOrg, CreateOUProject, Cut, Places

LEMMA OneGrantWrite ==
  ASSUME Typed, OneGrant,
         \/ \E u \in Users : DeleteProjectUser(u)
         \/ \E u \in Users, r \in Roles : InviteUser(u, r) \/ UpdateUserOrgRel(u, r)
         \/ \E s \in Places, r \in Roles : \E g \in grants[s] : UpdateLdapOU(s, g, r)
         \/ \E s \in Places : \E g \in grants[s] : DeleteLdapOU(s, g)
         \/ \E u \in Users, d \in Units \cup {NoRow} : Move(u, d)
  PROVE  OneGrant'
<1>1. UNCHANGED call /\ grants = [s \in Places |-> grants[s]]
      /\ \A s \in Places : grants[s] \subseteq Grant
  BY TypedWrite DEF Typed, TypeOK
<1>2. UNCHANGED crossed
  BY Zenon DEF DeleteProjectUser, InviteUser, UpdateUserOrgRel, UpdateLdapOU, DeleteLdapOU, Move
<1>3. CASE UNCHANGED grants
  BY <1>1, <1>2, <1>3, OneGrantKept
<1>4. ASSUME NEW s \in Places, NEW g \in grants[s], NEW new,
             \A h \in new : h.unit = g.unit, \A h, k \in new : h = k,
             grants' = [grants EXCEPT ![s] = (@ \ {g}) \cup new]
      PROVE  OneGrant'
  <2> SUFFICES ASSUME ~crossed PROVE OneGrant'
    BY <1>2 DEF OneGrant
  <2>1. \A p \in Places : p # s => grants'[p] = grants[p]
    BY <1>1, <1>4
  <2>2. grants'[s] = (grants[s] \ {g}) \cup new
    BY <1>1, <1>4
  <2>3. \A p \in Places : \A h, k \in grants'[p] : h.unit = k.unit => h = k
    BY <1>4, <2>1, <2>2 DEF OneGrant
  <2>4. \A p \in Places : \A h \in grants'[p] : \E k \in grants[p] : k.unit = h.unit
    BY <1>4, <2>1, <2>2
  <2>5. \A c \in Sessions : call[c].op = "authOU" => call[c].place \in Places
    BY DEF Typed, CallsHeld, Held
  <2> QED BY <1>1, <2>3, <2>4, <2>5 DEF OneGrant
<1>5. ASSUME NEW s \in Places, NEW r \in Roles, NEW g \in grants[s], UpdateLdapOU(s, g, r)
      PROVE  OneGrant'
  <2>1. [g EXCEPT !.role = r].unit = g.unit
    BY <1>1 DEF Grant
  <2> DEFINE new == {[g EXCEPT !.role = r]}
  <2>2. (\A h \in new : h.unit = g.unit) /\ (\A h, k \in new : h = k)
    BY <2>1
  <2>3. grants' = [grants EXCEPT ![s] = (@ \ {g}) \cup new]
    BY <1>5 DEF UpdateLdapOU
  <2> HIDE DEF new
  <2> QED BY <1>4, <2>2, <2>3
<1>6. ASSUME NEW s \in Places, NEW g \in grants[s], DeleteLdapOU(s, g)
      PROVE  OneGrant'
  <2>1. grants' = [grants EXCEPT ![s] = (@ \ {g}) \cup {}]
    BY <1>6 DEF DeleteLdapOU
  <2> DEFINE new == {}
  <2>2. /\ \A h \in new : h.unit = g.unit
        /\ \A h, k \in new : h = k
        /\ grants' = [grants EXCEPT ![s] = (@ \ {g}) \cup new]
    BY <2>1
  <2> HIDE DEF new
  <2> QED BY <1>4, <2>2
<1> QED BY <1>3, <1>5, <1>6 DEF DeleteProjectUser, InviteUser, UpdateUserOrgRel, Move

LEMMA OneGrantNext == Typed /\ OneGrant /\ [Next]_vars => OneGrant'
<1>1. Typed /\ UNCHANGED vars /\ OneGrant => OneGrant'
  BY OneGrantKept DEF vars
<1>2. Typed /\ OneGrant /\ Next => OneGrant'
  BY OneGrantBegin, OneGrantEnd, OneGrantWrite DEF Next, AuthLdapOU, AuthProjectLdapOU, Places
<1> QED BY <1>1, <1>2

LEMMA RefusedStep ==
  Typed /\ OneGrant /\ [Next]_vars => \A c \in Sessions : RefusedForCause(c)
<1> SUFFICES ASSUME Typed, OneGrant, [Next]_vars, NEW c \in Sessions,
                    LoginEnds(c, "refused"), ~Met(call[c]), ~crossed
             PROVE  FALSE
  BY DEF RefusedForCause
<1> DEFINE m == call[c]
<1>1. Refresh(c)
  BY EndsByRefresh
<1>2. /\ m.op = "login" /\ m.user \in Users /\ CallsHeld
      /\ \A s \in Places : m.found[s] = rel[s][m.user]
  BY <1>1 DEF Refresh, Met, Typed, CallsHeld, Held
<1>3. \E s \in Places : Duplicate(s, m)
  <2>1. ~End(c, "ok")
    <3> SUFFICES ASSUME End(c, "ok") PROVE FALSE
      OBVIOUS
    <3>1. call'[c] = [op |-> "none", result |-> "ok"]
      BY <1>2, EndHeld
    <3> QED BY <3>1 DEF LoginEnds
  <2> QED BY <1>1, <2>1 DEF Refresh
<1>4. ASSUME NEW s \in Places PROVE ~(Cardinality(Inserted(s, m)) > 1)
  <2>1. \A g, h \in Inserted(s, m) : g = h
    BY <1>2 DEF OneGrant, Inserted
  <2>2. CASE Inserted(s, m) = {}
    BY <2>2, FS_EmptySet
  <2>3. CASE Inserted(s, m) # {}
    <3>1. PICK g : Inserted(s, m) = {g}
      BY <2>1, <2>3
    <3>2. Cardinality({g}) = 1
      BY FS_Singleton
    <3> QED BY <3>1, <3>2
  <2> QED BY <2>2, <2>3
<1> HIDE DEF m
<1> QED BY <1>2, <1>3, <1>4, RefreshRow DEF Duplicate

(* Who has given the right password is let in, unless his rows change       *)
(* meanwhile or his unit was granted two roles by calls that met.           *)
THEOREM LoginCorrect == Spec => LoginWorks
<1>1. Init => OneGrant
  BY DEF Init, OneGrant
<1> QED BY <1>1, OneGrantNext, RefusedStep, TypedInit, TypedNext, PTL DEF Spec, LoginWorks

(* All of it holds whatever rows, grants and units there are to begin with, *)
(* as long as no one has a role without being a member and no unit is       *)
(* granted two roles in one place.                                          *)
THEOREM FromAnyRows ==
  Typed /\ OneGrant /\ NoGhostRole /\ [][Next]_vars =>
    []NoGhostRole /\ LoginWorks /\ RefreshAgrees
BY GhostNext, OneGrantNext, RefusedStep, RefreshStep, TypedNext, PTL DEF LoginWorks, RefreshAgrees
=============================================================================
