-------------------------------- MODULE Access --------------------------------
(***************************************************************************)
(* Who belongs to an organization and to its project, and as what.  A role *)
(* is given by hand, or by the directory: an organizational unit is        *)
(* granted a role, and each login of its users refreshes the rows that     *)
(* came from there.  One organization with one project.  The database is   *)
(* MySQL: a transaction reads the state of its first read, writes the rows *)
(* as they are, and keeps what it wrote to itself until its end: the       *)
(* writes of one transaction are one step.                                 *)
(***************************************************************************)
EXTENDS Naturals, FiniteSets

CONSTANTS
    Users, Units, Roles,
    Sessions,   \* each makes one call at a time
    NoRow,      \* what a query finds that finds nothing
    MaxCalls    \* bound: calls made

VARIABLES
    rel,      \* database: the row of each user in the organization and in the project
    grants,   \* database: the rows that grant a unit a role there
    unit,     \* directory: the unit of each user
    call,     \* the call of each session with what it has read, or how its last one ended
    calls,    \* calls made so far
    loose,    \* history: users who lost the organization while a call on them was cut or crossed
    crossed   \* history: two calls that grant a unit a role have met

vars == <<rel, grants, unit, call, calls, loose, crossed>>

Places == {"org", "project"}

(* models.UserOrg, UserProject, LdapOUOrg and LdapOUProject.  A row's id is *)
(* the number of the call that inserted it.                                 *)
Row == [id : 0..MaxCalls, role : Roles, ldap : BOOLEAN]
Grant == [id : 0..MaxCalls, unit : Units, role : Roles]

ASSUME AccessAssumption == NoRow \notin Units /\ NoRow \notin Row /\ MaxCalls \in Nat

Free(c) == call[c].op = "none"
End(c, result) == call' = [call EXCEPT ![c] = [op |-> "none", result |-> result]]
Begin(c, made) == call' = [call EXCEPT ![c] = made]
Calls == calls < MaxCalls /\ calls' = calls + 1
Granted(s, d) == {g \in grants[s] : g.unit = d}
IsMember(u) == rel["org"][u] # NoRow

TypeOK ==
    /\ rel \in [Places -> [Users -> Row \cup {NoRow}]]
    /\ \A s \in Places : grants[s] \subseteq Grant
    /\ unit \in [Users -> Units \cup {NoRow}]
    /\ \A c \in Sessions : call[c].op \in {"none", "login", "remove", "assign", "update", "authUser", "authOU"}
    /\ calls \in 0..MaxCalls /\ loose \subseteq Users /\ crossed \in BOOLEAN

Init ==
    /\ rel = [s \in Places |-> [u \in Users |-> NoRow]]
    /\ grants = [s \in Places |-> {}]
    /\ unit \in [Users -> Units \cup {NoRow}]
    /\ call = [c \in Sessions |-> [op |-> "none", result |-> "ok"]]
    /\ calls = 0 /\ loose = {} /\ crossed = FALSE

-----------------------------------------------------------------------------
(* Logins.                                                                  *)

(* Login, once the password is right: QueryLdapUserDN asks the directory;   *)
(* a user it does not know, or a directory that does not answer, keeps what *)
(* he has.                                                                  *)
LoginUnrefreshed(c) ==
    /\ Free(c) /\ Calls
    /\ End(c, "ok")
    /\ UNCHANGED <<rel, grants, unit, loose, crossed>>

(* refreshLdapUserRole: its first read fixes what its later ones see.       *)
Login(c, u) ==
    /\ Free(c) /\ Calls
    /\ unit[u] # NoRow
    /\ Begin(c, [op |-> "login", nr |-> calls', user |-> u, unit |-> unit[u],
                 found |-> [s \in Places |-> rel[s][u]],
                 mine |-> [s \in Places |-> Granted(s, unit[u])]])
    /\ UNCHANGED <<rel, grants, unit, loose, crossed>>

(* The DELETE of the rows from the directory meets the rows as they are;    *)
(* the COUNT before each insert sees those of the first read, less the ones *)
(* this transaction has deleted.                                            *)
FromLdap(s, u) == rel[s][u] # NoRow /\ rel[s][u].ldap
Kept(s, u) == IF FromLdap(s, u) THEN NoRow ELSE rel[s][u]
(* Variants: no one looks for a role; or before the old rows are deleted.   *)
HasRoleUnasked(s, m) == FALSE
HasRoleBefore(s, m) == m.found[s] # NoRow
HasRole(s, m) ==
    /\ m.found[s] # NoRow
    /\ ~(FromLdap(s, m.user) /\ rel[s][m.user].id = m.found[s].id)
Inserted(s, m) == {g \in m.mine[s] : ~HasRole(s, m)}

(* Two rows for one user, or one where there is one, break the unique index *)
(* and with it the whole login.                                             *)
Duplicate(s, m) ==
    \/ Cardinality(Inserted(s, m)) > 1
    \/ Inserted(s, m) # {} /\ Kept(s, m.user) # NoRow

Refreshed(s, m) ==
    IF Inserted(s, m) = {} THEN Kept(s, m.user)
    ELSE [id |-> m.nr, role |-> (CHOOSE g \in Inserted(s, m) : TRUE).role, ldap |-> TRUE]

Refresh(c) ==
    /\ call[c].op = "login"
    /\ LET m == call[c] IN
         IF \E s \in Places : Duplicate(s, m)
         THEN End(c, "refused") /\ UNCHANGED <<rel, loose>>
         ELSE /\ rel' = [s \in Places |-> [rel[s] EXCEPT ![m.user] = Refreshed(s, m)]]
              /\ loose' = IF IsMember(m.user) /\ rel'["org"][m.user] = NoRow
                          THEN loose \cup {m.user} ELSE loose
              /\ End(c, "ok")
    /\ UNCHANGED <<grants, unit, calls, crossed>>

-----------------------------------------------------------------------------
(* Roles given by hand.                                                     *)

(* InviteUser: one transaction that deletes the row there is and inserts.   *)
(* AddUserOrgRel inserts, and refuses a member.                             *)
InviteUser(u, r) ==
    /\ Calls
    /\ rel' = [rel EXCEPT !["org"][u] = [id |-> calls', role |-> r, ldap |-> FALSE]]
    /\ UNCHANGED <<grants, unit, call, loose, crossed>>

(* UpdateUserOrgRel and UpdateUserOrg; a row from the directory stays one.  *)
UpdateUserOrgRel(u, r) ==
    /\ Calls
    /\ IsMember(u)
    /\ rel' = [rel EXCEPT !["org"][u].role = r]
    /\ UNCHANGED <<grants, unit, call, loose, crossed>>

(* DeleteUserOrgRel: two statements without a transaction.                  *)
DeleteUserOrgRel(c, u) ==
    /\ Free(c) /\ Calls
    /\ rel' = [rel EXCEPT !["org"][u] = NoRow]
    /\ Begin(c, [op |-> "remove", user |-> u])
    /\ UNCHANGED <<grants, unit, loose, crossed>>

DeleteUserAllProject(c) ==
    /\ call[c].op = "remove"
    /\ rel' = [rel EXCEPT !["project"][call[c].user] = NoRow]
    /\ End(c, "ok")
    /\ UNCHANGED <<grants, unit, calls, loose, crossed>>

(* Variant: users are added to a project whether or not they are members.   *)
AddAnyone(c, us, r, op) ==
    /\ Free(c) /\ Calls
    /\ Begin(c, [op |-> op, nr |-> calls', users |-> us, role |-> r,
                 members |-> {u \in us : IsMember(u)}])
    /\ UNCHANGED <<rel, grants, unit, loose, crossed>>

(* CreateProjectUser and UpdateProjectUser look whether the users belong to *)
(* the organization, and then write.                                        *)
CheckMembers(c, us, r, op) ==
    /\ Free(c) /\ Calls
    /\ \A u \in us : IsMember(u)
    /\ Begin(c, [op |-> op, nr |-> calls', users |-> us, role |-> r,
                 members |-> {u \in us : IsMember(u)}])
    /\ UNCHANGED <<rel, grants, unit, loose, crossed>>

(* One insert for all of them.                                              *)
CreateProjectUser(c) ==
    /\ call[c].op = "assign"
    /\ LET m == call[c] IN
         IF \E u \in m.users : rel["project"][u] # NoRow
         THEN End(c, "failed") /\ UNCHANGED <<rel, loose>>
         ELSE /\ rel' = [rel EXCEPT !["project"] = [u \in Users |->
                           IF u \in m.users THEN [id |-> m.nr, role |-> m.role, ldap |-> FALSE] ELSE @[u]]]
              /\ loose' = loose \cup {u \in m.members : ~IsMember(u)}
              /\ End(c, "ok")
    /\ UNCHANGED <<grants, unit, calls, crossed>>

UpdateProjectUser(c) ==
    /\ call[c].op = "update"
    /\ \E u \in call[c].users :
          rel' = [rel EXCEPT !["project"][u] = IF @ = NoRow THEN NoRow ELSE [@ EXCEPT !.role = call[c].role]]
    /\ End(c, "ok")
    /\ UNCHANGED <<grants, unit, calls, loose, crossed>>

DeleteProjectUser(u) ==
    /\ Calls
    /\ rel["project"][u] # NoRow
    /\ rel' = [rel EXCEPT !["project"][u] = NoRow]
    /\ UNCHANGED <<grants, unit, call, loose, crossed>>

(* AuthLdapUser: one transaction for all the users.                         *)
AuthLdapUser(c, us, r) ==
    /\ Free(c) /\ Calls
    /\ Begin(c, [op |-> "authUser", nr |-> calls', role |-> r, users |-> us,
                 found |-> [u \in us |-> rel["org"][u]]])
    /\ UNCHANGED <<rel, grants, unit, loose, crossed>>

(* A row found and gone meanwhile is updated without effect; one not found  *)
(* and there meanwhile breaks the unique index.                             *)
CreateLdapUserOrg(c) ==
    /\ call[c].op = "authUser"
    /\ LET m == call[c]
           Written(u) ==
             IF m.found[u] = NoRow THEN [id |-> m.nr, role |-> m.role, ldap |-> FALSE]
             ELSE IF IsMember(u) /\ rel["org"][u].id = m.found[u].id THEN [rel["org"][u] EXCEPT !.role = m.role]
             ELSE rel["org"][u]
       IN IF \E u \in m.users : m.found[u] = NoRow /\ IsMember(u)
          THEN End(c, "failed") /\ UNCHANGED rel
          ELSE /\ rel' = [rel EXCEPT !["org"] = [u \in Users |-> IF u \in m.users THEN Written(u) ELSE @[u]]]
               /\ End(c, "ok")
    /\ UNCHANGED <<grants, unit, calls, loose, crossed>>

-----------------------------------------------------------------------------
(* Roles given to units, and the directory.                                 *)

AuthOU(c, s, d, r) ==
    /\ Free(c) /\ Calls
    /\ Begin(c, [op |-> "authOU", nr |-> calls', place |-> s, unit |-> d, role |-> r, found |-> Granted(s, d)])
    /\ crossed' = (crossed \/ \E e \in Sessions : call[e].op = "authOU")
    /\ UNCHANGED <<rel, grants, unit, loose>>
AuthLdapOU(c, d, r) == AuthOU(c, "org", d, r)
AuthProjectLdapOU(c, d, r) == AuthOU(c, "project", d, r)

(* Nothing in the database keeps a unit from being granted a role twice.    *)
CreateOU(c, s) ==
    /\ call[c].op = "authOU" /\ call[c].place = s
    /\ LET m == call[c] IN
         \/ /\ m.found = {}
            /\ grants' = [grants EXCEPT ![m.place] = @ \cup {[id |-> m.nr, unit |-> m.unit, role |-> m.role]}]
         \/ \E g \in m.found :
               grants' = [grants EXCEPT ![m.place] =
                            {IF h.unit = g.unit /\ h.id = g.id THEN [h EXCEPT !.role = m.role] ELSE h : h \in @}]
    /\ End(c, "ok")
    /\ UNCHANGED <<rel, unit, calls, loose, crossed>>
CreateOUOrg(c) == CreateOU(c, "org")
CreateOUProject(c) == CreateOU(c, "project")

(* UpdateLdapOU, DeleteLdapOUFromDB and those of the project.               *)
UpdateLdapOU(s, g, r) ==
    /\ Calls
    /\ grants' = [grants EXCEPT ![s] = (@ \ {g}) \cup {[g EXCEPT !.role = r]}]
    /\ UNCHANGED <<rel, unit, call, loose, crossed>>

DeleteLdapOU(s, g) ==
    /\ Calls
    /\ grants' = [grants EXCEPT ![s] = @ \ {g}]
    /\ UNCHANGED <<rel, unit, call, loose, crossed>>

(* A user moves to another unit, or leaves.                                 *)
Move(u, d) ==
    /\ Calls
    /\ unit' = [unit EXCEPT ![u] = d]
    /\ UNCHANGED <<rel, grants, call, loose, crossed>>

(* The portal dies, or a statement fails: an open transaction is undone.    *)
Cut(c) ==
    /\ ~Free(c)
    /\ loose' = IF call[c].op = "remove" THEN loose \cup {call[c].user} ELSE loose
    /\ End(c, "failed")
    /\ UNCHANGED <<rel, grants, unit, calls, crossed>>

Someone(c) == LoginUnrefreshed(c) \/ Refresh(c) \/ DeleteUserAllProject(c) \/ CreateProjectUser(c)
                 \/ UpdateProjectUser(c) \/ CreateLdapUserOrg(c)
                 \/ CreateOUOrg(c) \/ CreateOUProject(c) \/ Cut(c)

Next ==
    \/ \E c \in Sessions : Someone(c)
    \/ \E c \in Sessions, u \in Users : Login(c, u) \/ DeleteUserOrgRel(c, u)
    \/ \E u \in Users : DeleteProjectUser(u)
    \/ \E u \in Users, r \in Roles : InviteUser(u, r) \/ UpdateUserOrgRel(u, r)
    \/ \E c \in Sessions, us \in SUBSET Users \ {{}}, r \in Roles : CheckMembers(c, us, r, "assign") \/ AuthLdapUser(c, us, r)
    \/ \E c \in Sessions, u \in Users, r \in Roles : CheckMembers(c, {u}, r, "update")
    \/ \E c \in Sessions, d \in Units, r \in Roles : AuthLdapOU(c, d, r) \/ AuthProjectLdapOU(c, d, r)
    \/ \E s \in Places, r \in Roles : \E g \in grants[s] : UpdateLdapOU(s, g, r)
    \/ \E s \in Places : \E g \in grants[s] : DeleteLdapOU(s, g)
    \/ \E u \in Users, d \in Units \cup {NoRow} : Move(u, d)

Spec == Init /\ [][Next]_vars

-----------------------------------------------------------------------------
(* The rows of the user of a login have changed since its first read.       *)
Met(m) == \E s \in Places : m.found[s] # rel[s][m.user]
LoginEnds(c, result) ==
    call[c].op = "login" /\ call'[c].op = "none" /\ call'[c].result = result

RefusedForCause(c) == LoginEnds(c, "refused") => Met(call[c]) \/ crossed

(* The row a refreshing login leaves where the rows of its user are still   *)
(* those it has read.                                                       *)
RightRow(s, m, row) ==
    IF rel[s][m.user] # NoRow /\ ~rel[s][m.user].ldap THEN row = rel[s][m.user]
    ELSE IF m.mine[s] = {} THEN row = NoRow
    ELSE \E g \in m.mine[s] : row = [id |-> m.nr, role |-> g.role, ldap |-> TRUE]

RefreshedRight(c) ==
    LoginEnds(c, "ok") /\ ~Met(call[c]) =>
        \A s \in Places : RightRow(s, call[c], rel'[s][call[c].user])

(* LoginWorks: who has given the right password is let in, unless his rows  *)
(* change during the login or two calls that granted a role to the same     *)
(* unit have met: refreshing never breaks the unique index by itself.       *)
(* (refreshLdapUserRole, CreateOUOrg)                                       *)
LoginWorks == [][\A c \in Sessions : RefusedForCause(c)]_vars

(* RefreshAgrees: a login that refreshes, and during which no one changes   *)
(* the rows of its user, leaves the role given by hand if there is one, and *)
(* otherwise the role of his unit, if it has one, whatever other users and  *)
(* administrators do meanwhile.  (RefreshUserOrgRoles)                      *)
RefreshAgrees == [][\A c \in Sessions : RefreshedRight(c)]_vars

(* NoGhostRole: who has a role in the project by hand belongs to the        *)
(* organization, unless he is being removed, his unit has lost the role,    *)
(* his removal was cut short, or he was removed while being added.          *)
(* (DeleteUserOrgRel, CreateProjectUser)                                    *)
NoGhostRole ==
    \A u \in Users \ loose :
       rel["project"][u] # NoRow /\ ~rel["project"][u].ldap =>
         IsMember(u) \/ \E c \in Sessions : call[c].op = "remove" /\ call[c].user = u

=============================================================================
