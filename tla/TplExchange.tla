----------------------------- MODULE TplExchange -----------------------------
(***************************************************************************)
(* Export and import of templates.  A file carries templates with their    *)
(* variables, the variable groups linked to them and the services (vcs)    *)
(* they come from; importing it, in one transaction, brings them into an   *)
(* organization of this or another installation, and says what to do with  *)
(* a row whose identifier is there already: update, skip, copy or abort.   *)
(* Meanwhile users change and delete what either side holds.               *)
(***************************************************************************)
EXTENDS Naturals, FiniteSets, Sequences, SequencesExt

CONSTANTS
    Sites,      \* installations of the portal, each with its database
    Orgs,       \* organizations
    Platform,   \* the owner of the services every organization sees (org_id "")
    Starts      \* the databases of each site and the bounds of what follows

(* Every table has identifiers of its own kind; all are unique.             *)
Ids == [kind : {"vcs", "group", "tpl"}, n : Nat]
Id(kind, n) == [kind |-> kind, n |-> n]

(* A row: type tells groups apart that may share a name; body is what the   *)
(* file carries of it, own the columns it does not; vcs is the service of a *)
(* template, alive false for a template softly deleted.                     *)
NewRow(type, org, name, vcs) ==
    [type |-> type, org |-> org, name |-> name, body |-> 0, own |-> TRUE, vcs |-> vcs,
     alive |-> TRUE]
Name(base) == [base |-> base, mark |-> 0]

EmptyDb == [rows |-> <<>>, links |-> <<>>, variables |-> <<>>, offered |-> {}]

(* Only groups have a type and only templates may be deleted softly; a      *)
(* template has a service.                                                  *)
RowOK(i, r, next) ==
    /\ r = [type |-> r.type, org |-> r.org, name |-> r.name, body |-> r.body,
            own |-> r.own, vcs |-> r.vcs, alive |-> r.alive]
    /\ r.name = [base |-> r.name.base, mark |-> r.name.mark] /\ r.name.mark \in Nat
    /\ r.alive \in BOOLEAN
    /\ i.kind # "group" => r.type = ""
    /\ i.kind # "tpl" => r.alive
    /\ i.kind = "tpl" => /\ r.org \in Orgs
                         /\ r.vcs \in Ids /\ r.vcs.kind = "vcs" /\ r.vcs.n < next

(* A template has links to groups, and variables.                           *)
RefsOK(rows, links, variables) ==
    /\ links = [t \in DOMAIN links |-> links[t]]
    /\ variables = [t \in DOMAIN variables |-> variables[t]]
    /\ \A t \in DOMAIN links \union DOMAIN variables : t.kind = "tpl" /\ t \in DOMAIN rows
    /\ \A t \in DOMAIN links : \A g \in links[t] : g.kind = "group" /\ g \in DOMAIN rows

(* A database: finitely many rows, and what hangs on them.                  *)
Sound(d, next) ==
    /\ d = [rows |-> d.rows, links |-> d.links, variables |-> d.variables, offered |-> d.offered]
    /\ d.rows = [i \in DOMAIN d.rows |-> d.rows[i]] /\ IsFiniteSet(DOMAIN d.rows)
    /\ \A i \in DOMAIN d.rows : i \in Ids /\ i.n < next /\ RowOK(i, d.rows[i], next)
    /\ RefsOK(d.rows, d.links, d.variables)

ASSUME TplExchangeAssumption ==
    /\ Platform \notin Orgs
    /\ \A s \in Starts :
         /\ s.next \in Nat /\ s.db = [site \in Sites |-> s.db[site]]
         /\ \A site \in Sites :
              /\ Sound(s.db[site], s.next)
              /\ \A t \in DOMAIN s.db[site].rows :
                   t.kind = "tpl" /\ s.db[site].rows[t].alive
                   => s.db[site].rows[t].vcs \in DOMAIN s.db[site].rows
         /\ s.left \in [exports : Nat, imports : Nat, edits : Nat]

VARIABLES
    db,      \* per site: rows, links, variables of templates, project's templates
    file,    \* what was exported last: services, then groups, then templates
    going,   \* services about to be deleted: found without templates
    raced,   \* history: services an import needed while they were
    left,    \* exports, imports and edits left
    next,    \* the number of the next identifier
    clock,   \* edits made, the value the last one wrote
    last     \* history: what the last import was asked and did

exchangeVars == <<db, file, going, raced, left, next, clock, last>>

Policies == {"update", "skip", "copy", "abort"}

NoImport == [count |-> 0, site |-> "", org |-> "", policy |-> "", result |-> "none",
             map |-> <<>>, fate |-> <<>>, before |-> EmptyDb]

ExchangeInit ==
    /\ \E s \in Starts : db = s.db /\ left = s.left /\ next = s.next
    /\ file = << >> /\ going = {} /\ raced = {} /\ clock = 0 /\ last = NoImport

Spend(what) == left[what] > 0 /\ left' = [left EXCEPT ![what] = @ - 1]

At(f, x, none) == IF x \in DOMAIN f THEN f[x] ELSE none
With(f, x, v) == [y \in DOMAIN f \union {x} |-> IF y = x THEN v ELSE f[y]]

-----------------------------------------------------------------------------
(* Export.                                                                  *)

Templates(d, org) ==
    {t \in DOMAIN d.rows : t.kind = "tpl" /\ d.rows[t].org = org /\ d.rows[t].alive}

(* What the file says of a row.                                             *)
Item(d, i) ==
    [id |-> i, row |-> d.rows[i], links |-> At(d.links, i, {}),
     variables |-> At(d.variables, i, <<>>)]

(* The services of the templates, of any organization, that still exist.    *)
ServicesOf(d, ids) == {d.rows[t].vcs : t \in ids} \intersect DOMAIN d.rows

(* FindTplsRelVarGroup joins the groups with their links: a group appears   *)
(* once for each link.                                                      *)
GroupsOf(d, ids) == {link \in ids \X DOMAIN d.rows : link[2] \in At(d.links, link[1], {})}

Export(site, org, ids) ==
    LET d == db[site]
        services == SetToSeq(ServicesOf(d, ids))
        groups == SetToSeq(GroupsOf(d, ids))
        templates == SetToSeq(ids)
    IN  /\ Spend("exports") /\ ids # {}
        /\ file' = [k \in DOMAIN services |-> Item(d, services[k])]
                   \o [k \in DOMAIN groups |-> Item(d, groups[k][2])]
                   \o [k \in DOMAIN templates |-> Item(d, templates[k])]
        /\ last' = NoImport
        /\ UNCHANGED <<db, going, raced, next, clock>>

-----------------------------------------------------------------------------
(* Import, row by row of the file.  state is what the transaction sees; an  *)
(* error ends it.                                                           *)

Began(site) ==
    [rows |-> db[site].rows, links |-> db[site].links, variables |-> db[site].variables,
     offered |-> db[site].offered, next |-> next, map |-> <<>>, fate |-> <<>>, error |-> "none"]

Mapped(state, id) == At(state.map, id, id)

(* Rows that a name is compared with: a deleted template is not seen.       *)
Bearers(rows, kind, org, name) ==
    {i \in DOMAIN rows : /\ i.kind = kind /\ rows[i].org = org
                         /\ rows[i].alive /\ rows[i].name = name}

(* Variant: a name is kept.                                                 *)
NewNameKept(rows, item, org, policy) == item.row.name

(* getNewNameIf: a name borne by another row is marked with the time, and   *)
(* one borne by the same row too if it is to be copied; neither a row nor   *)
(* the file has a name of that time.  Groups of another type are not looked *)
(* at.                                                                      *)
NewName(rows, item, org, policy) ==
    LET name == item.row.name
        bearers == {i \in Bearers(rows, item.id.kind, org, name) :
                        rows[i].type = item.row.type}
        marks == {rows[i].name.mark : i \in DOMAIN rows}
                 \union {file[k].row.name.mark : k \in DOMAIN file}
    IN  IF bearers \subseteq (IF policy = "copy" THEN {} ELSE {item.id}) THEN name
        ELSE [name EXCEPT !.mark = CHOOSE m \in 1..Cardinality(marks) + 1 : m \notin marks]

(* Variant: the service is the one the file names.                          *)
ImportedAsNamed(state, item, org, name) ==
    [item.row EXCEPT !.org = org, !.name = name, !.own = FALSE, !.alive = TRUE]

(* The row made of what the file carries; it refers to what the import made *)
(* of the service.                                                          *)
Imported(state, item, org, name) ==
    [type |-> item.row.type, org |-> org, name |-> name, body |-> item.row.body,
     own |-> FALSE, vcs |-> Mapped(state, item.row.vcs), alive |-> TRUE]

Store(state, id, row, fate, old) ==
    IF Bearers(state.rows, id.kind, row.org, row.name) \ {id} # {}
    THEN [state EXCEPT !.error = "name"]                 \* the unique index
    ELSE [state EXCEPT !.rows = With(@, id, row), !.fate = With(@, old, fate),
                       !.map = IF id = old THEN @ ELSE With(@, old, id)]

(* Variant: a copy takes the place of what it is a copy of.                 *)
CopyOver(state, item, row) == Store(state, item.id, row, "copied", item.id)

(* doImport with policy copy: a new identifier, remembered for what refers  *)
(* to the old one.                                                          *)
Copy(state, item, row) ==
    [Store(state, Id(item.id.kind, state.next), row, "copied", item.id) EXCEPT !.next = @ + 1]

(* ImportVcs, ImportVarGroups, importExportedTpl as far as they are alike.  *)
(* The search for the identifier sees deleted templates; the update does    *)
(* not, and is taken for one that did.                                      *)
ImportRow(state, item, org, policy) ==
    LET rows == state.rows
        row == Imported(state, item, org, NewName(rows, item, org, policy))
        duplicate == item.id \in DOMAIN rows
    IN  IF ~duplicate THEN Store(state, item.id, row, "created", item.id)
        ELSE IF policy = "update" /\ rows[item.id].org # org
        THEN [state EXCEPT !.error = "org"]
        ELSE CASE policy = "update" /\ rows[item.id].alive ->
                    Store(state, item.id, row, "updated", item.id)
               [] policy = "update" /\ ~rows[item.id].alive ->
                    [state EXCEPT !.fate = With(@, item.id, "updated")]
               [] policy = "skip" -> [state EXCEPT !.fate = With(@, item.id, "skipped")]
               [] policy = "copy" -> Copy(state, item, row)
               [] OTHER -> [state EXCEPT !.error = "duplicate"]

(* Variant: only groups that were not linked before are linked again.       *)
LinksMissing(state, id, new) == new \ At(state.links, id, {})

(* processTplVarsGroup: an update deletes the links of the template first.  *)
Links(state, id, new) == new

(* processTplVars: variables of the file are set, the rest stay.            *)
Attached(state, item) ==
    LET id == Mapped(state, item.id)
        old == At(state.variables, id, <<>>)
        new == [v \in DOMAIN old \union DOMAIN item.variables |->
                    At(item.variables, v, At(old, v, 0))]
    IN  [state EXCEPT !.links = With(@, id, Links(state, id, {Mapped(state, g) : g \in item.links})),
                      !.variables = With(@, id, new),
                      !.offered = @ \union {id}]

(* A skipped template takes its variables, links and projects with it.      *)
ImportItem(state, item, org, policy) ==
    LET after == ImportRow(state, item, org, policy)
    IN  IF state.error # "none" THEN state
        ELSE IF item.id.kind = "tpl" /\ after.error = "none" /\ after.fate[item.id] # "skipped"
        THEN Attached(after, item)
        ELSE after

ImportAll(site, org, policy) ==
    LET run[k \in 0..Len(file)] ==
            IF k = 0 THEN Began(site) ELSE ImportItem(run[k - 1], file[k], org, policy)
    IN  run[Len(file)]

(* TemplateImport: with an error the transaction is rolled back.            *)
Import(site, org, policy) ==
    LET end == ImportAll(site, org, policy)
    IN  /\ Spend("imports") /\ file # << >>
        /\ db' = IF end.error # "none" THEN db
                 ELSE [db EXCEPT ![site] =
                         [rows |-> end.rows, links |-> end.links, variables |-> end.variables,
                          offered |-> end.offered]]
        /\ last' = [count |-> last.count + 1, site |-> site, org |-> org, policy |-> policy,
                    result |-> end.error, map |-> end.map, fate |-> end.fate,
                    before |-> db[site]]
        /\ next' = end.next
        /\ raced' = raced \union {file[k].id : k \in {j \in DOMAIN file : <<site, file[j].id>> \in going}}
        /\ UNCHANGED <<file, going, clock>>

-----------------------------------------------------------------------------
(* The users.                                                               *)

Edits(site, d) ==
    /\ Spend("edits")
    /\ db' = [db EXCEPT ![site] = d]
    /\ clock' = clock + 1
    /\ last' = NoImport
    /\ UNCHANGED file

Bases(kind) ==
    UNION {{db[s].rows[i].name.base : i \in {j \in DOMAIN db[s].rows : j.kind = kind}} : s \in Sites}

(* A row with a name that is free.                                          *)
Adds(site, kind, row) ==
    LET d == db[site] IN
    /\ Bearers(d.rows, kind, row.org, row.name) = {}
    /\ Edits(site, [d EXCEPT !.rows = With(@, Id(kind, next), row)])
    /\ next' = next + 1
    /\ UNCHANGED going

CreateGroup(site, org) ==
    /\ \E b \in Bases("group"), type \in {"environment", "terraform"} :
          Adds(site, "group", NewRow(type, org, Name(b), Id("vcs", 0)))
    /\ UNCHANGED raced

CreateVcs(site, org) ==
    /\ \E b \in Bases("vcs") : Adds(site, "vcs", NewRow("", org, Name(b), Id("vcs", 0)))
    /\ UNCHANGED raced

(* A template of a service its user sees.                                   *)
CreateTemplate(site, org) ==
    \E b \in Bases("tpl"), v \in DOMAIN db[site].rows :
        /\ v.kind = "vcs" /\ db[site].rows[v].org \in {org, Platform}
        /\ Adds(site, "tpl", NewRow("", org, Name(b), v))
        /\ raced' = IF <<site, v>> \in going THEN raced \union {v} ELSE raced

(* UpdateTemplate, UpdateVariableGroup, UpdateVcs, as far as a row goes: it *)
(* gets other contents, or the name and settings the user wants.            *)
Change(site, i) ==
    LET d == db[site] IN
    /\ d.rows[i].alive
    /\ \E row \in {[d.rows[i] EXCEPT !.body = clock + 1]}
                  \union {[d.rows[i] EXCEPT !.own = TRUE, !.name = Name(b)] : b \in Bases(i.kind)} :
          /\ row # d.rows[i]
          /\ Bearers(d.rows, i.kind, row.org, row.name) \subseteq {i}
          /\ Edits(site, [d EXCEPT !.rows = [@ EXCEPT ![i] = row]])
    /\ UNCHANGED <<going, raced, next>>

(* The same call changes the links and variables of a template.             *)
Relink(site, t) ==
    LET d == db[site]
        linked == At(d.links, t, {})
    IN  /\ t \in Templates(d, d.rows[t].org)
        /\ \/ \E g \in DOMAIN d.rows \ linked :
                /\ g.kind = "group" /\ d.rows[g].org = d.rows[t].org
                /\ Edits(site, [d EXCEPT !.links = With(@, t, linked \union {g})])
           \/ \E g \in linked : Edits(site, [d EXCEPT !.links = With(@, t, linked \ {g})])
           \/ \E v \in {"x", "y"} :
                Edits(site, [d EXCEPT !.variables =
                    With(@, t, With(At(@, t, <<>>), v, clock + 1))])
        /\ UNCHANGED <<going, raced, next>>

(* DeleteTemplate, softly: variables and links of the template stay.        *)
DeleteTemplate(site, t) ==
    LET d == db[site] IN
    /\ t \in Templates(d, d.rows[t].org)
    /\ Edits(site, [d EXCEPT !.rows = [@ EXCEPT ![t] = [d.rows[t] EXCEPT !.alive = FALSE]]])
    /\ UNCHANGED <<going, raced, next>>

(* DeleteVariableGroup, with its links, in one transaction.                 *)
DeleteGroup(site, g) ==
    LET d == db[site] IN
    /\ g.kind = "group"
    /\ Edits(site, [d EXCEPT !.rows = [i \in DOMAIN @ \ {g} |-> @[i]],
                             !.links = [t \in DOMAIN @ |-> @[t] \ {g}]])
    /\ UNCHANGED <<going, raced, next>>

(* QueryTplByVcsId: templates of any organization.                          *)
Used(d, v) == \E org \in Orgs : \E t \in Templates(d, org) : d.rows[t].vcs = v

(* DeleteVcs looks for templates, and then deletes.                         *)
CheckVcs(site, v) ==
    /\ v.kind = "vcs" /\ <<site, v>> \notin going
    /\ ~Used(db[site], v)
    /\ going' = going \union {<<site, v>>}
    /\ Edits(site, db[site])
    /\ UNCHANGED <<raced, next>>

DeleteVcs(site, v) ==
    LET d == db[site] IN
    /\ <<site, v>> \in going
    /\ going' = going \ {<<site, v>>}
    /\ db' = [db EXCEPT ![site] = [d EXCEPT !.rows = [i \in DOMAIN @ \ {v} |-> @[i]]]]
    /\ last' = NoImport
    /\ UNCHANGED <<file, raced, left, next, clock>>

ExchangeNext ==
    \E site \in Sites :
        \/ \E org \in Orgs : \E ids \in SUBSET Templates(db[site], org) : Export(site, org, ids)
        \/ \E org \in Orgs, policy \in Policies : Import(site, org, policy)
        \/ \E org \in Orgs :
              CreateTemplate(site, org) \/ CreateGroup(site, org) \/ CreateVcs(site, org)
        \/ \E i \in DOMAIN db[site].rows :
              \/ Change(site, i) \/ Relink(site, i) \/ DeleteTemplate(site, i)
              \/ DeleteGroup(site, i) \/ CheckVcs(site, i) \/ DeleteVcs(site, i)

ExchangeSpec == ExchangeInit /\ [][ExchangeNext]_exchangeVars
-----------------------------------------------------------------------------
(* Properties.                                                              *)

(* The tables keep their shape and refer to rows by identifier.             *)
TablesOK ==
    /\ next \in Nat /\ clock \in Nat
    /\ db = [site \in Sites |-> db[site]] /\ \A site \in Sites : Sound(db[site], next)
    /\ going \subseteq Sites \X {v \in Ids : v.kind = "vcs"}
    /\ last.policy \in Policies \union {""}

Items == {file[k] : k \in DOMAIN file}
Exported == {item \in Items : item.id.kind = "tpl"}
Now == db[last.site]
Done == last.count > 0 /\ last.result = "none"
Place(id) == At(last.map, id, id)

(* A template found deleted is said to be updated, and is not.              *)
Deleted(id) == id \in DOMAIN last.before.rows /\ ~last.before.rows[id].alive

(* After an import, whatever it did not skip is there with the contents of  *)
(* the file, and a template with its variables, its service, its groups and *)
(* its project, each where the import has put it: what the first rows were  *)
(* mapped to is what the later ones refer to.                               *)
Landed ==
    Done =>
        /\ \A item \in Items :
              LET id == Place(item.id) IN
              last.fate[item.id] # "skipped" /\ ~Deleted(id) =>
                  /\ id \in DOMAIN Now.rows
                  /\ Now.rows[id].alive /\ Now.rows[id].org = last.org
                  /\ Now.rows[id].body = item.row.body
                  /\ item \in Exported => Now.rows[id].vcs = Place(item.row.vcs)
        /\ \A item \in Exported :
              LET id == Place(item.id) IN
              last.fate[item.id] # "skipped" =>
                  /\ Now.links[id] = {Place(g) : g \in item.links}
                  /\ \A v \in DOMAIN item.variables :
                        Now.variables[id][v] = item.variables[v]
                  /\ id \in Now.offered

(* An import changes nothing that was there before, unless it is to update, *)
(* and then only what the file names, in the organization it is made in;    *)
(* and a copy refers to nothing that was there before, but for a service    *)
(* that was about to be deleted when a template was given it.               *)
Kept(f, g, D) == \A i \in DOMAIN f \ D : i \in DOMAIN g /\ g[i] = f[i]
KeepsTheRest ==
    last.count > 0 =>
        LET old == last.before
            named == IF last.policy = "update" THEN {item.id : item \in Items} ELSE {}
        IN  /\ Kept(old.rows, Now.rows, named)
            /\ Kept(old.links, Now.links, named) /\ Kept(old.variables, Now.variables, named)
            /\ \A i \in named \intersect DOMAIN old.rows :
                  old.rows[i].org # last.org => Now = old
            /\ Done /\ last.policy = "copy" =>
                  \A item \in Exported :
                      LET id == Place(item.id)
                      IN  (({Now.rows[id].vcs} \ raced) \union Now.links[id])
                              \intersect DOMAIN old.rows = {}

(* An import fails for one of these causes, and with policy copy or skip    *)
(* for none but the last: a row is there already that must not be, or a row *)
(* to update belongs to others; or a group bears the name of one of the     *)
(* other type, which the renaming does not see.  A group that two templates *)
(* share is twice in the file, and is there already the second time.        *)
ListedTwice == \E j, k \in DOMAIN file : j # k /\ file[j].id = file[k].id
Seen == {[id |-> i, row |-> last.before.rows[i]] : i \in DOMAIN last.before.rows}
        \union {[id |-> item.id, row |-> item.row] : item \in Items}
Met == {item.id : item \in Items} \intersect DOMAIN last.before.rows
ImportFailsForCause ==
    /\ last.result = "duplicate" => last.policy = "abort" /\ (Met # {} \/ ListedTwice)
    /\ last.result = "org" =>
          last.policy = "update" /\ \E i \in Met : last.before.rows[i].org # last.org
    /\ last.result = "name" =>
          \E item \in Items, met \in Seen :
              /\ item.id.kind = "group" /\ met.id.kind = "group"
              /\ met.row.name = item.row.name /\ met.row.type # item.row.type

(* A template that is not deleted has its service, wherever it was imported *)
(* from and whatever was deleted since; unless it was imported while the    *)
(* service, found unused, was about to be deleted.                          *)
HasService ==
    \A site \in Sites, org \in Orgs : \A t \in Templates(db[site], org) :
        LET v == db[site].rows[t].vcs
        IN  v \in DOMAIN db[site].rows \/ v \in raced

(* Updating twice from one file is updating once: the second time succeeds  *)
(* and changes nothing, but for the mark in a name.                         *)
Unmarked(d) == [d EXCEPT !.rows = [i \in DOMAIN @ |-> [@[i] EXCEPT !.name.mark = 0]]]
UpdateSettles ==
    [][ /\ Done /\ last.policy = "update" /\ last'.count = last.count + 1
        /\ last'.policy = "update" /\ last'.site = last.site /\ last'.org = last.org
        => last'.result = "none" /\ Unmarked(db'[last.site]) = Unmarked(db[last.site])]_exchangeVars
=============================================================================
