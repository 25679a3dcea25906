---------------------------- MODULE MCTplExchange ----------------------------
(* An instance of TplExchange for TLC: two templates which share a group,   *)
(* of a service of their organization and of the platform's.                *)
EXTENDS TplExchange, TLC

Vcs(n) == Id("vcs", n)
Group(n) == Id("group", n)
Tpl(n) == Id("tpl", n)

Full ==
    [rows |-> Vcs(1) :> NewRow("", "o1", Name("v"), Vcs(0))
           @@ Vcs(2) :> NewRow("", Platform, Name("v"), Vcs(0))
           @@ Group(3) :> NewRow("environment", "o1", Name("g"), Vcs(0))
           @@ Group(4) :> NewRow("terraform", "o1", Name("h"), Vcs(0))
           @@ Tpl(5) :> NewRow("", "o1", Name("t"), Vcs(1))
           @@ Tpl(6) :> NewRow("", "o1", Name("u"), Vcs(2)),
     links |-> Tpl(5) :> {Group(3)} @@ Tpl(6) :> {Group(3), Group(4)},
     variables |-> Tpl(5) :> ("x" :> 0),
     offered |-> {Tpl(5)}]

(* Where names are taken already, a group's by one of the other type.       *)
Taken ==
    [rows |-> Tpl(7) :> NewRow("", "o2", Name("t"), Vcs(9))
           @@ Group(8) :> NewRow("terraform", "o2", Name("g"), Vcs(0))
           @@ Vcs(9) :> NewRow("", "o2", Name("v"), Vcs(0)),
     links |-> Tpl(7) :> {Group(8)}, variables |-> Tpl(7) :> ("y" :> 0), offered |-> {}]

(* Where a service was imported, and its templates are gone.                *)
Unused ==
    [EmptyDb EXCEPT !.rows = Vcs(1) :> NewRow("", "o2", Name("v"), Vcs(0))]

Start(there, exports, imports, edits) ==
    [next |-> 10,
     db |-> ("here" :> Full @@ "there" :> there),
     left |-> [exports |-> exports, imports |-> imports, edits |-> edits]]
All == {Start(EmptyDb, 1, 2, 1), Start(Taken, 1, 2, 0), Start(EmptyDb, 1, 1, 2),
        Start(Unused, 1, 1, 1)}
=============================================================================
