----------------------------- MODULE MCVariables -----------------------------
(* Instances of Variables for TLC: what each setup starts from.             *)
EXTENDS Variables, TLC

(* Every way to bind three groups, each sharing a name with the next.       *)
Chain == [calls |-> {}, users |-> {}, each |-> 0, most |-> 0, plain |-> {}, bound |-> Groups,
          groups |-> ("g" :> {"a", "b"} @@ "h" :> {"b", "c"} @@ "k" :> {"c"})]

(* The same with variables of that name in any of the scopes.               *)
Mixed == [Chain EXCEPT !.plain = {"a"}, !.bound = {"g", "h"},
                       !.groups = ("g" :> {"a"} @@ "h" :> {"a", "b"} @@ "k" :> {})]

(* One user binds and deletes groups.                                       *)
Alone == [Chain EXCEPT !.calls = {"bind", "drop"}, !.users = {"s1"}, !.each = 1, !.most = 3, !.bound = {}]

(* Two users bind groups, by the calls that compare them and by the forms   *)
(* that do not.                                                             *)
Binding == [Alone EXCEPT !.calls = {"bind", "form"}, !.users = {"s1", "s2"}, !.most = 3,
                         !.groups = ("g" :> {"a"} @@ "h" :> {"a", "b"} @@ "k" :> {})]

(* Two users change the variables of an environment, or a group.            *)
Updating == [Chain EXCEPT !.calls = {"update", "batch"}, !.users = {"s1", "s2"}, !.bound = {},
                          !.most = 2, !.plain = {"a"}]
Editing == [Alone EXCEPT !.calls = {"bind", "group", "drop"}, !.most = 2]

All == {Chain, Mixed, Alone, Binding, Updating, Editing}
Bound == {Alone}
Pairs == {[Alone EXCEPT !.each = 2]}
Secret == {[Editing EXCEPT !.calls = {"group"}, !.users = {"s1", "s2"}]}
=============================================================================
