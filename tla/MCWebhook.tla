----------------------------- MODULE MCWebhook ------------------------------
(* Instances of Webhook for TLC.                                            *)
EXTENDS Webhook, TLC

(* A file that names some steps in version 0.5, one in version 0.3 that     *)
(* replaces the plan and leaves a play alone for the destruction.           *)
Named == [version |-> "0.5",
          tasks |-> [plan |-> << >>, apply |-> ("terraformApply" :> FALSE),
                     destroy |-> ("terraformPlan" :> FALSE @@ "checkout" :> FALSE)]]
Replaced == [version |-> "0.3",
             tasks |-> [plan |-> PipelineV0dot3["plan"], apply |-> << >>,
                         destroy |-> Plain(<<"ansiblePlay">>)]]

TwoEnvs == {"e1", "e2"}
TheSetup ==
    [e1 |-> [tags |-> {}, policy |-> TRUE, playbook |-> TRUE, file |-> Named],
     e2 |-> [tags |-> {"gpu"}, policy |-> TRUE, playbook |-> FALSE, file |-> Replaced]]
TheRepos == <<"main", "other">>
TheRunners == <<"r1", "r2">>
TheTags == [r1 |-> {}, r2 |-> {"gpu"}]
Requests == Permutations(Procs)

Deploying == [Nothing EXCEPT !.key = TRUE, !.triggers = {"commit"}, !.autoKey = TRUE, !.auto = TRUE]
Planning  == [Nothing EXCEPT !.key = TRUE, !.triggers = {"prmr"}, !.type = "plan"]
Clearing  == [Nothing EXCEPT !.key = TRUE, !.type = "destroy"]
Archiving == [Nothing EXCEPT !.archive = TRUE, !.autoKey = TRUE]
TheForms == {Deploying, Planning, Clearing, Archiving}

(* Nothing yet, an environment whose triggers were never sent, or both      *)
(* environments served; the calls, events, changes of runners and failures  *)
(* that may follow.                                                         *)
Fresh(may) == [tpl |-> NoTpl, env |-> [e \in Envs |-> NoEnv],
                hooks |-> [r \in {"main", "other"} |-> {}], left |-> may]
Unset(may) == [Fresh(may) EXCEPT !.env["e1"].made = TRUE]
Served(may) ==
    [tpl |-> [NoTpl EXCEPT !.triggers = {"commit"}],
     env |-> [e \in Envs |-> [NoEnv EXCEPT !.made = TRUE, !.null = FALSE, !.auto = TRUE,
                                           !.triggers = {"commit", "prmr"}]],
     hooks |-> [main |-> {1}, other |-> {}], left |-> may]
Left(c, e, r, f) == [calls |-> c, events |-> e, changes |-> r, faults |-> f]
TheStarts == {Fresh(Left(3, 0, 0, 1)), Fresh(Left(2, 1, 0, 1)), Unset(Left(3, 0, 0, 0)),
              Served(Left(2, 1, 0, 0)), Served(Left(1, 1, 1, 1)), Served(Left(0, 2, 2, 0))}
=============================================================================
