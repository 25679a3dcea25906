------------------------------ MODULE TaskFlow ------------------------------
(***************************************************************************)
(* What a task consists of when it is created: the flow that the pipeline  *)
(* file of the repository gives for the type of the task, completed from   *)
(* the defaults, and the steps that are made of it for one environment.    *)
(* Constant-level; names and images of steps, and arguments other than     *)
(* -destroy, are left out.                                                  *)
(***************************************************************************)
EXTENDS Naturals, Sequences, FiniteSets

(* The elements of s that are in T, in their order: the loop that appends   *)
(* them one by one.                                                         *)
Filtered(s, T) ==
    LET kept[k \in 0..Len(s)] ==
            IF k = 0 THEN << >>
            ELSE IF s[k] \in T THEN Append(kept[k - 1], s[k]) ELSE kept[k - 1]
    IN  kept[Len(s)]

Types == {"plan", "apply", "destroy"}
ScanTypes == {"envScan", "opaScan"}
EffectTypes == {"terraformApply", "terraformDestroy"}

Plain(types) == [k \in DOMAIN types |-> [type |-> types[k], destroy |-> FALSE]]
PlanDestroy == << [type |-> "terraformPlan", destroy |-> TRUE] >>

Checkout == Plain(<<"checkout", "terraformInit">>)
Deploy   == Plain(<<"terraformApply", "ansiblePlay">>)
Destroy  == Checkout \o PlanDestroy \o Plain(<<"terraformDestroy">>)

PipelineV0dot3 ==
    LET plan == Checkout \o Plain(<<"opaScan", "terraformPlan">>)
    IN  [plan |-> plan, apply |-> plan \o Deploy, destroy |-> Destroy]

PipelineV0dot4 ==
    LET plan == Checkout \o Plain(<<"terraformPlan", "envScan">>)
    IN  [plan |-> plan, apply |-> plan \o Deploy, destroy |-> Destroy]

(* Version 0.5 names the steps; their order is fixed.                       *)
StepNames ==
    LET plan == <<"checkout", "terraformInit", "terraformPlan", "envScan">>
    IN  [plan    |-> plan,
         apply   |-> plan \o <<"terraformApply", "ansiblePlay">>,
         destroy |-> plan \o <<"terraformDestroy">>]

(* Variant: the plan of a destroy task is left as it is.                    *)
CompleteNames(tasks, type) ==
    LET named == tasks[type]
    IN  [k \in DOMAIN StepNames[type] |->
            [type |-> StepNames[type][k],
             destroy |-> /\ StepNames[type][k] \in DOMAIN named
                         /\ named[StepNames[type][k]]]]

(* A file of version 0.5 maps, for each type of task, the steps it names to *)
(* whether -destroy is among their arguments; steps it does not name are    *)
(* added, and -destroy to the plan of a destroy task.                       *)
CompletePipelineDot5(tasks, type) ==
    LET named == tasks[type]
        Arg(name) == \/ name \in DOMAIN named /\ named[name]
                     \/ type = "destroy" /\ name = "terraformPlan"
    IN  [k \in DOMAIN StepNames[type] |->
            [type |-> StepNames[type][k], destroy |-> Arg(StepNames[type][k])]]

(* The steps a file gives; none, where it says nothing of this type.        *)
CustomSteps(file, type) ==
    CASE file.version = "none" -> PipelineV0dot4[type]
      [] file.version \in {"0.3", "0.4"} -> file.tasks[type]
      [] file.version = "0.5" -> CompletePipelineDot5(file.tasks, type)

GetTaskFlowWithPipeline(file, type) ==
    LET custom == CustomSteps(file, type)
    IN  IF custom = << >> THEN PipelineV0dot4[type] ELSE custom

(* A play without a playbook and a scan that is not enabled are skipped.    *)
Wanted(step, policy, playbook) ==
    /\ step.type = "ansiblePlay" => playbook
    /\ step.type \in ScanTypes => policy

CreateTaskSteps(file, type, policy, playbook, autoApprove) ==
    LET flow  == GetTaskFlowWithPipeline(file, type)
        steps == Filtered(flow, {step \in {flow[k] : k \in DOMAIN flow} :
                                    Wanted(step, policy, playbook)})
    IN  [k \in DOMAIN steps |->
            [type |-> steps[k].type, destroy |-> steps[k].destroy,
             mustApproval |-> ~autoApprove /\ steps[k].type \in EffectTypes]]

(* Each scan step brings a scan task that mirrors it.                       *)
Mirrors(steps) == Cardinality({k \in DOMAIN steps : steps[k].type \in ScanTypes})
=============================================================================
