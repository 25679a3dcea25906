----------------------------- MODULE MCScheduler -----------------------------
(* An instance of Scheduler for TLC: two managers, two environments.        *)
EXTENDS Scheduler, TLC

(* Two tasks of one environment and one of another.                         *)
Shared == <<"a", "a", "b">>

(* The lock is lost where two managers then meet on one task and none dies;  *)
(* the properties that speak of lost locks claim nothing of the rest.        *)
LossAlone == losses = 0 \/ (crashes = 0 /\ created <= 1)
=============================================================================
