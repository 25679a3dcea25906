--------------------------- MODULE MCEnvLifecycle ---------------------------
(* Instances of EnvLifecycle for TLC.                                       *)
EXTENDS EnvLifecycle

Plain == [type |-> "apply", destroy |-> "keep", deploy |-> "keep", drift |-> "keep",
          archive |-> FALSE]

(* Created without settings; to be deployed at some time; to be destroyed   *)
(* and deployed again and again, with repair of drift.                      *)
Unset == {Plain}
Later == {[Plain EXCEPT !.deploy = "at"]}
Repeated == {[Plain EXCEPT !.destroy = "cron", !.deploy = "cron", !.drift = "apply"]}

(* Destroyed now or at some time; with a time to live; archived.            *)
Destroy == {[Plain EXCEPT !.type = "destroy", !.destroy = "at"]}
Live == {[Plain EXCEPT !.destroy = "ttl"]}
Archive == {[Plain EXCEPT !.archive = TRUE]}

(* Nothing is promised once a deployment has overwritten a row.              *)
UntilStale == ~stale
=============================================================================
