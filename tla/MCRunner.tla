------------------------------ MODULE MCRunner ------------------------------
(* Instances of Runner for TLC.                                             *)
EXTENDS Runner

One == [steps |-> 1, scans |-> {}, stopOnViolation |-> FALSE, collect |-> FALSE,
        retryAble |-> FALSE, retries |-> 0, aborts |-> TRUE, views |-> 0, faults |-> 0]
Two == [One EXCEPT !.steps = 2]
Twice(t) == [t EXCEPT !.retryAble = TRUE, !.retries = 1]

(* Two steps, the first a scan that may fail; two steps, each tried again,  *)
(* the second a scan that may not, and nobody aborts; one step and the      *)
(* collection of resources; one step whose log is followed, or that loses   *)
(* something.                                                               *)
Retried == Twice([Two EXCEPT !.scans = {2}, !.stopOnViolation = TRUE, !.aborts = FALSE])
Several == {[Two EXCEPT !.scans = {1}],
            Retried,
            Twice([One EXCEPT !.collect = TRUE]),
            Twice([One EXCEPT !.views = 1]),
            Twice([One EXCEPT !.faults = 1])}

(* The second step is tried again in the container of the first attempt.    *)
OneRetried == {Retried}
=============================================================================
