------------------------------ MODULE Pipeline ------------------------------
(***************************************************************************)
(* What one deployment task promises about the commands it runs on the     *)
(* runner, whatever crashes, lost calls or racing users it meets: steps    *)
(* are launched in the order of the flow, each only after every earlier    *)
(* one has succeeded (or is one whose failure is tolerated), and a step    *)
(* that needs approval only after somebody has approved it.                *)
(***************************************************************************)
EXTENDS Naturals

CONSTANTS N,         \* the number of steps of the flow, at least 1
          Gated,     \* those of 1..N that need approval
          Tolerated  \* those of 1..N whose failure does not stop the task

VARIABLES approved,  \* steps somebody has approved
          launched,  \* steps whose command was started at least once
          done       \* steps whose command succeeded at least once

vars == <<approved, launched, done>>

Init == approved = {} /\ launched = {} /\ done = {}

Approve(k) ==
    /\ approved' = approved \cup {k}
    /\ UNCHANGED <<launched, done>>

Launch(k) ==
    /\ k \in Gated => k \in approved
    /\ \A j \in 1..(k - 1) : j \in done \cup Tolerated
    /\ launched' = launched \cup {k}
    /\ UNCHANGED <<approved, done>>

Succeed(k) ==
    /\ k \in launched
    /\ done' = done \cup {k}
    /\ UNCHANGED <<approved, launched>>

Next == \E k \in 1..N : Approve(k) \/ Launch(k) \/ Succeed(k)

Spec == Init /\ [][Next]_vars
=============================================================================
