------------------------------ MODULE MCAccess ------------------------------
(* Instances of Access for TLC.                                             *)
EXTENDS Access, TLC

(* From any rows the first user may have, whether or not his unit is still  *)
(* granted what they came from; the second has a role by hand, or none.     *)
SomeRow(hands) == {NoRow} \cup [id : {0}, role : {"admin"}, ldap : hands]
SomeGrants == {{}} \cup {{[id |-> 0, unit |-> d, role |-> "member"]} : d \in Units}

MCInit ==
    /\ \E org, project \in SomeRow(BOOLEAN), other \in SomeRow({FALSE}) :
          rel = [s \in Places |-> [u \in Users |->
                   IF u = "u1" THEN (IF s = "org" THEN org ELSE project)
                   ELSE IF s = "org" THEN other ELSE NoRow]]
    /\ grants \in [Places -> SomeGrants]
    /\ unit = [u \in Users |-> IF u = "u1" THEN CHOOSE d \in Units : TRUE ELSE NoRow]
    /\ call = [c \in Sessions |-> [op |-> "none", result |-> "ok"]]
    /\ calls = 0
    /\ loose = IF rel["org"]["u1"] = NoRow /\ rel["project"]["u1"] # NoRow THEN {"u1"} ELSE {}
    /\ crossed = FALSE

MCSpec == MCInit /\ [][Next]_vars

Symmetric == Permutations(Sessions)
=============================================================================
