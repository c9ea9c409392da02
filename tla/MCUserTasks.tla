------------------------------ MODULE MCUserTasks ------------------------------
(* Model checking UserTasks with two requests and two workers at a time: three *)
(* tasks where the list is read, two where there are workers, of which the     *)
(* message of the first may be delivered twice.                                *)
EXTENDS UserTasks

Twice == [t \in Tasks |-> IF t = 1 THEN 2 ELSE 1]

Together == {{"cancel", "list"}, {"cancel", "worker"}, {"worker", "record"}}

Sizes == [x \in Together |-> IF "list" \in x THEN 3 ELSE 2]
=============================================================================
