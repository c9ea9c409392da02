------------------------------ MODULE MCAccounts ------------------------------
(* Model checking Accounts with two requests at a time and the endpoints  *)
(* that share rows or counters.                                           *)
EXTENDS Accounts

CONSTANTS ann, Ann, bob

LowerCase == [e \in Emails |-> IF e = Ann THEN ann ELSE e]

Together == {{"register", "login"},
             {"register", "refresh", "logout", "expiry"},
             {"register", "create_key", "revoke_key", "expiry"}}

(* A request may fail anywhere but between INCR and EXPIRE. *)
FailuresAllowed == Labels \ {"counted"}
=============================================================================
