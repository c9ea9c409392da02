----------------------------- MODULE FaultModel -----------------------------
(***************************************************************************)
(* The failures of its surroundings that the backend has code paths for.   *)
(* Each module guards a failing step with the kind of fault it needs; a    *)
(* configuration chooses the kinds that may occur.                         *)
(*   store       a Postgres statement or commit raises                     *)
(*   publish     a publish on the Redis channel of a task raises           *)
(*   memory      a Redis call of the short-term memory raises              *)
(*   broker      the Celery broker refuses a message or an acknowledgement *)
(*   docker      a call of the Docker daemon raises                        *)
(*   unhealthy   a sandbox does not answer its health check in time        *)
(*   agent       a node of the agent graph raises                          *)
(*   crash       a worker or API process dies                              *)
(*   redelivery  the broker hands out a message that is still being worked *)
(***************************************************************************)

CONSTANT Faults

FaultKinds == {"store", "publish", "memory", "broker", "docker",
               "unhealthy", "agent", "crash", "redelivery"}

ASSUME FaultsAssumption == Faults \subseteq FaultKinds
=============================================================================
