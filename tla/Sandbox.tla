------------------------------- MODULE Sandbox -------------------------------
(***************************************************************************)
(* The sandbox container of one task, as sandbox/manager.py handles it.    *)
(* Docker knows one container by the name agentis-sandbox-<task id>; every *)
(* process that imports the manager keeps a session table of its own, and  *)
(* only the process that recorded the session can destroy the container.   *)
(***************************************************************************)
EXTENDS FaultModel

CONSTANT Processes  \* the processes with a sandbox manager: workers, API

VARIABLES
  container,        \* who started the container that holds the name, or NoOne
  sessions          \* the processes whose table has a session for the task

boxVars == <<container, sessions>>

NoOne == "no one"

ASSUME ProcessesAssumption == NoOne \notin Processes

SandboxInit ==
  /\ container = NoOne
  /\ sessions = {}

(* Mutant: containers without a name of their own, so no conflict. *)
StartContainer_Unnamed(p) ==
  /\ container' = p
  /\ sessions' = sessions \cup {p}

(* Mutant: the session is recorded under what the variable held before. *)
StartContainer_StaleKey(p) ==
  /\ container = NoOne
  /\ container' = p
  /\ sessions' = sessions \cup {container}

(* containers.run succeeds and the session is recorded. *)
StartContainer(p) ==
  /\ container = NoOne
  /\ container' = p
  /\ sessions' = sessions \cup {p}

(* containers.run raises: the name is in use, or Docker fails. *)
StartRefused(p) ==
  /\ container # NoOne \/ "docker" \in Faults
  /\ UNCHANGED boxVars

(* Docker fails between the creation of the container and the line that    *)
(* records the session: the container stays and nobody knows it.           *)
StartLeaks(p) ==
  /\ "docker" \in Faults
  /\ container = NoOne
  /\ container' = p
  /\ UNCHANGED sessions

(* The session leaves the table first; then its own container is stopped   *)
(* and removed, unless Docker raises, which is logged and dropped.         *)
DestroySession(p) ==
  /\ sessions' = sessions \ {p}
  /\ \/ container' = IF p \in sessions /\ container = p THEN NoOne ELSE container
     \/ "docker" \in Faults /\ UNCHANGED container

(* The table of a process dies with it; its container does not. *)
ManagerDies(p) ==
  /\ "crash" \in Faults
  /\ sessions' = sessions \ {p}
  /\ UNCHANGED container

SandboxNext ==
  \E p \in Processes :
    \/ StartContainer(p)
    \/ StartRefused(p)
    \/ StartLeaks(p)
    \/ DestroySession(p)
    \/ ManagerDies(p)

SandboxSpec == SandboxInit /\ [][SandboxNext]_boxVars

-----------------------------------------------------------------------------
SandboxTypeOK ==
  /\ container \in Processes \cup {NoOne}
  /\ sessions \subseteq Processes

(* Whoever has a session owns the one container of the task: two processes *)
(* never both believe they have a sandbox for it.                          *)
SessionsOwnContainer == \A p \in sessions : container = p
=============================================================================
