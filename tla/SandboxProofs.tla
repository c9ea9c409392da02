---------------------------- MODULE SandboxProofs ----------------------------
(***************************************************************************)
(* For every set of processes and of faults: whoever has a session for a   *)
(* task owns its one container.                                            *)
(***************************************************************************)
EXTENDS Sandbox, TLAPS

SandboxInv == SandboxTypeOK /\ SessionsOwnContainer

LEMMA SandboxInitInv == SandboxInit => SandboxInv
BY DEF SandboxInit, SandboxInv, SandboxTypeOK, SessionsOwnContainer

LEMMA SandboxStepInv == SandboxInv /\ [SandboxNext]_boxVars => SandboxInv'
<1> SUFFICES ASSUME SandboxInv, [SandboxNext]_boxVars PROVE SandboxInv'
  OBVIOUS
<1> USE ProcessesAssumption DEF SandboxInv, SandboxTypeOK, SessionsOwnContainer
<1>1. ASSUME NEW p \in Processes, StartContainer(p)
      PROVE  SandboxInv'
  BY <1>1 DEF StartContainer
<1>2. ASSUME NEW p \in Processes, StartRefused(p) \/ StartLeaks(p)
      PROVE  SandboxInv'
  BY <1>2 DEF StartRefused, StartLeaks, boxVars
<1>3. ASSUME NEW p \in Processes, DestroySession(p) \/ ManagerDies(p)
      PROVE  SandboxInv'
  BY <1>3 DEF DestroySession, ManagerDies
<1>4. CASE UNCHANGED boxVars
  BY <1>4 DEF boxVars
<1> QED BY <1>1, <1>2, <1>3, <1>4 DEF SandboxNext

(* Two processes never both believe they have a sandbox for the task. *)
THEOREM SessionOwnsContainer == SandboxSpec => []SessionsOwnContainer
<1>1. SandboxInv => SessionsOwnContainer
  BY DEF SandboxInv
<1>2. SandboxSpec => []SandboxInv
  BY SandboxInitInv, SandboxStepInv, PTL DEF SandboxSpec
<1> QED BY <1>1, <1>2, PTL
=============================================================================
