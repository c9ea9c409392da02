------------------------------- MODULE TaskRun -------------------------------
(***************************************************************************)
(* One task from its creation to its end: the API that creates and cancels *)
(* it (routers/tasks.py, repositories/task.py), the Celery message that    *)
(* carries it (worker/), and the runs of run_task (orchestrator/runner.py) *)
(* that the message starts, with the events they emit (StepLog) and the    *)
(* sandbox they use (Sandbox).  Delivery is at least once (acks_late), so  *)
(* several runs of the same task may exist, at the same time or one after  *)
(* the other.  An action is the code between two awaits that other         *)
(* processes can tell apart.                                               *)
(***************************************************************************)
EXTENDS StepLog, Sandbox

CONSTANTS
  Runs,          \* deliveries of the task's message, each a call of run_task
  Cancels,       \* DELETE requests for the task
  Api,           \* the API process, with its own sandbox manager
  WorkKinds,     \* the step types an agent at work emits
  MaxSteps       \* bound: the agent emits no work step once the log is this long

(* The steps the nodes of the agent graph record before the report. *)
WorkTypes == {"plan_update", "think", "tool_call", "tool_result", "reflect",
              "context_summarized"}

ASSUME TaskRunAssumption ==
  /\ Emitters = Runs \cup Cancels /\ Runs \cap Cancels = {}
  /\ Processes = Runs \cup {Api} /\ Api \notin Runs
  /\ WorkKinds \subseteq WorkTypes
  /\ MaxSteps \in Nat

VARIABLES
  status,        \* tasks.status, "none" before the row exists
  message,       \* the Celery message: "unsent", "queued", "acked" or "lost"
  revoked,       \* the message ids the workers were told to refuse
  run,           \* per run, where its call of run_task is
  endpoint,      \* per run, whether sandbox_endpoint is set
  cancel         \* per DELETE request, where it is

apiVars == <<status, message, revoked>>
runVars == <<run, endpoint>>
vars == <<logVars, boxVars, apiVars, runVars, cancel>>

Final == {"completed", "failed", "cancelled"}

Statuses == {"none", "submitted", "planning", "running"} \cup Final

(* delay() gives the message an id of its own; revoke is given the task's. *)
MessageId == "message id"
RevokedId == "task id"

Ended == {"over", "raised", "crashed"}

RunPcs == {"off", "load", "plan", "sandbox", "health", "prepare", "begin", "agent",
           "account", "complete", "remember", "except", "failing", "setfailed",
           "cleanup", "unwind"} \cup Ended

CancelPcs == {"off", "commit", "stop", "emit", "ok", "rejected", "error"}

Init ==
  /\ LogInit
  /\ SandboxInit
  /\ status = "none"
  /\ message = "unsent"
  /\ revoked = {}
  /\ run = [r \in Runs |-> "off"]
  /\ endpoint = [r \in Runs |-> FALSE]
  /\ cancel = [c \in Cancels |-> "off"]

Goto(r, pc) == run' = [run EXCEPT ![r] = pc]

(* _set_status: a blind write of the status, whatever it was.  (A row read *)
(* with that status already gets no UPDATE, which is the same write done   *)
(* at the read.)  When the commit raises the write may have happened.      *)
SetStatus(s) == status' = s
MaybeSetStatus(s) == "store" \in Faults /\ status' \in {status, s}

-----------------------------------------------------------------------------
(* Creation: the row is committed, then the message is sent. *)

CreateTask ==
  /\ status = "none"
  /\ SetStatus("submitted")
  /\ UNCHANGED <<logVars, boxVars, message, revoked, runVars, cancel>>

Enqueue ==
  /\ status # "none"
  /\ message = "unsent"
  /\ \/ message' = "queued"
     \/ "broker" \in Faults /\ message' = "lost"
  /\ UNCHANGED <<logVars, boxVars, status, revoked, runVars, cancel>>

-----------------------------------------------------------------------------
(* Delivery: a worker takes the message if nobody works on it, or again    *)
(* after the visibility timeout while somebody still does.                 *)

InProgress(r) == run[r] \notin Ended \cup {"off"}

Deliver(r) ==
  /\ run[r] = "off"
  /\ message = "queued"
  /\ MessageId \notin revoked
  /\ (\E q \in Runs : InProgress(q)) => "redelivery" \in Faults
  /\ Goto(r, "load")
  /\ UNCHANGED <<logVars, boxVars, apiVars, endpoint, cancel>>

(* The message is acknowledged when run_task returns or raises (acks_late); *)
(* the acknowledgement may not reach the broker.                            *)
Acknowledge ==
  \/ message' = "acked"
  \/ "broker" \in Faults /\ UNCHANGED message

-----------------------------------------------------------------------------
(* run_task, before the try: the guard against finished tasks, and the     *)
(* first status write.  A failure here leaves run_task with no handler.    *)

(* Mutant: only a cancelled task is refused. *)
LoadTask_CancelledOnly(r) ==
  /\ run[r] = "load"
  /\ IF status = "cancelled"
       THEN Goto(r, "over") /\ Acknowledge
       ELSE Goto(r, "plan") /\ UNCHANGED message
  /\ UNCHANGED <<logVars, boxVars, status, revoked, endpoint, cancel>>

LoadTask(r) ==
  /\ run[r] = "load"
  /\ IF status \in Final
       THEN Goto(r, "over") /\ Acknowledge
       ELSE Goto(r, "plan") /\ UNCHANGED message
  /\ UNCHANGED <<logVars, boxVars, status, revoked, endpoint, cancel>>

SetPlanning(r) ==
  /\ run[r] = "plan"
  /\ SetStatus("planning")
  /\ Goto(r, "sandbox")
  /\ UNCHANGED <<logVars, boxVars, message, revoked, endpoint, cancel>>

StartupFails(r) ==
  /\ \/ run[r] = "load" /\ "store" \in Faults /\ UNCHANGED status
     \/ run[r] = "plan" /\ MaybeSetStatus("planning")
  /\ Goto(r, "raised")
  /\ Acknowledge
  /\ UNCHANGED <<logVars, boxVars, revoked, endpoint, cancel>>

-----------------------------------------------------------------------------
(* run_task, the try block. *)

CreateSandbox(r) ==
  /\ run[r] = "sandbox"
  /\ \/ StartContainer(r) /\ Goto(r, "health")
     \/ StartRefused(r) /\ Goto(r, "except")
     \/ StartLeaks(r) /\ Goto(r, "except")
  /\ UNCHANGED <<logVars, apiVars, endpoint, cancel>>

SandboxReady(r) ==
  /\ run[r] = "health"
  /\ Goto(r, "prepare")
  /\ endpoint' = [endpoint EXCEPT ![r] = TRUE]
  /\ UNCHANGED <<logVars, boxVars, apiVars, cancel>>

(* Mutant: the container is left behind when it is not healthy in time. *)
SandboxTimeout_Leaves(r) ==
  /\ "unhealthy" \in Faults
  /\ run[r] = "health"
  /\ Goto(r, "except")
  /\ UNCHANGED <<logVars, boxVars, apiVars, endpoint, cancel>>

(* Not healthy within 15 seconds: the session is destroyed, then raised. *)
SandboxTimeout(r) ==
  /\ "unhealthy" \in Faults
  /\ run[r] = "health"
  /\ DestroySession(r)
  /\ Goto(r, "except")
  /\ UNCHANGED <<logVars, apiVars, endpoint, cancel>>

(* build_llm and the memory block read from Redis. *)
Prepare(r) ==
  /\ run[r] = "prepare"
  /\ \/ Goto(r, "begin")
     \/ "memory" \in Faults /\ Goto(r, "except")
  /\ UNCHANGED <<logVars, boxVars, apiVars, endpoint, cancel>>

SetRunning(r) ==
  /\ run[r] = "begin"
  /\ SetStatus("running")
  /\ Goto(r, "agent")
  /\ UNCHANGED <<logVars, boxVars, message, revoked, endpoint, cancel>>

(* plan_node announces its plan as created, reflect_node as updated; the   *)
(* other nodes leave the event type to the emitter.                        *)
WorkEvents(type) ==
  IF type = "plan_update" THEN {"plan_created", "plan_updated"} ELSE {SseTypeOf(type)}

(* The agent graph, seen from outside: it emits work steps one at a time,  *)
(* then its report, and may raise between them (AgentGraph has the nodes). *)
AgentWorks(r, type) ==
  /\ run[r] = "agent"
  /\ Cardinality(rows) < MaxSteps
  /\ \E sse \in WorkEvents(type) : EmitCall(r, type, sse)
  /\ UNCHANGED <<boxVars, apiVars, runVars, cancel>>

AgentReports(r) ==
  /\ run[r] = "agent"
  /\ EmitCall(r, "report", "task_completed")
  /\ UNCHANGED <<boxVars, apiVars, runVars, cancel>>

AgentFails(r) ==
  /\ "agent" \in Faults
  /\ run[r] = "agent"
  /\ em[r].pc = "idle"
  /\ Goto(r, "except")
  /\ UNCHANGED <<logVars, boxVars, apiVars, endpoint, cancel>>

(* The emit of a node returned, or raised out of the graph; the graph ends *)
(* with its report.                                                        *)
AgentEmitted(r) ==
  /\ run[r] = "agent"
  /\ EmitReturn(r)
  /\ \/ em[r].pc = "raised" /\ Goto(r, "except")
     \/ em[r].pc = "sent" /\ em[r].type = "report" /\ Goto(r, "account")
     \/ em[r].pc = "sent" /\ em[r].type # "report" /\ UNCHANGED run
  /\ UNCHANGED <<boxVars, apiVars, endpoint, cancel>>

(* The sums over the steps and the token usage record. *)
Account(r) ==
  /\ run[r] = "account"
  /\ \/ Goto(r, "complete")
     \/ "store" \in Faults /\ Goto(r, "except")
  /\ UNCHANGED <<logVars, boxVars, apiVars, endpoint, cancel>>

SetCompleted(r) ==
  /\ run[r] = "complete"
  /\ SetStatus("completed")
  /\ Goto(r, "remember")
  /\ UNCHANGED <<logVars, boxVars, message, revoked, endpoint, cancel>>

(* A status write of the try block raises. *)
StatusWriteFails(r) ==
  /\ \/ run[r] = "begin" /\ MaybeSetStatus("running")
     \/ run[r] = "complete" /\ MaybeSetStatus("completed")
  /\ Goto(r, "except")
  /\ UNCHANGED <<logVars, boxVars, message, revoked, endpoint, cancel>>

(* store_task_summary, inside the try although the task is complete. *)
Remember(r) ==
  /\ run[r] = "remember"
  /\ \/ Goto(r, "cleanup")
     \/ "memory" \in Faults /\ Goto(r, "except")
  /\ UNCHANGED <<logVars, boxVars, apiVars, endpoint, cancel>>

-----------------------------------------------------------------------------
(* run_task, the except and finally blocks. *)

(* Mutant: the failure is published without a step of its own. *)
ReportFailure_NoStep(r) ==
  /\ run[r] = "except"
  /\ em' = [em EXCEPT ![r] = [pc |-> "publish", type |-> "report",
                              sse |-> "task_failed", num |-> 0]]
  /\ Goto(r, "failing")
  /\ UNCHANGED <<rows, published, boxVars, apiVars, endpoint, cancel>>

ReportFailure(r) ==
  /\ run[r] = "except"
  /\ EmitCall(r, "report", "task_failed")
  /\ Goto(r, "failing")
  /\ UNCHANGED <<boxVars, apiVars, endpoint, cancel>>

(* Mutant: the status write is forgotten. *)
FailureReported_NoStatus(r) ==
  /\ run[r] = "failing"
  /\ EmitReturn(r)
  /\ Goto(r, IF em[r].pc = "sent" THEN "cleanup" ELSE "unwind")
  /\ UNCHANGED <<boxVars, apiVars, endpoint, cancel>>

(* Mutant: the status is written although the event could not be sent. *)
FailureReported_Anyway(r) ==
  /\ run[r] = "failing"
  /\ EmitReturn(r)
  /\ Goto(r, "setfailed")
  /\ UNCHANGED <<boxVars, apiVars, endpoint, cancel>>

(* If the emit raises, the failed status is never written. *)
FailureReported(r) ==
  /\ run[r] = "failing"
  /\ EmitReturn(r)
  /\ \/ em[r].pc = "sent" /\ Goto(r, "setfailed")
     \/ em[r].pc = "raised" /\ Goto(r, "unwind")
  /\ UNCHANGED <<boxVars, apiVars, endpoint, cancel>>

SetFailed(r) ==
  /\ run[r] = "setfailed"
  /\ \/ SetStatus("failed") /\ Goto(r, "cleanup")
     \/ MaybeSetStatus("failed") /\ Goto(r, "unwind")
  /\ UNCHANGED <<logVars, boxVars, message, revoked, endpoint, cancel>>

(* Mutant: the container is removed by its name, whoever started it. *)
Cleanup_ByName(r) ==
  /\ run[r] \in {"cleanup", "unwind"}
  /\ sessions' = sessions \ {r}
  /\ container' = NoOne
  /\ Goto(r, IF run[r] = "cleanup" THEN "over" ELSE "raised")
  /\ Acknowledge
  /\ UNCHANGED <<logVars, status, revoked, endpoint, cancel>>

(* The finally block; then run_task returns or goes on raising. *)
Cleanup(r) ==
  /\ run[r] \in {"cleanup", "unwind"}
  /\ IF endpoint[r] THEN DestroySession(r) ELSE UNCHANGED boxVars
  /\ Goto(r, IF run[r] = "cleanup" THEN "over" ELSE "raised")
  /\ Acknowledge
  /\ UNCHANGED <<logVars, status, revoked, endpoint, cancel>>

(* The worker dies: the message is acknowledged if only the pool process   *)
(* died (reject_on_worker_lost is off), and comes back otherwise.          *)
WorkerCrash(r) ==
  /\ InProgress(r)
  /\ ManagerDies(r)
  /\ IF em[r].pc = "idle" THEN UNCHANGED logVars ELSE EmitterDies(r)
  /\ message' \in {message, "acked"}
  /\ Goto(r, "crashed")
  /\ UNCHANGED <<status, revoked, endpoint, cancel>>

-----------------------------------------------------------------------------
(* The DELETE request. *)

MoveTo(c, pc) == cancel' = [cancel EXCEPT ![c] = pc]

(* What cancel_task of the repository does with a task it finds: refuse,   *)
(* leave it as it is, or mark the loaded row cancelled.                    *)
CancelDecision(found) ==
  CASE found \in {"completed", "failed"} -> "rejected"
    [] found = "cancelled"               -> "ok"
    [] OTHER                             -> "commit"

(* Both reads of the request see the row as the first one loaded it (the   *)
(* session's identity map), so one read decides.                           *)
CancelRead(c) ==
  /\ cancel[c] = "off"
  /\ status # "none"
  /\ MoveTo(c, CancelDecision(status))
  /\ UNCHANGED <<logVars, boxVars, apiVars, runVars>>

CancelCommit(c) ==
  /\ cancel[c] = "commit"
  /\ \/ SetStatus("cancelled") /\ MoveTo(c, "stop")
     \/ MaybeSetStatus("cancelled") /\ MoveTo(c, "error")
  /\ UNCHANGED <<logVars, boxVars, message, revoked, runVars>>

(* revoke, destroy_session in the API process, and the call of the emit. *)
CancelStop(c) ==
  /\ cancel[c] = "stop"
  /\ revoked' = revoked \cup {RevokedId}
  /\ DestroySession(Api)
  /\ EmitCall(c, "report", "task_failed")
  /\ MoveTo(c, "emit")
  /\ UNCHANGED <<status, message, runVars>>

CancelEmitted(c) ==
  /\ cancel[c] = "emit"
  /\ EmitReturn(c)
  /\ MoveTo(c, IF em[c].pc = "sent" THEN "ok" ELSE "error")
  /\ UNCHANGED <<boxVars, apiVars, runVars>>

ApiCrash(c) ==
  /\ "crash" \in Faults
  /\ cancel[c] \in {"commit", "stop", "emit"}
  /\ IF em[c].pc = "idle" THEN UNCHANGED logVars ELSE EmitterDies(c)
  /\ MoveTo(c, "error")
  /\ UNCHANGED <<boxVars, apiVars, runVars>>

-----------------------------------------------------------------------------
Emitting(e) ==
  /\ EmitStep(e)
  /\ UNCHANGED <<boxVars, apiVars, runVars, cancel>>

RunStep(r) ==
  \/ Deliver(r)
  \/ LoadTask(r)
  \/ SetPlanning(r)
  \/ StartupFails(r)
  \/ CreateSandbox(r)
  \/ SandboxReady(r)
  \/ SandboxTimeout(r)
  \/ Prepare(r)
  \/ SetRunning(r)
  \/ \E type \in WorkKinds : AgentWorks(r, type)
  \/ AgentReports(r)
  \/ AgentFails(r)
  \/ AgentEmitted(r)
  \/ Account(r)
  \/ SetCompleted(r)
  \/ StatusWriteFails(r)
  \/ Remember(r)
  \/ ReportFailure(r)
  \/ FailureReported(r)
  \/ SetFailed(r)
  \/ Cleanup(r)
  \/ Emitting(r)

CancelStep(c) ==
  \/ CancelRead(c)
  \/ CancelCommit(c)
  \/ CancelStop(c)
  \/ CancelEmitted(c)
  \/ Emitting(c)

Next ==
  \/ CreateTask
  \/ Enqueue
  \/ \E r \in Runs : RunStep(r) \/ WorkerCrash(r)
  \/ \E c \in Cancels : CancelStep(c) \/ ApiCrash(c)

Spec == Init /\ [][Next]_vars

(* A process that has something to do goes on; users need not create or    *)
(* cancel anything, and nothing has to fail.                               *)
Fairness ==
  /\ WF_vars(Enqueue)
  /\ \A r \in Runs : WF_vars(RunStep(r))
  /\ \A c \in Cancels : WF_vars(cancel[c] # "off" /\ CancelStep(c))

FairSpec == Spec /\ Fairness

-----------------------------------------------------------------------------
(* Properties *)

(* Type invariant of the task's row, message, runs and requests. *)
TypeOK ==
  /\ LogTypeOK
  /\ SandboxTypeOK
  /\ status \in Statuses
  /\ message \in {"unsent", "queued", "acked", "lost"}
  /\ revoked \subseteq {RevokedId}
  /\ run \in [Runs -> RunPcs]
  /\ endpoint \in [Runs -> BOOLEAN]
  /\ cancel \in [Cancels -> CancelPcs]

Announced(sse) == \E i \in 1..Len(published) : published[i].sse = sse

(* A task is not completed or failed in the table before its stream has    *)
(* carried task_completed or task_failed: a client that finds the status   *)
(* final missed no outcome it could have waited for.  Holds through        *)
(* redelivery, crashes and lost answers, although the status write and the *)
(* event are separate calls in separate stores.                            *)
OutcomeAnnounced ==
  /\ status = "completed" => Announced("task_completed")
  /\ status = "failed" => Announced("task_failed")

(* The phases in which a run uses its sandbox for the agent. *)
WithSandbox(r) == run[r] \in {"health", "prepare", "begin", "agent", "account",
                              "complete", "remember"}

(* However often the message is delivered, at most one run of the task has *)
(* its agent at work: the container's name is the lock, held until the     *)
(* owner destroys it.                                                      *)
AtMostOneAgent == \A r, q \in Runs : WithSandbox(r) /\ WithSandbox(q) => r = q

(* Once the status is final and no write is under way, nothing that comes  *)
(* later, be it the same message again or another cancel, changes it or    *)
(* gets as far as a write: the guards of run_task and of cancel_task hold  *)
(* for good.                                                               *)
Writing(r) == InProgress(r) /\ run[r] # "load"
Quiet == (\A r \in Runs : ~ Writing(r)) /\ (\A c \in Cancels : cancel[c] # "commit")
SettledForGood == [][(status \in Final /\ Quiet) => (UNCHANGED status /\ Quiet')]_vars

(* When every run that started has returned normally, the status is final: *)
(* a task is left planning or running only by a run that raised out of     *)
(* run_task or died, never silently.                                       *)
ReturnedMeansSettled ==
  (\A r \in Runs : run[r] \in {"off", "over"}) /\ (\E r \in Runs : run[r] = "over")
    => status \in Final

(* While Docker works and no worker dies, the container of the task is     *)
(* gone once no run is in progress: every path of run_task and of          *)
(* create_session, the failing ones included, gives it back.               *)
SandboxReclaimed ==
  Faults \cap {"docker", "crash"} = {} /\ (\A r \in Runs : ~ InProgress(r))
  => container = NoOne /\ sessions = {}

(* The status of the task follows the life its readers are promised: final *)
(* states are left by nobody, even if the message comes back after the end *)
(* because its acknowledgement was lost.  Needs deliveries that do not     *)
(* overlap, no cancel, and short-term memory and database that answer.     *)
Lifecycle == INSTANCE TaskLifecycle WITH stage <- status
FollowsLifecycle == Lifecycle!LifecycleSpec

(* A queued task ends and stays ended: no run and no emit of a run waits   *)
(* for ever, whatever the agent and the sandbox do.                        *)
TaskSettles == message = "queued" ~> [](status \in Final)

(* Documented: "Cancel a task from any state except completed/failed"      *)
(* (repositories/task.py:96).  The decision is taken on a row read before, *)
(* and the write is blind.                                                 *)
CancelNeverFromFinished ==
  [][(status \in {"completed", "failed"}) => (status' # "cancelled")]_vars

(* Documented: "Cancellation sequence (BR-TASK-21): revoke Celery task,    *)
(* stop sandbox, emit event" (routers/tasks.py:106).  Once the sequence is *)
(* past its first two steps no sandbox of the task is up.                  *)
CancelStopsSandbox ==
  [][\A c \in Cancels : (cancel[c] = "stop" /\ cancel'[c] = "emit")
                          => (container' = NoOne)]_vars
=============================================================================
