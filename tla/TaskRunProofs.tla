---------------------------- MODULE TaskRunProofs ----------------------------
(***************************************************************************)
(* For every number of deliveries and cancel requests and every set of     *)
(* faults: a task uses its step log and its sandbox only through their     *)
(* operations, at most one run has its agent at work, and no outcome is    *)
(* recorded before it is announced.  Where deliveries do not overlap and   *)
(* nobody cancels, the status follows its lifecycle.                       *)
(***************************************************************************)
EXTENDS TaskRun, StepLogProofs, SandboxProofs

(* Every step of a task is a step of its log, or leaves the log alone. *)
LEMMA TaskStepIsLogStep == [Next]_vars => [LogNext]_logVars
<1> SUFFICES ASSUME [Next]_vars PROVE [LogNext]_logVars
  OBVIOUS
<1> USE TaskRunAssumption DEF logVars
<1>1. ASSUME NEW r \in Runs, RunStep(r)
      PROVE  [LogNext]_logVars
  <2>1. r \in Emitters
    OBVIOUS
  <2>2. CASE Deliver(r) \/ LoadTask(r) \/ SetPlanning(r) \/ StartupFails(r) \/ CreateSandbox(r)
             \/ SandboxReady(r) \/ SandboxTimeout(r) \/ Prepare(r) \/ SetRunning(r)
    BY <2>2 DEF Deliver, LoadTask, SetPlanning, StartupFails, CreateSandbox,
                SandboxReady, SandboxTimeout, Prepare, SetRunning
  <2>3. ASSUME NEW type \in WorkKinds, AgentWorks(r, type)
        PROVE  [LogNext]_logVars
    <3>1. type \in StepTypes /\ WorkEvents(type) \subseteq SseTypes
      BY DEF WorkTypes, WorkEvents, StepTypes, SseTypes, SseTypeOf
    <3> QED BY <2>1, <2>3, <3>1 DEF AgentWorks, LogNext
  <2>4. CASE AgentReports(r) \/ ReportFailure(r)
    <3>1. "report" \in StepTypes /\ {"task_completed", "task_failed"} \subseteq SseTypes
      BY DEF StepTypes, SseTypes
    <3> QED BY <2>1, <2>4, <3>1 DEF AgentReports, ReportFailure, LogNext
  <2>5. CASE AgentEmitted(r) \/ FailureReported(r)
    BY <2>1, <2>5 DEF AgentEmitted, FailureReported, LogNext
  <2>6. CASE AgentFails(r) \/ Account(r) \/ SetCompleted(r) \/ StatusWriteFails(r)
             \/ Remember(r) \/ SetFailed(r) \/ Cleanup(r)
    BY <2>6 DEF AgentFails, Account, SetCompleted, StatusWriteFails, Remember,
                SetFailed, Cleanup
  <2>7. CASE Emitting(r)
    BY <2>1, <2>7 DEF Emitting, LogNext
  <2> QED BY <1>1, <2>2, <2>3, <2>4, <2>5, <2>6, <2>7 DEF RunStep
<1>2. ASSUME NEW r \in Runs, WorkerCrash(r)
      PROVE  [LogNext]_logVars
  BY <1>2 DEF WorkerCrash, LogNext
<1>3. ASSUME NEW c \in Cancels, CancelStep(c) \/ ApiCrash(c)
      PROVE  [LogNext]_logVars
  <2>1. c \in Emitters
    OBVIOUS
  <2>2. CASE CancelRead(c) \/ CancelCommit(c)
    BY <2>2 DEF CancelRead, CancelCommit
  <2>3. CASE CancelStop(c)
    <3>1. "report" \in StepTypes /\ "task_failed" \in SseTypes
      BY DEF StepTypes, SseTypes
    <3> QED BY <2>1, <2>3, <3>1 DEF CancelStop, LogNext
  <2>4. CASE CancelEmitted(c) \/ Emitting(c) \/ ApiCrash(c)
    BY <2>1, <2>4 DEF CancelEmitted, Emitting, ApiCrash, LogNext
  <2> QED BY <1>3, <2>2, <2>3, <2>4 DEF CancelStep
<1>4. CASE CreateTask \/ Enqueue
  BY <1>4 DEF CreateTask, Enqueue
<1>5. CASE UNCHANGED vars
  BY <1>5 DEF vars
<1> QED BY <1>1, <1>2, <1>3, <1>4, <1>5 DEF Next

(* A task uses its step log as LogSpec allows, so that all that is proved  *)
(* of the log holds of the log of a task.                                  *)
THEOREM TaskImplementsStepLog == Spec => LogSpec
<1>1. Init => LogInit
  BY DEF Init
<1> QED BY <1>1, TaskStepIsLogStep, PTL DEF Spec, LogSpec

(* Its overlapping runs and its cancel requests, whatever fails, write one   *)
(* sequence of steps, each recorded at the end and announced at most once.  *)
THEOREM TaskKeepsSequence == Spec => ImplementsStepSequence
BY TaskImplementsStepLog, LogImplementsSequence

(* Every step of a task is a step of its sandbox, or leaves it alone. *)
LEMMA TaskStepIsSandboxStep == [Next]_vars => [SandboxNext]_boxVars
<1> SUFFICES ASSUME [Next]_vars PROVE [SandboxNext]_boxVars
  OBVIOUS
<1> USE TaskRunAssumption DEF boxVars
<1>1. ASSUME NEW r \in Runs, RunStep(r)
      PROVE  [SandboxNext]_boxVars
  <2>1. r \in Processes
    OBVIOUS
  <2>2. CASE CreateSandbox(r)
    BY <2>1, <2>2 DEF CreateSandbox, SandboxNext
  <2>3. CASE SandboxTimeout(r) \/ Cleanup(r)
    BY <2>1, <2>3 DEF SandboxTimeout, Cleanup, SandboxNext
  <2>4. CASE ~ (CreateSandbox(r) \/ SandboxTimeout(r) \/ Cleanup(r))
    BY <1>1, <2>4
       DEF RunStep, Deliver, LoadTask, SetPlanning, StartupFails, SandboxReady, Prepare,
           SetRunning, AgentWorks, AgentReports, AgentFails, AgentEmitted, Account,
           SetCompleted, StatusWriteFails, Remember, ReportFailure, FailureReported,
           SetFailed, Emitting
  <2> QED BY <2>2, <2>3, <2>4
<1>2. ASSUME NEW r \in Runs, WorkerCrash(r)
      PROVE  [SandboxNext]_boxVars
  BY <1>2 DEF WorkerCrash, SandboxNext
<1>3. ASSUME NEW c \in Cancels, CancelStep(c) \/ ApiCrash(c)
      PROVE  [SandboxNext]_boxVars
  BY <1>3 DEF CancelStep, ApiCrash, CancelRead, CancelCommit, CancelStop, CancelEmitted,
              Emitting, SandboxNext
<1>4. CASE CreateTask \/ Enqueue
  BY <1>4 DEF CreateTask, Enqueue
<1>5. CASE UNCHANGED vars
  BY <1>5 DEF vars
<1> QED BY <1>1, <1>2, <1>3, <1>4, <1>5 DEF Next

(* A task uses its sandbox as SandboxSpec allows. *)
THEOREM TaskImplementsSandbox == Spec => SandboxSpec
<1>1. Init => SandboxInit
  BY DEF Init
<1> QED BY <1>1, TaskStepIsSandboxStep, PTL DEF Spec, SandboxSpec

-----------------------------------------------------------------------------
(* Types *)

(* The types of what is the task's own. *)
OwnTypeOK ==
  /\ status \in Statuses
  /\ message \in {"unsent", "queued", "acked", "lost"}
  /\ revoked \subseteq {RevokedId}
  /\ run \in [Runs -> RunPcs]
  /\ endpoint \in [Runs -> BOOLEAN]
  /\ cancel \in [Cancels -> CancelPcs]

LEMMA OwnTypeInit == Init => OwnTypeOK
BY DEF Init, OwnTypeOK, Statuses, Final, RunPcs, Ended, CancelPcs

LEMMA OwnTypeStep == OwnTypeOK /\ [Next]_vars => OwnTypeOK'
<1> SUFFICES ASSUME OwnTypeOK, [Next]_vars PROVE OwnTypeOK'
  OBVIOUS
<1> USE DEF OwnTypeOK, apiVars, runVars, Goto, MoveTo, Acknowledge, SetStatus,
            MaybeSetStatus, Statuses, Final
<1>1. ASSUME NEW r \in Runs, RunStep(r)
      PROVE  OwnTypeOK'
  <2> USE DEF RunPcs, Ended
  <2>1. CASE Deliver(r) \/ LoadTask(r) \/ SetPlanning(r) \/ StartupFails(r)
    BY <2>1 DEF Deliver, LoadTask, SetPlanning, StartupFails
  <2>2. CASE CreateSandbox(r) \/ SandboxReady(r) \/ SandboxTimeout(r) \/ Prepare(r)
    BY <2>2 DEF CreateSandbox, SandboxReady, SandboxTimeout, Prepare
  <2>3. CASE SetRunning(r) \/ (\E type \in WorkKinds : AgentWorks(r, type))
             \/ AgentReports(r) \/ AgentFails(r) \/ AgentEmitted(r)
    BY <2>3 DEF SetRunning, AgentWorks, AgentReports, AgentFails, AgentEmitted
  <2>4. CASE Account(r) \/ SetCompleted(r) \/ StatusWriteFails(r) \/ Remember(r)
    BY <2>4 DEF Account, SetCompleted, StatusWriteFails, Remember
  <2>5. CASE ReportFailure(r) \/ FailureReported(r) \/ SetFailed(r)
    BY <2>5 DEF ReportFailure, FailureReported, SetFailed
  <2>6. CASE Cleanup(r)
    BY <2>6 DEF Cleanup
  <2>7. CASE Emitting(r)
    BY <2>7 DEF Emitting
  <2> QED BY <1>1, <2>1, <2>2, <2>3, <2>4, <2>5, <2>6, <2>7 DEF RunStep
<1>2. ASSUME NEW r \in Runs, WorkerCrash(r)
      PROVE  OwnTypeOK'
  BY <1>2 DEF WorkerCrash, RunPcs, Ended
<1>3. ASSUME NEW c \in Cancels, CancelStep(c) \/ ApiCrash(c)
      PROVE  OwnTypeOK'
  <2> USE DEF CancelPcs
  <2>1. CASE CancelRead(c) \/ CancelCommit(c)
    BY <2>1 DEF CancelRead, CancelDecision, CancelCommit
  <2>2. CASE CancelStop(c) \/ CancelEmitted(c) \/ ApiCrash(c) \/ Emitting(c)
    BY <2>2 DEF CancelStop, CancelEmitted, ApiCrash, Emitting
  <2> QED BY <1>3, <2>1, <2>2 DEF CancelStep
<1>4. CASE CreateTask \/ Enqueue
  BY <1>4 DEF CreateTask, Enqueue
<1>5. CASE UNCHANGED vars
  BY <1>5 DEF vars
<1> QED BY <1>1, <1>2, <1>3, <1>4, <1>5 DEF Next

(* The row, the message, the runs, the requests, the log and the sandbox   *)
(* of a task keep their types.                                             *)
THEOREM TaskTyped == Spec => []TypeOK
<1>1. Spec => []OwnTypeOK
  BY OwnTypeInit, OwnTypeStep, PTL DEF Spec
<1>2. Spec => []LogInv
  BY TaskImplementsStepLog, LogInvariant, PTL
<1>3. Spec => []SandboxInv
  BY TaskImplementsSandbox, SandboxInitInv, SandboxStepInv, PTL DEF SandboxSpec
<1>4. OwnTypeOK /\ LogInv /\ SandboxInv => TypeOK
  BY DEF OwnTypeOK, LogInv, SandboxInv, TypeOK
<1> QED BY <1>1, <1>2, <1>3, <1>4, PTL

-----------------------------------------------------------------------------
(* At most one agent *)

(* A run between the start of its container and its cleanup has a session. *)
RunHoldsSession == \A r \in Runs : WithSandbox(r) => r \in sessions

LEMMA HoldsSessionStep ==
  OwnTypeOK /\ RunHoldsSession /\ [Next]_vars => RunHoldsSession'
<1> SUFFICES ASSUME OwnTypeOK, RunHoldsSession, [Next]_vars PROVE RunHoldsSession'
  OBVIOUS
<1> USE TaskRunAssumption
        DEF OwnTypeOK, RunHoldsSession, WithSandbox, Goto, boxVars, runVars
<1>1. ASSUME NEW r \in Runs, RunStep(r)
      PROVE  RunHoldsSession'
  <2>1. CASE Deliver(r) \/ LoadTask(r) \/ SetPlanning(r) \/ StartupFails(r)
    BY <2>1 DEF Deliver, LoadTask, SetPlanning, StartupFails
  <2>2. CASE CreateSandbox(r)
    BY <2>2 DEF CreateSandbox, StartContainer, StartRefused, StartLeaks
  <2>3. CASE SandboxReady(r) \/ Prepare(r) \/ SetRunning(r)
    BY <2>3 DEF SandboxReady, Prepare, SetRunning
  <2>4. CASE SandboxTimeout(r) \/ Cleanup(r)
    BY <2>4 DEF SandboxTimeout, Cleanup, DestroySession
  <2>5. CASE (\E type \in WorkKinds : AgentWorks(r, type)) \/ AgentReports(r)
             \/ AgentFails(r) \/ AgentEmitted(r)
    BY <2>5 DEF AgentWorks, AgentReports, AgentFails, AgentEmitted
  <2>6. CASE Account(r) \/ SetCompleted(r) \/ StatusWriteFails(r) \/ Remember(r)
    BY <2>6 DEF Account, SetCompleted, StatusWriteFails, Remember
  <2>7. CASE ReportFailure(r) \/ FailureReported(r) \/ SetFailed(r) \/ Emitting(r)
    BY <2>7 DEF ReportFailure, FailureReported, SetFailed, Emitting
  <2> QED BY <1>1, <2>1, <2>2, <2>3, <2>4, <2>5, <2>6, <2>7 DEF RunStep
<1>2. ASSUME NEW r \in Runs, WorkerCrash(r)
      PROVE  RunHoldsSession'
  BY <1>2 DEF WorkerCrash, ManagerDies
<1>3. ASSUME NEW c \in Cancels, CancelStep(c) \/ ApiCrash(c)
      PROVE  RunHoldsSession'
  BY <1>3 DEF CancelStep, ApiCrash, CancelRead, CancelCommit, CancelStop, CancelEmitted,
              Emitting, DestroySession
<1>4. CASE CreateTask \/ Enqueue
  BY <1>4 DEF CreateTask, Enqueue
<1>5. CASE UNCHANGED vars
  BY <1>5 DEF vars
<1> QED BY <1>1, <1>2, <1>3, <1>4, <1>5 DEF Next

(* However often and however concurrently the message is delivered, and    *)
(* whatever fails, at most one run of the task has its agent at work.      *)
THEOREM OneAgent == Spec => []AtMostOneAgent
<1>1. Init => RunHoldsSession
  BY DEF Init, RunHoldsSession, WithSandbox
<1>2. Spec => []OwnTypeOK
  BY OwnTypeInit, OwnTypeStep, PTL DEF Spec
<1>3. Spec => []RunHoldsSession
  BY <1>1, <1>2, HoldsSessionStep, PTL DEF Spec
<1>4. Spec => []SessionsOwnContainer
  BY TaskImplementsSandbox, SessionOwnsContainer, PTL
<1>5. RunHoldsSession /\ SessionsOwnContainer => AtMostOneAgent
  BY DEF RunHoldsSession, SessionsOwnContainer, AtMostOneAgent
<1> QED BY <1>3, <1>4, <1>5, PTL

-----------------------------------------------------------------------------
(* Outcomes are announced before they are recorded *)

(* What has been published stays published. *)
LEMMA PublishedGrows ==
  ASSUME LogTypeOK, [LogNext]_logVars
  PROVE  /\ Len(published) \in Nat /\ Len(published') \in Nat
         /\ Len(published) <= Len(published')
         /\ \A i \in 1..Len(published) : published'[i] = published[i]
<1> DEFINE S == [id : Nat, sse : SseTypes, by : Emitters]
<1>1. published \in Seq(S)
  BY DEF LogTypeOK
<1> HIDE DEF S
<1>2. ASSUME NEW x, published' = Append(published, x)
      PROVE  /\ Len(published) \in Nat /\ Len(published') \in Nat
             /\ Len(published) <= Len(published')
             /\ \A i \in 1..Len(published) : published'[i] = published[i]
  BY <1>1, <1>2
<1>3. Len(published) \in Nat
  BY <1>1
<1>4. published' = published \/ \E x : published' = Append(published, x)
  BY DEF LogNext, logVars, EmitStep, EmitProgress, EmitCall, SelectNumber, InsertStep, InsertConflict,
         Publish, StoreFails, PublishFails, EmitReturn, EmitterDies
<1> QED BY <1>2, <1>3, <1>4

LEMMA AnnouncedStays ==
  ASSUME LogTypeOK, [LogNext]_logVars, NEW sse, Announced(sse)
  PROVE  Announced(sse)'
<1>1. PICK i \in 1..Len(published) : published[i].sse = sse
  BY DEF Announced
<1>2. i \in 1..Len(published') /\ published'[i].sse = sse
  BY <1>1, PublishedGrows
<1> QED BY <1>2 DEF Announced

(* A statement of an emit keeps what is emitted, concerns no other emitter, *)
(* and reaches "sent" only by publishing.                                   *)
LEMMA EmitStepEffect ==
  ASSUME LogTypeOK, NEW e \in Emitters, EmitStep(e)
  PROVE  /\ em[e].pc # "idle" /\ em'[e].pc # "idle"
         /\ em'[e].type = em[e].type /\ em'[e].sse = em[e].sse
         /\ \A f \in Emitters : f # e => em'[f] = em[f]
         /\ em'[e].pc = "sent" => Announced(em[e].sse)'
<1> USE DEF LogTypeOK
<1>1. CASE SelectNumber(e)
  BY <1>1 DEF SelectNumber
<1>2. CASE InsertStep(e) \/ InsertConflict(e)
  BY <1>2 DEF InsertStep, InsertConflict
<1>3. CASE StoreFails(e) \/ PublishFails(e)
  BY <1>3 DEF StoreFails, PublishFails
<1>4. CASE Publish(e)
  <2> DEFINE S == [id : Nat, sse : SseTypes, by : Emitters]
  <2>1. published \in Seq(S)
    OBVIOUS
  <2> HIDE DEF S
  <2>2. /\ Len(published) + 1 \in 1..Len(published')
        /\ published'[Len(published) + 1] = Message(e)
    BY <1>4, <2>1 DEF Publish
  <2>3. Announced(em[e].sse)'
    <3>1. published'[Len(published) + 1].sse = em[e].sse
      BY <2>2 DEF Message
    <3>2. em'[e].sse = em[e].sse
      BY <1>4 DEF Publish
    <3> QED BY <3>1, <3>2, <2>2 DEF Announced
  <2> QED BY <1>4, <2>3 DEF Publish
<1> QED BY <1>1, <1>2, <1>3, <1>4 DEF EmitStep, EmitProgress

(* What a run knows of the announcement of its outcome, by where it is. *)
RunOutcome(r) ==
  /\ run[r] \notin {"agent", "failing"} => em[r].pc = "idle"
  /\ run[r] = "agent" /\ em[r].pc # "idle" /\ em[r].type = "report"
       => em[r].sse = "task_completed"
  /\ run[r] = "failing" => em[r].sse = "task_failed"
  /\ run[r] \in {"account", "complete", "remember"} => Announced("task_completed")
  /\ run[r] = "setfailed" => Announced("task_failed")

SentIsAnnounced == \A e \in Emitters : em[e].pc = "sent" => Announced(em[e].sse)

OutcomeInv ==
  /\ OutcomeAnnounced
  /\ SentIsAnnounced
  /\ \A r \in Runs : RunOutcome(r)

LEMMA OutcomeInit == Init => OutcomeInv
BY TaskRunAssumption
   DEF Init, LogInit, Idle, OutcomeInv, OutcomeAnnounced, SentIsAnnounced, RunOutcome

(* Only a statement of an emit makes a call "sent", so SentIsAnnounced is   *)
(* kept by every step of the log.                                           *)
LEMMA SentStep ==
  ASSUME LogTypeOK, SentIsAnnounced, [LogNext]_logVars
  PROVE  SentIsAnnounced'
<1> USE DEF LogTypeOK
<1>0. \A sse : Announced(sse) => Announced(sse)'
  BY AnnouncedStays
<1>1. ASSUME NEW e \in Emitters, EmitStep(e)
      PROVE  SentIsAnnounced'
  <2>1. ASSUME NEW f \in Emitters, em'[f].pc = "sent", f # e
        PROVE  Announced(em[f].sse)'
    <3>1. em'[f] = em[f] /\ Announced(em[f].sse)
      BY <1>1, <2>1, EmitStepEffect DEF SentIsAnnounced
    <3>2. PICK i \in 1..Len(published) : published[i].sse = em[f].sse
      BY <3>1 DEF Announced
    <3>3. i \in 1..Len(published') /\ published'[i].sse = em'[f].sse
      BY <3>1, <3>2, PublishedGrows
    <3> QED BY <3>3 DEF Announced
  <2>2. em'[e].pc = "sent" => Announced(em[e].sse)'
    BY <1>1, EmitStepEffect
  <2> QED BY <2>1, <2>2 DEF SentIsAnnounced
<1>2. ASSUME UNCHANGED published, \A f \in Emitters : em'[f] = em[f] \/ em'[f].pc # "sent"
      PROVE  SentIsAnnounced'
  BY <1>2 DEF SentIsAnnounced, Announced
<1>3. ASSUME NEW e \in Emitters, NEW type \in StepTypes, NEW sse \in SseTypes,
             EmitCall(e, type, sse)
      PROVE  SentIsAnnounced'
  <2>1. \A f \in Emitters : em'[f] = em[f] \/ em'[f].pc # "sent"
    BY <1>3 DEF EmitCall
  <2> QED BY <1>2, <1>3, <2>1 DEF EmitCall
<1>4. ASSUME NEW e \in Emitters, EmitReturn(e) \/ EmitterDies(e)
      PROVE  SentIsAnnounced'
  <2>1. \A f \in Emitters : em'[f] = em[f] \/ em'[f].pc # "sent"
    BY <1>4 DEF EmitReturn, EmitterDies, Idle
  <2> QED BY <1>2, <1>4, <2>1 DEF EmitReturn, EmitterDies
<1>5. CASE UNCHANGED logVars
  BY <1>2, <1>5 DEF logVars
<1> QED BY <1>1, <1>3, <1>4, <1>5 DEF LogNext

(* A step that leaves the status and the runs alone, and concerns the emit  *)
(* of one request only, keeps what the runs know.                           *)
LEMMA OthersOutcome ==
  ASSUME LogTypeOK, OwnTypeOK, OutcomeInv, [LogNext]_logVars,
         UNCHANGED <<status, run>>, NEW c \in Cancels,
         \A f \in Emitters : f # c => em'[f] = em[f]
  PROVE  OutcomeInv'
<1> USE TaskRunAssumption DEF OutcomeInv
<1>1. SentIsAnnounced'
  BY SentStep
<1>2. \A sse : Announced(sse) => Announced(sse)'
  BY AnnouncedStays
<1>3. OutcomeAnnounced'
  BY <1>2 DEF OutcomeAnnounced
<1>4. \A r \in Runs : RunOutcome(r)'
  BY <1>2 DEF RunOutcome
<1> QED BY <1>1, <1>3, <1>4

(* A step of run r keeps what the other runs know; it is enough to look at  *)
(* the status it writes and at where it leaves r.                           *)
LEMMA RunOutcomeStep ==
  ASSUME LogTypeOK, OwnTypeOK, OutcomeInv, [LogNext]_logVars, NEW r \in Runs,
         \A q \in Runs : q # r => run'[q] = run[q] /\ em'[q] = em[q],
         OutcomeAnnounced', RunOutcome(r)'
  PROVE  OutcomeInv'
<1> USE DEF OutcomeInv
<1>1. SentIsAnnounced'
  BY SentStep
<1>2. \A sse : Announced(sse) => Announced(sse)'
  BY AnnouncedStays
<1>3. ASSUME NEW q \in Runs, q # r
      PROVE  RunOutcome(q)'
  BY <1>2, <1>3 DEF RunOutcome
<1> QED BY <1>1, <1>3

LEMMA OutcomeStep ==
  LogTypeOK /\ OwnTypeOK /\ OutcomeInv /\ [Next]_vars => OutcomeInv'
<1> SUFFICES ASSUME LogTypeOK, OwnTypeOK, OutcomeInv, [Next]_vars PROVE OutcomeInv'
  OBVIOUS
<1> USE TaskRunAssumption
<1>1. [LogNext]_logVars
  BY TaskStepIsLogStep
<1>2. \A sse : Announced(sse) => Announced(sse)'
  BY <1>1, AnnouncedStays
<1>3. ASSUME NEW r \in Runs, RunStep(r)
      PROVE  OutcomeInv'
  <2> SUFFICES /\ \A q \in Runs : q # r => run'[q] = run[q] /\ em'[q] = em[q]
               /\ OutcomeAnnounced'
               /\ RunOutcome(r)'
    BY <1>1, RunOutcomeStep
  <2>0. OutcomeAnnounced /\ SentIsAnnounced /\ RunOutcome(r)
    BY DEF OutcomeInv
  <2> USE DEF OutcomeAnnounced, RunOutcome, Goto, OwnTypeOK, LogTypeOK
  <2>1. CASE Deliver(r) \/ LoadTask(r)
    BY <2>0, <2>1, <1>2 DEF Deliver, LoadTask, logVars, apiVars
  <2>2. CASE SetPlanning(r) \/ StartupFails(r)
    BY <2>0, <2>2, <1>2 DEF SetPlanning, StartupFails, SetStatus, MaybeSetStatus, logVars
  <2>3. CASE CreateSandbox(r) \/ SandboxReady(r) \/ SandboxTimeout(r)
    BY <2>0, <2>3, <1>2 DEF CreateSandbox, SandboxReady, SandboxTimeout, logVars, apiVars
  <2>4. CASE Prepare(r) \/ SetRunning(r)
    BY <2>0, <2>4, <1>2 DEF Prepare, SetRunning, SetStatus, logVars, apiVars
  <2>5. CASE \E type \in WorkKinds : AgentWorks(r, type)
    <3>1. PICK type \in WorkKinds : AgentWorks(r, type)
      BY <2>5
    <3>2. type # "report"
      BY DEF WorkTypes
    <3> QED BY <2>0, <3>1, <3>2, <1>2 DEF AgentWorks, EmitCall, apiVars, runVars
  <2>6. CASE AgentReports(r)
    BY <2>0, <2>6, <1>2 DEF AgentReports, EmitCall, apiVars, runVars
  <2>7. CASE AgentFails(r)
    BY <2>0, <2>7, <1>2 DEF AgentFails, logVars, apiVars
  <2>8. CASE AgentEmitted(r)
    BY <2>0, <2>8, <1>2 DEF AgentEmitted, EmitReturn, Idle, SentIsAnnounced, apiVars
  <2>9. CASE Account(r) \/ Remember(r)
    BY <2>0, <2>9, <1>2 DEF Account, Remember, logVars, apiVars
  <2>10. CASE SetCompleted(r) \/ StatusWriteFails(r)
    BY <2>0, <2>10, <1>2
       DEF SetCompleted, StatusWriteFails, SetStatus, MaybeSetStatus, logVars
  <2>11. CASE ReportFailure(r)
    BY <2>0, <2>11, <1>2 DEF ReportFailure, EmitCall, apiVars
  <2>12. CASE FailureReported(r)
    BY <2>0, <2>12, <1>2 DEF FailureReported, EmitReturn, Idle, SentIsAnnounced, apiVars
  <2>13. CASE SetFailed(r) \/ Cleanup(r)
    BY <2>0, <2>13, <1>2 DEF SetFailed, Cleanup, SetStatus, MaybeSetStatus, logVars
  <2>14. CASE Emitting(r)
    BY <2>0, <2>14, <1>2, EmitStepEffect DEF Emitting, apiVars, runVars
  <2> QED BY <1>3, <2>1, <2>2, <2>3, <2>4, <2>5, <2>6, <2>7, <2>8, <2>9, <2>10, <2>11,
             <2>12, <2>13, <2>14 DEF RunStep
<1>4. ASSUME NEW r \in Runs, WorkerCrash(r)
      PROVE  OutcomeInv'
  <2>1. \A q \in Runs : q # r => run'[q] = run[q] /\ em'[q] = em[q]
    BY <1>4 DEF WorkerCrash, EmitterDies, Goto, logVars, OwnTypeOK, LogTypeOK
  <2>2. OutcomeAnnounced'
    BY <1>2, <1>4 DEF WorkerCrash, OutcomeInv, OutcomeAnnounced
  <2>3. RunOutcome(r)'
    BY <1>4 DEF WorkerCrash, EmitterDies, Idle, Goto, logVars, OwnTypeOK, LogTypeOK,
                OutcomeInv, RunOutcome
  <2> QED BY <1>1, <2>1, <2>2, <2>3, RunOutcomeStep
<1>5. ASSUME NEW c \in Cancels, CancelStep(c) \/ ApiCrash(c)
      PROVE  OutcomeInv'
  <2>1. CASE CancelCommit(c)
    BY <2>1 DEF CancelCommit, SetStatus, MaybeSetStatus, logVars, runVars, OutcomeInv,
                OutcomeAnnounced, SentIsAnnounced, RunOutcome, Announced
  <2>2. CASE ~ CancelCommit(c)
    <3> SUFFICES /\ UNCHANGED <<status, run>>
                 /\ \A f \in Emitters : f # c => em'[f] = em[f]
      BY <1>1, OthersOutcome
    <3> USE DEF apiVars, runVars, logVars, LogTypeOK
    <3>1. CASE Emitting(c)
      BY <3>1, EmitStepEffect DEF Emitting
    <3>2. CASE CancelRead(c) \/ CancelEmitted(c) \/ ApiCrash(c)
      BY <3>2 DEF CancelRead, CancelEmitted, ApiCrash, EmitReturn, EmitterDies
    <3>3. CASE CancelStop(c)
      BY <3>3 DEF CancelStop, EmitCall
    <3> QED BY <1>5, <2>2, <3>1, <3>2, <3>3 DEF CancelStep
  <2> QED BY <2>1, <2>2
<1>6. CASE CreateTask \/ Enqueue
  BY <1>6 DEF CreateTask, Enqueue, SetStatus, logVars, runVars, OutcomeInv,
              OutcomeAnnounced, SentIsAnnounced, RunOutcome, Announced
<1>7. CASE UNCHANGED vars
  BY <1>7 DEF vars, apiVars, logVars, runVars, OutcomeInv, OutcomeAnnounced,
              SentIsAnnounced, RunOutcome, Announced
<1> QED BY <1>3, <1>4, <1>5, <1>6, <1>7 DEF Next

LEMMA OutcomeInvariant == Spec => []OutcomeInv
<1>1. Spec => []LogTypeOK
  BY TaskImplementsStepLog, LogTyped, PTL
<1>2. Spec => []OwnTypeOK
  BY OwnTypeInit, OwnTypeStep, PTL DEF Spec
<1> QED BY <1>1, <1>2, OutcomeInit, OutcomeStep, PTL DEF Spec

(* The table never says completed or failed before the stream has carried   *)
(* the outcome, whatever fails, is redelivered or is cancelled.             *)
THEOREM OutcomeIsAnnounced == Spec => []OutcomeAnnounced
<1>1. OutcomeInv => OutcomeAnnounced
  BY DEF OutcomeInv
<1> QED BY <1>1, OutcomeInvariant, PTL

-----------------------------------------------------------------------------
(* How runs leave the status *)

(* Where a run is that has written no status, or has written a final one    *)
(* as its last: all others are on their way to a status, or left without.   *)
Harmless == {"off", "load", "plan", "remember", "cleanup", "over"}

(* When a run has come to an end in good order, the status is final unless *)
(* another run has begun to write over it.                                 *)
SettledInv ==
  (\E r \in Runs : run[r] \in {"remember", "cleanup", "over"})
    => status \in Final \/ \E q \in Runs : run[q] \notin Harmless

LEMMA SettledStep == OwnTypeOK /\ SettledInv /\ [Next]_vars => SettledInv'
<1> SUFFICES ASSUME OwnTypeOK, SettledInv, [Next]_vars PROVE SettledInv'
  OBVIOUS
<1> USE DEF OwnTypeOK, Goto, SetStatus, MaybeSetStatus, apiVars, runVars
(* A run that is left outside of Harmless is the witness itself. *)
<1>1. ASSUME NEW r \in Runs, run'[r] \notin Harmless
      PROVE  SettledInv'
  BY <1>1 DEF SettledInv
(* A run that stays on its side, without a write of the status, changes     *)
(* nothing.                                                                 *)
<1>2. ASSUME NEW r \in Runs, UNCHANGED status, \A q \in Runs : q # r => run'[q] = run[q],
             run'[r] \in Harmless, run[r] \in Harmless,
             run'[r] \in {"remember", "cleanup", "over"}
               => status \in Final \/ run[r] \in {"remember", "cleanup", "over"}
      PROVE  SettledInv'
  BY <1>2 DEF SettledInv
<1>3. ASSUME status' \in Final
      PROVE  SettledInv'
  BY <1>3 DEF SettledInv
<1>4. ASSUME UNCHANGED <<status, run>>
      PROVE  SettledInv'
  BY <1>4 DEF SettledInv
<1>5. ASSUME NEW r \in Runs, RunStep(r)
      PROVE  SettledInv'
  <2>1. CASE Deliver(r) \/ LoadTask(r)
    BY <2>1, <1>2 DEF Deliver, LoadTask, Harmless
  <2>2. CASE SetPlanning(r) \/ StartupFails(r) \/ CreateSandbox(r) \/ SandboxReady(r)
             \/ SandboxTimeout(r) \/ Prepare(r) \/ SetRunning(r) \/ AgentFails(r)
    BY <2>2, <1>1
       DEF SetPlanning, StartupFails, CreateSandbox, SandboxReady, SandboxTimeout,
           Prepare, SetRunning, AgentFails, Harmless
  <2>3. CASE (\E type \in WorkKinds : AgentWorks(r, type)) \/ AgentReports(r) \/ Emitting(r)
    BY <2>3, <1>4 DEF AgentWorks, AgentReports, Emitting
  <2>4. CASE AgentEmitted(r)
    BY <2>4, <1>1, <1>4 DEF AgentEmitted, Harmless
  <2>5. CASE Account(r) \/ StatusWriteFails(r) \/ ReportFailure(r) \/ FailureReported(r)
    BY <2>5, <1>1
       DEF Account, StatusWriteFails, ReportFailure, FailureReported, Harmless
  <2>6. CASE SetCompleted(r)
    BY <2>6, <1>3 DEF SetCompleted, Final
  <2>7. CASE Remember(r)
    BY <2>7, <1>1, <1>2 DEF Remember, Harmless
  <2>8. CASE SetFailed(r)
    BY <2>8, <1>1, <1>3 DEF SetFailed, Harmless, Final
  <2>9. CASE Cleanup(r)
    BY <2>9, <1>1, <1>2 DEF Cleanup, Harmless
  <2> QED BY <1>5, <2>1, <2>2, <2>3, <2>4, <2>5, <2>6, <2>7, <2>8, <2>9 DEF RunStep
<1>6. ASSUME NEW r \in Runs, WorkerCrash(r)
      PROVE  SettledInv'
  BY <1>6, <1>1 DEF WorkerCrash, Harmless
<1>7. ASSUME NEW c \in Cancels, CancelStep(c) \/ ApiCrash(c)
      PROVE  SettledInv'
  <2>1. CASE CancelCommit(c)
    BY <2>1, <1>3, <1>4 DEF CancelCommit, Final
  <2>2. CASE ~ CancelCommit(c)
    BY <2>2, <1>4, <1>7
       DEF CancelStep, CancelRead, CancelStop, CancelEmitted, Emitting, ApiCrash
  <2> QED BY <2>1, <2>2
<1>8. CASE CreateTask
  BY <1>8 DEF CreateTask, SettledInv, Final
<1>9. CASE Enqueue \/ UNCHANGED vars
  BY <1>9, <1>4 DEF Enqueue, vars
<1> QED BY <1>5, <1>6, <1>7, <1>8, <1>9 DEF Next

(* A task is never left planning or running silently: with any number of    *)
(* deliveries and cancel requests and any faults, when every run that       *)
(* started has returned from run_task, the status is final.                 *)
THEOREM ReturnedIsSettled == Spec => []ReturnedMeansSettled
<1>1. Init => SettledInv
  BY DEF Init, SettledInv
<1>2. Spec => []OwnTypeOK
  BY OwnTypeInit, OwnTypeStep, PTL DEF Spec
<1>3. Spec => []SettledInv
  BY <1>1, <1>2, SettledStep, PTL DEF Spec
<1>4. SettledInv => ReturnedMeansSettled
  BY DEF SettledInv, ReturnedMeansSettled, Harmless
<1> QED BY <1>3, <1>4, PTL

-----------------------------------------------------------------------------
(* The sandbox is given back *)

Gentle == Faults \cap {"docker", "crash"} = {}

(* Every container has its session, and every session a run on its way to   *)
(* destroy it: in its health check, or past it and with endpoint set.       *)
ReclaimInv ==
  Gentle =>
    /\ container # NoOne => container \in sessions
    /\ \A p \in sessions :
         /\ p \in Runs
         /\ run[p] \notin {"off", "load", "plan", "sandbox"} \cup Ended
         /\ run[p] = "health" \/ endpoint[p]

LEMMA ReclaimStep ==
  OwnTypeOK /\ SessionsOwnContainer /\ ReclaimInv /\ [Next]_vars => ReclaimInv'
<1> SUFFICES ASSUME OwnTypeOK, SessionsOwnContainer, ReclaimInv, Gentle, [Next]_vars
             PROVE  ReclaimInv'
  BY DEF ReclaimInv, Gentle
<1> USE TaskRunAssumption, ProcessesAssumption
        DEF OwnTypeOK, SessionsOwnContainer, ReclaimInv, Gentle, InProgress, Ended,
            Goto, apiVars, runVars, boxVars
<1>1. ASSUME NEW r \in Runs, RunStep(r)
      PROVE  ReclaimInv'
  <2>1. CASE Deliver(r) \/ LoadTask(r) \/ SetPlanning(r) \/ StartupFails(r)
    BY <2>1 DEF Deliver, LoadTask, SetPlanning, StartupFails
  <2>2. CASE CreateSandbox(r)
    <3>1. CASE StartContainer(r) /\ Goto(r, "health")
      <4>1. sessions = {}
        BY <3>1 DEF StartContainer
      <4>2. container' = r /\ sessions' = {r}
        BY <3>1, <4>1 DEF StartContainer
      <4> QED BY <3>1, <4>2
    <3>2. CASE StartRefused(r) /\ Goto(r, "except")
      BY <3>2, <2>2 DEF CreateSandbox, StartRefused
    <3>3. ~ StartLeaks(r)
      BY DEF StartLeaks
    <3> QED BY <2>2, <3>1, <3>2, <3>3 DEF CreateSandbox
  <2>3. CASE SandboxReady(r)
    BY <2>3 DEF SandboxReady
  <2>4. CASE SandboxTimeout(r)
    BY <2>4 DEF SandboxTimeout, DestroySession
  <2>5. CASE Prepare(r) \/ SetRunning(r) \/ AgentFails(r) \/ AgentEmitted(r)
    BY <2>5 DEF Prepare, SetRunning, AgentFails, AgentEmitted
  <2>6. CASE (\E type \in WorkKinds : AgentWorks(r, type)) \/ AgentReports(r) \/ Emitting(r)
    BY <2>6 DEF AgentWorks, AgentReports, Emitting
  <2>7. CASE Account(r) \/ SetCompleted(r) \/ StatusWriteFails(r) \/ Remember(r)
    BY <2>7 DEF Account, SetCompleted, StatusWriteFails, Remember
  <2>8. CASE ReportFailure(r) \/ FailureReported(r) \/ SetFailed(r)
    BY <2>8 DEF ReportFailure, FailureReported, SetFailed
  <2>9. CASE Cleanup(r)
    BY <2>9 DEF Cleanup, DestroySession
  <2> QED BY <1>1, <2>1, <2>2, <2>3, <2>4, <2>5, <2>6, <2>7, <2>8, <2>9 DEF RunStep
<1>2. ASSUME NEW r \in Runs, WorkerCrash(r)
      PROVE  FALSE
  BY <1>2 DEF WorkerCrash, ManagerDies
<1>3. ASSUME NEW c \in Cancels, CancelStep(c) \/ ApiCrash(c)
      PROVE  ReclaimInv'
  <2>1. CASE CancelStop(c)
    BY <2>1 DEF CancelStop, DestroySession
  <2>2. CASE ~ CancelStop(c)
    BY <1>3, <2>2 DEF CancelStep, ApiCrash, CancelRead, CancelCommit, CancelEmitted, Emitting
  <2> QED BY <2>1, <2>2
<1>4. CASE CreateTask \/ Enqueue
  BY <1>4 DEF CreateTask, Enqueue
<1>5. CASE UNCHANGED vars
  BY <1>5 DEF vars
<1> QED BY <1>1, <1>2, <1>3, <1>4, <1>5 DEF Next

(* Every path of run_task and create_session gives the container back: with *)
(* any number of overlapping deliveries and cancel requests and all faults  *)
(* but those of Docker and crashes, no container outlives the runs.         *)
THEOREM SandboxIsReclaimed == Spec => []SandboxReclaimed
<1>1. Init => ReclaimInv
  BY DEF Init, SandboxInit, ReclaimInv
<1>2. Spec => []OwnTypeOK
  BY OwnTypeInit, OwnTypeStep, PTL DEF Spec
<1>3. Spec => []SessionsOwnContainer
  BY TaskImplementsSandbox, SessionOwnsContainer, PTL
<1>4. Spec => []ReclaimInv
  BY <1>1, <1>2, <1>3, ReclaimStep, PTL DEF Spec
<1>5. ReclaimInv => SandboxReclaimed
  BY DEF ReclaimInv, SandboxReclaimed, Gentle, InProgress
<1> QED BY <1>4, <1>5, PTL

-----------------------------------------------------------------------------
(* A settled task stays settled *)

LEMMA SettledStays ==
  OwnTypeOK /\ [Next]_vars => [(status \in Final /\ Quiet) => (UNCHANGED status /\ Quiet')]_vars
<1> SUFFICES ASSUME OwnTypeOK, Next, status \in Final, Quiet
             PROVE  UNCHANGED status /\ Quiet'
  BY DEF vars
<1> USE DEF OwnTypeOK, Quiet, Writing, InProgress, Ended, Goto, MoveTo, apiVars, runVars
<1>1. ASSUME NEW r \in Runs, RunStep(r)
      PROVE  UNCHANGED status /\ Quiet'
  <2>1. run[r] \in {"off", "load", "over", "raised", "crashed"}
    OBVIOUS
  <2>2. CASE Deliver(r) \/ LoadTask(r) \/ StartupFails(r)
    BY <2>1, <2>2 DEF Deliver, LoadTask, StartupFails
  <2>3. CASE Emitting(r)
    BY <2>3 DEF Emitting
  <2> QED
    BY <1>1, <2>1, <2>2, <2>3
       DEF RunStep, SetPlanning, CreateSandbox, SandboxReady, SandboxTimeout, Prepare,
           SetRunning, AgentWorks, AgentReports, AgentFails, AgentEmitted, Account,
           SetCompleted, StatusWriteFails, Remember, ReportFailure, FailureReported,
           SetFailed, Cleanup
<1>2. ASSUME NEW r \in Runs, WorkerCrash(r)
      PROVE  UNCHANGED status /\ Quiet'
  BY <1>2 DEF WorkerCrash
<1>3. ASSUME NEW c \in Cancels, CancelStep(c) \/ ApiCrash(c)
      PROVE  UNCHANGED status /\ Quiet'
  <2>1. CASE CancelRead(c)
    BY <2>1 DEF CancelRead, CancelDecision, Final
  <2>2. CASE CancelStop(c) \/ CancelEmitted(c) \/ Emitting(c) \/ ApiCrash(c)
    BY <2>2 DEF CancelStop, CancelEmitted, Emitting, ApiCrash
  <2> QED BY <1>3, <2>1, <2>2 DEF CancelStep, CancelCommit
<1>4. CASE CreateTask \/ Enqueue
  BY <1>4 DEF CreateTask, Enqueue, Final
<1> QED BY <1>1, <1>2, <1>3, <1>4 DEF Next

(* Once the status is final and no write is under way, no later delivery    *)
(* and no later cancel changes it, however many come and whatever fails.    *)
THEOREM SettledIsForGood == Spec => SettledForGood
<1>1. Spec => []OwnTypeOK
  BY OwnTypeInit, OwnTypeStep, PTL DEF Spec
<1> QED BY <1>1, SettledStays, PTL DEF Spec, SettledForGood

-----------------------------------------------------------------------------
(* One run at a time *)

(* Nobody cancels, and a message that is being worked on is not handed out  *)
(* again: the visibility timeout of the broker is longer than the run.      *)
Undisturbed == Cancels = {} /\ "redelivery" \notin Faults

OneRun == \A r, q \in Runs : InProgress(r) /\ InProgress(q) => r = q

OneEmitter ==
  \A e, f \in Emitters : em[e].pc # "idle" /\ em[f].pc # "idle" => e = f

LEMMA OneRunStep ==
  ASSUME Undisturbed, OwnTypeOK, OneRun, [Next]_vars
  PROVE  OneRun'
<1> USE DEF OwnTypeOK, OneRun, InProgress, Ended, Goto, runVars
<1>1. ASSUME \A q \in Runs : InProgress(q)' => InProgress(q)
      PROVE  OneRun'
  BY <1>1
<1>2. ASSUME NEW r \in Runs, RunStep(r)
      PROVE  OneRun'
  <2>1. CASE Deliver(r)
    BY <2>1 DEF Deliver, Undisturbed
  <2>2. CASE ~ Deliver(r)
    <3>1. /\ run[r] \notin {"off"} \cup Ended \/ UNCHANGED run
          /\ \A q \in Runs : q # r => run'[q] = run[q]
      BY <1>2, <2>2
         DEF RunStep, LoadTask, SetPlanning, StartupFails, CreateSandbox, SandboxReady,
             SandboxTimeout, Prepare, SetRunning, AgentWorks, AgentReports, AgentFails,
             AgentEmitted, Account, SetCompleted, StatusWriteFails, Remember, ReportFailure,
             FailureReported, SetFailed, Cleanup, Emitting
    <3> QED BY <1>1, <3>1
  <2> QED BY <2>1, <2>2
<1>3. ASSUME NEW r \in Runs, WorkerCrash(r)
      PROVE  OneRun'
  BY <1>1, <1>3 DEF WorkerCrash
<1>4. CASE CreateTask \/ Enqueue \/ UNCHANGED vars
  BY <1>1, <1>4 DEF CreateTask, Enqueue, vars
<1> QED BY <1>2, <1>3, <1>4 DEF Next, Undisturbed

(* Then at most one run is in progress, and with it at most one emit call.  *)
THEOREM OneAtATime ==
  ASSUME Undisturbed
  PROVE  Spec => [](OneRun /\ OneEmitter)
<1>1. Init => OneRun
  BY DEF Init, OneRun, InProgress
<1>2. Spec => []OwnTypeOK
  BY OwnTypeInit, OwnTypeStep, PTL DEF Spec
<1>3. OwnTypeOK /\ OneRun /\ [Next]_vars => OneRun'
  BY OneRunStep
<1>4. Spec => []OneRun
  BY <1>1, <1>2, <1>3, PTL DEF Spec
<1>5. OneRun /\ OutcomeInv => OneEmitter
  BY TaskRunAssumption
     DEF Undisturbed, OneRun, OneEmitter, OutcomeInv, RunOutcome, InProgress, Ended
<1> QED BY <1>4, <1>5, OutcomeInvariant, PTL

-----------------------------------------------------------------------------
(* The life of the status *)

(* Short-term memory and database answer as well: an exception behind the   *)
(* write of "completed" would take the status on to "failed".               *)
Orderly == Undisturbed /\ Faults \cap {"memory", "store"} = {}

(* What a run in progress knows of the status, by where it is: nobody else  *)
(* writes it.                                                               *)
StatusByPhase ==
  /\ message # "unsent" => status # "none"
  /\ \A r \in Runs :
       /\ run[r] # "off" => status # "none"
       /\ run[r] = "plan" => status \in {"submitted", "planning", "running"}
       /\ run[r] \in {"sandbox", "health", "prepare", "begin"} => status = "planning"
       /\ run[r] \in {"agent", "account", "complete"} => status = "running"
       /\ run[r] \in {"except", "failing", "setfailed", "unwind"}
            => status \in {"planning", "running"}

LEMMA LifecycleStep ==
  ASSUME Orderly, OwnTypeOK, OneRun, StatusByPhase, [Next]_vars
  PROVE  StatusByPhase' /\ [Lifecycle!Advance]_status
<1> USE DEF OwnTypeOK, StatusByPhase, Goto, SetStatus, MaybeSetStatus, Acknowledge, apiVars,
            runVars, Orderly, Lifecycle!Advance, Lifecycle!Successors, Final, Statuses
<1>1. ASSUME NEW r \in Runs, RunStep(r)
      PROVE  StatusByPhase' /\ [Lifecycle!Advance]_status
  <2> USE DEF OneRun, InProgress, Ended
  <2>1. CASE Deliver(r)
    BY <2>1 DEF Deliver
  <2>2. CASE LoadTask(r)
    BY <2>2 DEF LoadTask
  <2>3. CASE SetPlanning(r)
    BY <2>3 DEF SetPlanning
  <2>4. CASE StartupFails(r) \/ StatusWriteFails(r)
    BY <2>4 DEF StartupFails, StatusWriteFails
  <2>5. CASE CreateSandbox(r) \/ SandboxReady(r) \/ SandboxTimeout(r) \/ Prepare(r)
    BY <2>5 DEF CreateSandbox, SandboxReady, SandboxTimeout, Prepare
  <2>6. CASE SetRunning(r)
    BY <2>6 DEF SetRunning
  <2>7. CASE (\E type \in WorkKinds : AgentWorks(r, type)) \/ AgentReports(r) \/ Emitting(r)
    BY <2>7 DEF AgentWorks, AgentReports, Emitting
  <2>8. CASE AgentFails(r) \/ AgentEmitted(r) \/ Account(r)
    BY <2>8 DEF AgentFails, AgentEmitted, Account
  <2>9. CASE SetCompleted(r)
    BY <2>9 DEF SetCompleted
  <2>10. CASE Remember(r) \/ ReportFailure(r) \/ FailureReported(r)
    BY <2>10 DEF Remember, ReportFailure, FailureReported
  <2>11. CASE SetFailed(r)
    BY <2>11 DEF SetFailed
  <2>12. CASE Cleanup(r)
    BY <2>12 DEF Cleanup
  <2> QED BY <1>1, <2>1, <2>2, <2>3, <2>4, <2>5, <2>6, <2>7, <2>8, <2>9, <2>10, <2>11, <2>12
             DEF RunStep
<1>2. ASSUME NEW r \in Runs, WorkerCrash(r)
      PROVE  StatusByPhase' /\ [Lifecycle!Advance]_status
  BY <1>2 DEF WorkerCrash, InProgress
<1>3. CASE CreateTask
  BY <1>3 DEF CreateTask
<1>4. CASE Enqueue
  BY <1>4 DEF Enqueue
<1>5. CASE UNCHANGED vars
  BY <1>5 DEF vars
<1> QED BY <1>1, <1>2, <1>3, <1>4, <1>5 DEF Next, Undisturbed

(* However often the message comes back after its run has ended, crashed or *)
(* been acknowledged in vain, the status follows its promised life: it goes *)
(* through its stages, back to planning at most, and final states are left  *)
(* by nobody.                                                               *)
THEOREM StatusFollowsLifecycle ==
  ASSUME Orderly
  PROVE  Spec => FollowsLifecycle
<1>1. Init => StatusByPhase /\ Lifecycle!LifecycleInit
  BY DEF Init, StatusByPhase, Lifecycle!LifecycleInit
<1>2. Spec => []OwnTypeOK
  BY OwnTypeInit, OwnTypeStep, PTL DEF Spec
<1>3. Spec => [](OneRun /\ OneEmitter)
  BY OneAtATime DEF Orderly
<1>4. OwnTypeOK /\ OneRun /\ StatusByPhase /\ [Next]_vars
        => StatusByPhase' /\ [Lifecycle!Advance]_status
  BY LifecycleStep
<1> QED BY <1>1, <1>2, <1>3, <1>4, PTL DEF Spec, FollowsLifecycle, Lifecycle!LifecycleSpec
=============================================================================
