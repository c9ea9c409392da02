------------------------------- MODULE StepLog -------------------------------
(***************************************************************************)
(* The step log of one task: EventEmitter.emit of orchestrator/events.py   *)
(* run by several emitters at once (the worker that runs the agent, a      *)
(* second worker after a redelivery, the API process that cancels).  An    *)
(* emit reads the highest step number, inserts the next one in the table   *)
(* task_steps, commits, and then publishes the event on the Redis channel  *)
(* of the task.  Nothing orders two emitters but the unique constraint on  *)
(* (task_id, step_number).                                                 *)
(***************************************************************************)
EXTENDS FaultModel, Naturals, Sequences, FiniteSets, FiniteSetsExt

CONSTANT Emitters \* whoever holds an EventEmitter for the task

VARIABLES
  rows,           \* the rows of task_steps: [num, type, by]
  published,      \* the messages sent on the channel: [id, sse, by], in order
  em              \* per emitter, the emit call in progress

logVars == <<rows, published, em>>

StepTypes == {"think", "tool_call", "tool_result", "reflect", "plan_update",
              "user_input", "context_summarized", "report"}

SseTypes == {"think", "tool_call", "tool_result", "reflect", "plan_created",
             "plan_updated", "user_input_required", "context_summarized",
             "task_completed", "task_failed"}

(* Mutant: an entry of the table is forgotten. *)
SseTypeOf_NoReport(type) ==
  CASE type = "plan_update" -> "plan_updated"
    [] type = "user_input"  -> "user_input_required"
    [] OTHER                -> type

(* The event type an emit publishes when its caller names none. *)
SseTypeOf(type) ==
  CASE type = "plan_update" -> "plan_updated"
    [] type = "user_input"  -> "user_input_required"
    [] type = "report"      -> "task_completed"
    [] OTHER                -> type

EmitPcs == {"idle", "select", "insert", "publish", "sent", "raised"}

Idle == [pc |-> "idle", type |-> "think", sse |-> "think", num |-> 0]

StepNumbers == {row.num : row \in rows}

(* Mutant: the last number instead of the next. *)
NextNumber_Last == Max({0} \cup StepNumbers)

(* coalesce(max(step_number), 0) + 1 *)
NextNumber == Max({0} \cup StepNumbers) + 1

(* Mutant: no unique constraint. *)
NumberTaken_Never(n) == FALSE

(* The unique constraint uq_task_step_number. *)
NumberTaken(n) == n \in StepNumbers

LogInit ==
  /\ rows = {}
  /\ published = << >>
  /\ em = [e \in Emitters |-> Idle]

-----------------------------------------------------------------------------
(* The statements of emit, one action between two awaits. *)

EmitCall(e, type, sse) ==
  /\ em[e].pc = "idle"
  /\ em' = [em EXCEPT ![e] = [pc |-> "select", type |-> type, sse |-> sse, num |-> 0]]
  /\ UNCHANGED <<rows, published>>

SelectNumber(e) ==
  /\ em[e].pc = "select"
  /\ em' = [em EXCEPT ![e] = [@ EXCEPT !.pc = "insert", !.num = NextNumber]]
  /\ UNCHANGED <<rows, published>>

(* Mutant: the commit is forgotten. *)
InsertStep_Uncommitted(e) ==
  /\ em[e].pc = "insert"
  /\ em' = [em EXCEPT ![e].pc = "publish"]
  /\ UNCHANGED <<rows, published>>

(* The insert and its commit succeed only if the number is still free. *)
InsertStep(e) ==
  /\ em[e].pc = "insert"
  /\ ~ NumberTaken(em[e].num)
  /\ rows' = rows \cup {[num |-> em[e].num, type |-> em[e].type, by |-> e]}
  /\ em' = [em EXCEPT ![e].pc = "publish"]
  /\ UNCHANGED published

(* Mutant: the insert waits for the number to become free. *)
InsertConflict_Waits(e) ==
  /\ em[e].pc = "insert"
  /\ NumberTaken(em[e].num)
  /\ UNCHANGED logVars

(* IntegrityError: another emitter took the number since the select. *)
InsertConflict(e) ==
  /\ em[e].pc = "insert"
  /\ NumberTaken(em[e].num)
  /\ em' = [em EXCEPT ![e].pc = "raised"]
  /\ UNCHANGED <<rows, published>>

Message(e) == [id |-> em[e].num, sse |-> em[e].sse, by |-> e]

Publish(e) ==
  /\ em[e].pc = "publish"
  /\ published' = Append(published, Message(e))
  /\ em' = [em EXCEPT ![e].pc = "sent"]
  /\ UNCHANGED rows

(* Postgres fails: before the commit, or after it when only the answer to  *)
(* the commit is lost and the row is there.                                *)
StoreFails(e) ==
  /\ "store" \in Faults
  /\ em[e].pc \in {"select", "insert"}
  /\ em' = [em EXCEPT ![e].pc = "raised"]
  /\ \/ UNCHANGED rows
     \/ /\ em[e].pc = "insert"
        /\ ~ NumberTaken(em[e].num)
        /\ rows' = rows \cup {[num |-> em[e].num, type |-> em[e].type, by |-> e]}
  /\ UNCHANGED published

(* Redis fails: the message is not sent, or sent and the answer is lost. *)
PublishFails(e) ==
  /\ "publish" \in Faults
  /\ em[e].pc = "publish"
  /\ em' = [em EXCEPT ![e].pc = "raised"]
  /\ published' \in {published, Append(published, Message(e))}
  /\ UNCHANGED rows

(* The call returns its number or raises, and its caller goes on. *)
EmitReturn(e) ==
  /\ em[e].pc \in {"sent", "raised"}
  /\ em' = [em EXCEPT ![e] = Idle]
  /\ UNCHANGED <<rows, published>>

(* The process of the emitter dies and its call with it, wherever it was. *)
EmitterDies(e) ==
  /\ "crash" \in Faults
  /\ em[e].pc # "idle"
  /\ em' = [em EXCEPT ![e] = Idle]
  /\ UNCHANGED <<rows, published>>

(* The next statement of the emit call e has in progress gets its answer. *)
EmitProgress(e) ==
  \/ SelectNumber(e)
  \/ InsertStep(e)
  \/ InsertConflict(e)
  \/ Publish(e)

(* One step of the emit call e has in progress. *)
EmitStep(e) ==
  \/ EmitProgress(e)
  \/ StoreFails(e)
  \/ PublishFails(e)

LogNext ==
  \E e \in Emitters :
    \/ \E type \in StepTypes, sse \in SseTypes : EmitCall(e, type, sse)
    \/ EmitStep(e)
    \/ EmitReturn(e)
    \/ EmitterDies(e)

LogSpec == LogInit /\ [][LogNext]_logVars

(* Each process keeps running the statements of a call it has started, and  *)
(* no store has to fail for it to come to an end.                          *)
LogFairness ==
  \A e \in Emitters : WF_logVars(EmitProgress(e)) /\ WF_logVars(EmitReturn(e))

-----------------------------------------------------------------------------
(* Properties *)

(* Type invariant of the table, the channel and the calls in progress. *)
LogTypeOK ==
  /\ rows \subseteq [num : Nat, type : StepTypes, by : Emitters]
  /\ published \in Seq([id : Nat, sse : SseTypes, by : Emitters])
  /\ em \in [Emitters -> [pc : EmitPcs, type : StepTypes, sse : SseTypes, num : Nat]]

(* The numbers of a task's steps are exactly 1..n and no two rows share    *)
(* one, whatever the interleaving of emitters and the failures of their    *)
(* inserts: what replay after Last-Event-ID relies on.                     *)
GaplessNumbers == \A n \in StepNumbers : n # 0 /\ 1..n \subseteq StepNumbers
UniqueNumbers  == \A r, q \in rows : r.num = q.num => r = q
StepsNumbered  == GaplessNumbers /\ UniqueNumbers

(* A subscriber never sees an event whose step is not in the table under   *)
(* the same number and emitter: publish comes after the commit.            *)
PublishedArePersisted ==
  \A i \in 1..Len(published) :
    \E row \in rows : row.num = published[i].id /\ row.by = published[i].by

(* No step number is published twice, and the events of one emitter reach  *)
(* the channel in the order of their numbers (those of two emitters may    *)
(* not).                                                                   *)
PublishedOnceInOrder ==
  \A i, j \in 1..Len(published) : i < j =>
    /\ published[i].id # published[j].id
    /\ published[i].by = published[j].by => published[i].id < published[j].id

(* The table and the channel implement the append-only sequence of steps.  *)
TypeAt(n) == (CHOOSE row \in rows : row.num = n).type
Sequence == INSTANCE StepSequence WITH
  steps     <- [n \in StepNumbers |-> TypeAt(n)],
  announced <- {published[i].id : i \in 1..Len(published)}
ImplementsStepSequence == Sequence!SeqSpec

(* Every emit call that starts returns or raises, unless its process dies: *)
(* no caller waits for ever behind another emitter.                        *)
EmitTerminates == \A e \in Emitters : em[e].pc = "select" ~> em[e].pc \in {"sent", "raised", "idle"}
=============================================================================
