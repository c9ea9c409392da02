------------------------------- MODULE UserTasks -------------------------------
(***************************************************************************)
(* The tasks of one user side by side: the limit of concurrent tasks in    *)
(* create_task, the paginated list, the monthly token counter that every   *)
(* finished run adds to (orchestrator/budget.py), and the list of recent   *)
(* summaries the runs share (memory/short_term.py).  A message may be      *)
(* delivered more than once, so a task may have several runs, one after    *)
(* another or side by side.  What else a run does is in TaskRun; here the  *)
(* status is only active or ended, and the sandbox a name that is taken.   *)
(***************************************************************************)
EXTENDS Integers, FiniteSets, Sequences

CONSTANTS
  Tasks,      \* bound: the ids of the tasks that can be created, by their order
  Requests,   \* the concurrent POST requests of the user
  Workers,    \* the worker's processes, worker_concurrency of them
  Limit,      \* 5 concurrent tasks
  PageSize,   \* limit of GET /tasks
  MaxRecent,  \* _MAX_RECENT summaries
  Deliveries, \* bound: how often the message of each task is delivered at most
  Amounts,    \* bound: the tokens the agent of a run may spend
  Workloads,  \* bound: what goes on together in one behaviour
  MaxTasks    \* bound: how many tasks are created with each workload

ASSUME UserTasksAssumption ==
  /\ Tasks \subseteq Nat \ {0} /\ IsFiniteSet(Tasks)
  /\ IsFiniteSet(Requests) /\ IsFiniteSet(Workers)
  /\ Limit \in Nat \ {0} /\ PageSize \in Nat \ {0} /\ MaxRecent \in Nat \ {0}
  /\ Deliveries \in [Tasks -> Nat \ {0}] /\ Amounts \subseteq Nat
  /\ MaxTasks \in [Workloads -> Nat]

VARIABLES
  workload,  \* which of workers, recording runs, cancels and a listing client there are
  status,    \* "none" before the row exists, "active" or "ended"
  created,   \* created_at of each row
  req,       \* the POST requests
  copies,    \* how often the message of a task will still be delivered
  work,      \* the run each worker process has in progress
  boxes,     \* the tasks whose container name is taken
  reopened,  \* history: ended tasks that a run made active again
  spent,     \* the sum of tokens_used over the step rows of a task
  usage,     \* token_used_this_month
  met,       \* history: the workers recording usage that met another one at it
  alone,     \* history: the tokens recorded by runs that met no other
  recorded,  \* history: how many runs of a task have recorded its tokens
  recent,    \* mem:short:<user>:recent, newest first
  untrimmed, \* history: the runs since the last trim that pushed and did not get to trim
  page       \* a client that reads the list

rowVars == <<workload, status, created, req, copies>>
runVars == <<work, boxes, reopened>>
usageVars == <<spent, usage, met, alone, recorded>>
recentVars == <<recent, untrimmed>>
userVars == <<workload, status, created, req, copies, work, boxes, reopened, spent, usage,
              met, alone, recorded, recent, untrimmed, page>>

WorkPcs == {"free", "loaded", "planning", "ready", "working", "reported", "read",
            "recorded", "completed", "pushed", "cleanup"}
NoReq == [at |-> "idle", time |-> 0, task |-> 0]
Free == [at |-> "free", task |-> 0, seen |-> 0, sum |-> 0]
NoPage == [at |-> "off", filter |-> "all", cursor |-> 0, got |-> {},
           steady |-> {}, repeated |-> FALSE]

UserInit ==
  /\ workload \in Workloads
  /\ status = [t \in Tasks |-> "none"]
  /\ created = [t \in Tasks |-> 0]
  /\ req = [r \in Requests |-> NoReq]
  /\ copies = [t \in Tasks |-> 0]
  /\ work = [w \in Workers |-> Free]
  /\ boxes = {} /\ reopened = {}
  /\ spent = [t \in Tasks |-> 0] /\ recorded = [t \in Tasks |-> 0]
  /\ usage = 0 /\ met = {} /\ alone = 0
  /\ recent = <<>> /\ untrimmed = 0
  /\ page = NoPage

-----------------------------------------------------------------------------
Rows == {t \in Tasks : status[t] # "none"}

(* Mutant: finished tasks are counted too. *)
Active_All == Rows

(* The rows count_running_tasks counts: submitted, planning, running, or    *)
(* waiting for input.                                                       *)
Active == {t \in Tasks : status[t] = "active"}

(* Mutant: one task more is let through. *)
CountTasks_OffByOne(r) ==
  /\ req[r] = NoReq
  /\ Cardinality(Active) <= Limit
  /\ req' = [req EXCEPT ![r] = [NoReq EXCEPT !.at = "counted", !.time = Cardinality(Rows)]]
  /\ UNCHANGED <<workload, status, created, copies, runVars, usageVars, recentVars, page>>

(* The transaction begins and counts; at the limit the answer is 429.  Its  *)
(* time is measured by the rows that exist: it never runs backwards, and    *)
(* transactions that overlap may have the same.                             *)
CountTasks(r) ==
  /\ req[r] = NoReq
  /\ Cardinality(Active) < Limit
  /\ req' = [req EXCEPT ![r] = [NoReq EXCEPT !.at = "counted", !.time = Cardinality(Rows)]]
  /\ UNCHANGED <<workload, status, created, copies, runVars, usageVars, recentVars, page>>

(* The random id of a new row.  Ids order the list and nothing else: where  *)
(* no list is read, the least one stands for all.                           *)
NewIds ==
  {t \in Tasks \ Rows : /\ Cardinality(Rows) < MaxTasks[workload]
                       /\ ("list" \in workload \/ \A u \in Tasks \ Rows : t <= u)}

(* Mutant: the id is read before the row has one. *)
InsertTask_NoId(r) ==
  /\ req[r].at = "counted"
  /\ \E t \in NewIds :
       /\ status' = [status EXCEPT ![t] = "active"]
       /\ created' = [created EXCEPT ![t] = req[r].time]
       /\ req' = [req EXCEPT ![r] = [@ EXCEPT !.at = "inserted"]]
  /\ UNCHANGED <<workload, copies, runVars, usageVars, recentVars, page>>

(* The row is committed; created_at is the time its transaction began.      *)
InsertTask(r) ==
  /\ req[r].at = "counted"
  /\ \E t \in NewIds :
       /\ status' = [status EXCEPT ![t] = "active"]
       /\ created' = [created EXCEPT ![t] = req[r].time]
       /\ req' = [req EXCEPT ![r] = [@ EXCEPT !.at = "inserted", !.task = t]]
  /\ UNCHANGED <<workload, copies, runVars, usageVars, recentVars, page>>

(* delay: the broker delivers the message at least once. *)
Enqueue(r) ==
  /\ req[r].at = "inserted"
  /\ \E n \in 1..Deliveries[req[r].task] : copies' = [copies EXCEPT ![req[r].task] = n]
  /\ req' = [req EXCEPT ![r] = NoReq]
  /\ UNCHANGED <<workload, status, created, runVars, usageVars, recentVars, page>>

(* The insert or the broker raises, or the process dies. *)
RequestFails(r) ==
  /\ req[r] # NoReq
  /\ req' = [req EXCEPT ![r] = NoReq]
  /\ UNCHANGED <<workload, status, created, copies, runVars, usageVars, recentVars, page>>

CancelTask(t) ==
  /\ "cancel" \in workload
  /\ status[t] = "active"
  /\ status' = [status EXCEPT ![t] = "ended"]
  /\ UNCHANGED <<workload, created, req, copies, runVars, usageVars, recentVars, page>>

-----------------------------------------------------------------------------
(* The run a worker process has in progress *)

Go(w, from, to) == work[w].at = from /\ work' = [work EXCEPT ![w].at = to]

TaskOf(w) == work[w].task

(* A free process takes a delivery; at the guard of run_task the run of a   *)
(* task that has ended is over.                                             *)
LoadTask(w, t) ==
  /\ "worker" \in workload
  /\ work[w].at = "free" /\ copies[t] > 0
  /\ copies' = [copies EXCEPT ![t] = @ - 1]
  /\ work' = [work EXCEPT ![w] =
                IF status[t] = "active" THEN [Free EXCEPT !.at = "loaded", !.task = t] ELSE Free]
  /\ UNCHANGED <<workload, status, created, req, boxes, reopened, usageVars, recentVars, page>>

(* _set_status does not look at the status it replaces. *)
SetActive(t) ==
  /\ status' = [status EXCEPT ![t] = "active"]
  /\ reopened' = IF status[t] = "ended" THEN reopened \cup {t} ELSE reopened
  /\ UNCHANGED <<workload, created, req, copies, usageVars, recentVars, page>>

SetPlanning(w) == Go(w, "loaded", "planning") /\ SetActive(TaskOf(w)) /\ UNCHANGED boxes

(* create_session: one container by the name of the task. *)
StartSandbox(w) ==
  /\ TaskOf(w) \notin boxes
  /\ Go(w, "planning", "ready")
  /\ boxes' = boxes \cup {TaskOf(w)}
  /\ UNCHANGED <<rowVars, reopened, usageVars, recentVars, page>>

(* The name is taken: create_session raises, and the task is set to failed. *)
SandboxRefused(w) ==
  /\ work[w].at = "planning" /\ TaskOf(w) \in boxes
  /\ status' = [status EXCEPT ![TaskOf(w)] = "ended"]
  /\ work' = [work EXCEPT ![w] = Free]
  /\ UNCHANGED <<workload, created, req, copies, boxes, reopened, usageVars, recentVars, page>>

SetRunning(w) == Go(w, "ready", "working") /\ SetActive(TaskOf(w)) /\ UNCHANGED boxes

(* The agent stores its steps with the tokens of each; those of an earlier  *)
(* run of the task stay in the table.                                       *)
AgentWorks(w) ==
  /\ "record" \in workload
  /\ Go(w, "working", "reported")
  /\ \E n \in Amounts : spent' = [spent EXCEPT ![TaskOf(w)] = @ + n]
  /\ UNCHANGED <<rowVars, boxes, reopened, usage, met, alone, recorded, recentVars, page>>

(* _sum_task_tokens adds up all rows of the task, and record_usage loads    *)
(* the user.  Between the two nobody adds a row with tokens, since the run  *)
(* has the container of the task.                                           *)
ReadUsage(w) ==
  /\ work[w].at = "reported"
  /\ work' = [work EXCEPT ![w] = [@ EXCEPT !.at = "read", !.seen = usage,
                                            !.sum = spent[TaskOf(w)]]]
  /\ LET others == {v \in Workers \ {w} : work[v].at = "read"}
     IN  met' = IF others = {} THEN met ELSE met \cup others \cup {w}
  /\ UNCHANGED <<rowVars, boxes, reopened, spent, usage, alone, recorded, recentVars, page>>

(* Mutant: the counter is set to the tokens of the task. *)
WriteUsage_Replaces(w) ==
  /\ work[w].at = "read"
  /\ usage' = work[w].sum
  /\ work' = [work EXCEPT ![w] = [Free EXCEPT !.at = "recorded", !.task = TaskOf(w)]]
  /\ recorded' = [recorded EXCEPT ![TaskOf(w)] = @ + 1]
  /\ alone' = IF w \in met THEN alone ELSE alone + work[w].sum
  /\ met' = met \ {w}
  /\ UNCHANGED <<rowVars, boxes, reopened, spent, recentVars, page>>

(* The commit stores the sum of what the run loaded and all tokens of the   *)
(* task, those that an earlier run has recorded included.                   *)
WriteUsage(w) ==
  /\ work[w].at = "read"
  /\ usage' = work[w].seen + work[w].sum
  /\ work' = [work EXCEPT ![w] = [Free EXCEPT !.at = "recorded", !.task = TaskOf(w)]]
  /\ recorded' = [recorded EXCEPT ![TaskOf(w)] = @ + 1]
  /\ alone' = IF w \in met THEN alone ELSE alone + work[w].sum
  /\ met' = met \ {w}
  /\ UNCHANGED <<rowVars, boxes, reopened, spent, recentVars, page>>

SetCompleted(w) ==
  /\ Go(w, IF "record" \in workload THEN "recorded" ELSE "working", "completed")
  /\ status' = [status EXCEPT ![TaskOf(w)] = "ended"]
  /\ UNCHANGED <<workload, created, req, copies, boxes, reopened, usageVars, recentVars, page>>

(* LPUSH *)
PushSummary(w) ==
  /\ "record" \in workload
  /\ Go(w, "completed", "pushed")
  /\ recent' = <<TaskOf(w)>> \o recent
  /\ UNCHANGED <<rowVars, boxes, reopened, usageVars, untrimmed, page>>

(* Mutant: the list keeps one summary more. *)
TrimSummaries_OffByOne(w) ==
  /\ Go(w, "pushed", "cleanup")
  /\ recent' = SubSeq(recent, 1, IF Len(recent) > MaxRecent THEN MaxRecent + 1 ELSE Len(recent))
  /\ untrimmed' = 0
  /\ UNCHANGED <<rowVars, boxes, reopened, usageVars, page>>

(* LTRIM; the EXPIRE that follows only prolongs the key. *)
TrimSummaries(w) ==
  /\ Go(w, "pushed", "cleanup")
  /\ recent' = SubSeq(recent, 1, IF Len(recent) > MaxRecent THEN MaxRecent ELSE Len(recent))
  /\ untrimmed' = 0
  /\ UNCHANGED <<rowVars, boxes, reopened, usageVars, page>>

(* A run with an empty summary stores none. *)
NoSummary(w) ==
  /\ Go(w, "completed", "cleanup")
  /\ UNCHANGED <<rowVars, boxes, reopened, usageVars, recentVars, page>>

(* The finally block: the container is removed, unless Docker raises. *)
Cleanup(w) ==
  /\ work[w].at = "cleanup"
  /\ work' = [work EXCEPT ![w] = Free]
  /\ boxes' \in {boxes, boxes \ {TaskOf(w)}}
  /\ UNCHANGED <<rowVars, reopened, usageVars, recentVars, page>>

(* The states of a run that was given its container. *)
Holding == {"ready", "working", "reported", "read", "recorded", "completed", "pushed"}

(* What a run that breaks off leaves: create_session may have left a        *)
(* container that nobody knows.                                             *)
Break(w) ==
  /\ boxes' \in {boxes} \cup {boxes \cup {t} : t \in {u \in {TaskOf(w)} : work[w].at = "planning"}}
  /\ met' = met \ {w}
  /\ untrimmed' = IF work[w].at = "pushed" THEN untrimmed + 1 ELSE untrimmed
  /\ UNCHANGED <<workload, created, req, copies, reopened, spent, usage, alone, recorded, recent, page>>

(* The finally block is still to run where there is a container to remove.  *)
Finally(w) ==
  work' = [work EXCEPT ![w] = IF @.at \in Holding
                              THEN [Free EXCEPT !.at = "cleanup", !.task = TaskOf(w)] ELSE Free]

(* Something raises behind the first status write, which is outside the try *)
(* block, and the except block records the failure ...                      *)
RunFails(w) ==
  /\ work[w].at \in {"planning"} \cup Holding
  /\ status' = [status EXCEPT ![TaskOf(w)] = "ended"]
  /\ Finally(w) /\ Break(w)

(* ... or raises too, as the first status write may: the status stays.      *)
RunRaises(w) ==
  /\ work[w].at \in {"loaded", "planning"} \cup Holding
  /\ Finally(w) /\ Break(w)
  /\ UNCHANGED status

WorkerDies(w) ==
  /\ work[w].at # "free"
  /\ work' = [work EXCEPT ![w] = Free]
  /\ Break(w)
  /\ UNCHANGED status

-----------------------------------------------------------------------------
(* GET /tasks, page by page *)

(* ORDER BY created_at DESC, id DESC *)
Before(t, u) == created[t] > created[u] \/ (created[t] = created[u] /\ t > u)

Matching(filter) ==
  {t \in Rows : filter = "all" \/ status[t] = filter}

(* Mutant: the rows of the cursor's time are taken to be read. *)
After_TimeOnly(cursor, t) == cursor = 0 \/ created[t] < created[cursor]

(* The rows behind the cursor. *)
After(cursor, t) == cursor = 0 \/ Before(cursor, t)

(* list_tasks reads one row more than a page to know if there is another;   *)
(* the cursor is the last row of the page.                                  *)
FetchPage(filter) ==
  /\ "list" \in workload
  /\ page.at = "off" \/ (page.at = "more" /\ page.filter = filter)
  /\ LET rest == {t \in Matching(filter) : After(page.cursor, t)}
         rows == {t \in rest : Cardinality({u \in rest : Before(u, t)}) < PageSize}
         more == rest # rows
     IN  page' =
          [at |-> IF more THEN "more" ELSE "end",
           filter |-> filter,
           cursor |-> IF more THEN CHOOSE t \in rows : \A u \in rows \ {t} : Before(u, t)
                              ELSE page.cursor,
           got |-> page.got \cup rows,
           steady |-> IF page.at = "off" THEN Matching(filter) ELSE page.steady,
           repeated |-> page.repeated \/ rows \cap page.got # {}]
  /\ UNCHANGED <<rowVars, runVars, usageVars, recentVars>>

-----------------------------------------------------------------------------
RunStep(w) ==
  \/ \E t \in Tasks : LoadTask(w, t)
  \/ SetPlanning(w) \/ StartSandbox(w) \/ SandboxRefused(w) \/ SetRunning(w)
  \/ AgentWorks(w) \/ ReadUsage(w) \/ WriteUsage(w) \/ SetCompleted(w)
  \/ PushSummary(w) \/ TrimSummaries(w) \/ NoSummary(w) \/ Cleanup(w)

RequestStep(r) == InsertTask(r) \/ Enqueue(r)

UserNext ==
  \/ \E r \in Requests : CountTasks(r) \/ RequestStep(r) \/ RequestFails(r)
  \/ \E w \in Workers : RunStep(w) \/ RunFails(w) \/ RunRaises(w) \/ WorkerDies(w)
  \/ \E t \in Tasks : CancelTask(t)
  \/ \E filter \in {"all", "active", "ended"} : FetchPage(filter)

UserSpec == UserInit /\ [][UserNext]_userVars

(* Requests and runs go on, and a free worker takes a delivery; nobody has  *)
(* to send a request, to cancel or to read.                                 *)
FairUserSpec ==
  /\ UserSpec
  /\ \A r \in Requests : WF_userVars(RequestStep(r))
  /\ \A w \in Workers : WF_userVars(RunStep(w))

-----------------------------------------------------------------------------
(* Properties *)

UserTypeOK ==
  /\ status \in [Tasks -> {"none", "active", "ended"}]
  /\ created \in [Tasks -> Nat]
  /\ req \in [Requests -> [at : {"idle", "counted", "inserted"},
                           time : Nat, task : Tasks \cup {0}]]
  /\ \A r \in Requests : req[r].at = "inserted" => req[r].task \in Tasks
  /\ copies \in [Tasks -> Nat]
  /\ work \in [Workers -> [at : WorkPcs, task : Tasks \cup {0}, seen : Nat, sum : Nat]]
  /\ \A w \in Workers : work[w].at # "free" => TaskOf(w) \in Tasks
  /\ \A t \in Tasks :
       status[t] = "none" => copies[t] = 0 /\ \A w \in Workers : TaskOf(w) # t
  /\ boxes \subseteq Tasks /\ reopened \subseteq Tasks /\ met \subseteq Workers
  /\ spent \in [Tasks -> Nat] /\ recorded \in [Tasks -> Nat]
  /\ usage \in Nat /\ alone \in Nat /\ untrimmed \in Nat
  /\ recent \in Seq(Tasks)

(* The limit of concurrent tasks is counted before the insert and overshot  *)
(* by less than the number of concurrent requests; only a run that writes   *)
(* an active status over an end, be it a cancellation or the end of another *)
(* run of the task, brings the user further above it.                       *)
AdmissionBounded ==
  Cardinality(Active \ reopened) + Cardinality({r \in Requests : req[r].at = "counted"})
    < Limit + Cardinality(Requests)

(* Paging through the list while tasks come, end and are cancelled repeats  *)
(* no task, and misses none that matched from the first page to the last.   *)
ListComplete ==
  /\ ~page.repeated
  /\ page.at = "end" =>
       (page.steady \cap Matching(page.filter)) \ reopened \subseteq page.got

(* The sum of f over the tasks. *)
Sum(f) == Cardinality(UNION {{t} \X (1..f[t]) : t \in Tasks})

(* The monthly counter adds to a value read earlier, so runs that record at *)
(* the same time lose tokens of each other; it never loses those of a run   *)
(* that met no other.  A run adds all tokens of its task, so a second run   *)
(* of the task charges those of the first again; the counter has the tokens *)
(* of a task at most once for each of its runs that recorded, and those of  *)
(* a task with one such run at most once.                                   *)
UsageBetween ==
  alone <= usage /\ usage <= Sum([t \in Tasks |-> recorded[t] * spent[t]])

(* Pushed and trimmed by separate calls of concurrent runs, the list of     *)
(* summaries is over its cap by at most the runs between the two calls and  *)
(* those that broke off there since the last trim.                          *)
RecentBounded ==
  Len(recent) <= MaxRecent + Cardinality({w \in Workers : work[w].at = "pushed"}) + untrimmed

(* The tasks that count against the limit though nothing works on them: the *)
(* request died before it sent the message, or the last run before it set a *)
(* final status.                                                            *)
Stranded ==
  {t \in Tasks : /\ status[t] = "active" /\ copies[t] = 0
                 /\ \A w \in Workers : TaskOf(w) # t
                 /\ \A r \in Requests : req[r].task # t}

(* A user at the limit gets below it again, without cancelling, unless as   *)
(* many tasks as the limit allows are stranded.                             *)
RoomReturns ==
  "worker" \in workload =>
    []<>(Cardinality(Active) < Limit) \/ <>[](Cardinality(Stranded) >= Limit)
=============================================================================
