---------------------------- MODULE UserTasksProofs ----------------------------
(***************************************************************************)
(* For any number of tasks, requests, workers and deliveries: the limit of *)
(* concurrent tasks is overshot by less than the concurrent requests, the  *)
(* token counter stays between what was recorded alone and the tokens of   *)
(* each task times its recorded runs, and the list of summaries outgrows   *)
(* its cap by the runs that have not trimmed it.  The paged list of tasks  *)
(* is complete and repeats none.                                           *)
(***************************************************************************)
EXTENDS UserTasks, FiniteSetTheorems, WellFoundedInduction, TLAPS

WorkStates == [at : WorkPcs, task : Tasks \cup {0}, seen : Nat, sum : Nat]

(* The type invariant: what the API keeps and what the runs keep. *)
ApiTyped ==
  /\ status \in [Tasks -> {"none", "active", "ended"}]
  /\ created \in [Tasks -> Nat]
  /\ req \in [Requests -> [at : {"idle", "counted", "inserted"},
                           time : Nat, task : Tasks \cup {0}]]
  /\ \A r \in Requests : req[r].at = "inserted" => req[r].task \in Tasks
  /\ copies \in [Tasks -> Nat]
  /\ work \in [Workers -> WorkStates]
  /\ \A w \in Workers : work[w].at # "free" => TaskOf(w) \in Tasks
  /\ \A t \in Tasks :
       status[t] = "none" => copies[t] = 0 /\ \A w \in Workers : TaskOf(w) # t

InsertedExist ==
  \A r \in Requests : req[r].at = "inserted" => status[req[r].task] # "none"

RecordsTyped ==
  /\ boxes \subseteq Tasks /\ reopened \subseteq Tasks /\ met \subseteq Workers
  /\ spent \in [Tasks -> Nat] /\ recorded \in [Tasks -> Nat]
  /\ usage \in Nat /\ alone \in Nat /\ untrimmed \in Nat
  /\ recent \in Seq(Tasks)

UserInv == ApiTyped /\ InsertedExist /\ RecordsTyped

LEMMA CountsUpdated ==
  ASSUME NEW f \in [Tasks -> Nat], NEW t, NEW n \in Nat
  PROVE  [f EXCEPT ![t] = n] \in [Tasks -> Nat]
OBVIOUS

LEMMA RowsFinite == IsFiniteSet(Rows) /\ Cardinality(Rows) \in Nat
<1>1. Rows \subseteq Tasks
  BY DEF Rows
<1> QED BY <1>1, UserTasksAssumption, FS_Subset, FS_CardinalityType

LEMMA InitUserInv == UserInit => UserInv
<1> SUFFICES ASSUME UserInit PROVE UserInv
  OBVIOUS
<1>1. Free \in WorkStates
  BY DEF Free, WorkStates, WorkPcs
<1>2. ApiTyped
  BY <1>1, UserTasksAssumption DEF UserInit, ApiTyped, NoReq, Free, TaskOf
<1> QED BY <1>2 DEF UserInit, UserInv, InsertedExist, RecordsTyped, NoReq

(* The actions of the requests leave the records of the runs alone, ...     *)
LEMMA RequestTyped ==
  ASSUME UserInv, NEW r \in Requests, CountTasks(r) \/ RequestStep(r) \/ RequestFails(r)
  PROVE  UserInv'
<1> USE UserTasksAssumption
<1>1. RecordsTyped' /\ work' = work
  BY DEF UserInv, RecordsTyped, CountTasks, RequestStep, InsertTask, Enqueue, RequestFails,
     runVars, usageVars, recentVars
<1>2. CASE CountTasks(r)
  BY <1>2, <1>1, RowsFinite DEF CountTasks, UserInv, ApiTyped, InsertedExist, NoReq, TaskOf
<1>3. CASE InsertTask(r)
  <2>1. PICK t \in NewIds :
          /\ status' = [status EXCEPT ![t] = "active"]
          /\ created' = [created EXCEPT ![t] = req[r].time]
          /\ req' = [req EXCEPT ![r] = [@ EXCEPT !.at = "inserted", !.task = t]]
    BY <1>3 DEF InsertTask
  <2>2. t \in Tasks
    BY DEF NewIds
  <2>3. UNCHANGED copies
    BY <1>3 DEF InsertTask
  <2>4. req' \in [Requests -> [at : {"idle", "counted", "inserted"},
                               time : Nat, task : Tasks \cup {0}]]
    <3>1. req[r] \in [at : {"idle", "counted", "inserted"}, time : Nat, task : Tasks \cup {0}]
      BY DEF UserInv, ApiTyped
    <3>2. [req[r] EXCEPT !.at = "inserted", !.task = t]
            \in [at : {"idle", "counted", "inserted"}, time : Nat, task : Tasks \cup {0}]
      BY <2>2, <3>1
    <3> QED BY <2>1, <3>2 DEF UserInv, ApiTyped
  <2>5. \A q \in Requests : req'[q].at = "inserted" =>
          req'[q].task \in Tasks /\ status'[req'[q].task] # "none"
    BY <2>1, <2>2 DEF UserInv, ApiTyped, InsertedExist
  <2>6. req[r].time \in Nat /\ created' \in [Tasks -> Nat]
    BY <2>1, <2>2 DEF UserInv, ApiTyped
  <2>7. \A u \in Tasks : status'[u] = "none" => status[u] = "none"
    BY <2>1, <2>2 DEF UserInv, ApiTyped
  <2>8. status' \in [Tasks -> {"none", "active", "ended"}]
    BY <2>1, <2>2 DEF UserInv, ApiTyped
  <2>9. ApiTyped'
    BY <1>1, <2>3, <2>4, <2>5, <2>6, <2>7, <2>8 DEF UserInv, ApiTyped, TaskOf
  <2> QED BY <1>1, <2>5, <2>9 DEF UserInv, InsertedExist
<1>4. CASE Enqueue(r)
  <2>1. PICK n \in 1..Deliveries[req[r].task] : copies' = [copies EXCEPT ![req[r].task] = n]
    BY <1>4 DEF Enqueue
  <2>2. req[r].task \in Tasks /\ status[req[r].task] # "none" /\ UNCHANGED <<status, created>>
    BY <1>4 DEF Enqueue, UserInv, ApiTyped, InsertedExist
  <2>3. n \in Nat
    BY <2>2
  <2>4. copies' \in [Tasks -> Nat]
        /\ \A u \in Tasks : status[u] = "none" => copies'[u] = copies[u]
    BY <2>1, <2>2, <2>3 DEF UserInv, ApiTyped
  <2>5. req' = [req EXCEPT ![r] = NoReq]
    BY <1>4 DEF Enqueue
  <2>6. /\ req' \in [Requests -> [at : {"idle", "counted", "inserted"},
                                  time : Nat, task : Tasks \cup {0}]]
        /\ \A q \in Requests : req'[q].at = "inserted" => req'[q] = req[q] /\ req[q].at = "inserted"
    BY <2>5 DEF UserInv, ApiTyped, NoReq
  <2> QED BY <1>1, <2>2, <2>4, <2>6 DEF UserInv, ApiTyped, InsertedExist, TaskOf
<1>5. CASE RequestFails(r)
  BY <1>5, <1>1 DEF RequestFails, UserInv, ApiTyped, InsertedExist, NoReq, TaskOf
<1> QED BY <1>2, <1>3, <1>4, <1>5 DEF RequestStep

(* ... and the runs, which only ever write a status other than "none" over  *)
(* that of a row, those of the requests.                                    *)
RunWrites ==
  /\ \/ UNCHANGED status
     \/ \E t \in Rows, s \in {"active", "ended"} : status' = [status EXCEPT ![t] = s]
  /\ copies' \in [Tasks -> Nat] /\ \A t \in Tasks : copies[t] = 0 => copies'[t] = 0
  /\ \/ UNCHANGED work
     \/ \E w \in Workers, x \in WorkStates :
          /\ work' = [work EXCEPT ![w] = x]
          /\ x.task \in Rows \cup {0} /\ (x.at # "free" => x.task \in Rows)
  /\ UNCHANGED <<created, req>>

WorkerActs(w) == RunStep(w) \/ RunFails(w) \/ RunRaises(w) \/ WorkerDies(w)

LEMMA WorkerTasks ==
  ASSUME UserInv, NEW w \in Workers
  PROVE  /\ work[w] \in WorkStates
         /\ TaskOf(w) \in Rows \cup {0} /\ (work[w].at # "free" => TaskOf(w) \in Rows)
<1>1. work[w] \in WorkStates
  BY DEF UserInv, ApiTyped
<1> QED BY <1>1 DEF UserInv, ApiTyped, Rows, TaskOf, WorkStates

(* A run that goes on keeps its task.                                       *)
LEMMA GoWrites ==
  ASSUME UserInv, NEW w \in Workers, NEW from, from # "free", NEW to \in WorkPcs, Go(w, from, to)
  PROVE  /\ TaskOf(w) \in Rows /\ work[w].at = from
         /\ \E x \in WorkStates : work' = [work EXCEPT ![w] = x] /\ x.task = TaskOf(w) /\ x.at = to
<1> DEFINE x == [work[w] EXCEPT !.at = to]
<1>1. work[w] \in WorkStates /\ TaskOf(w) \in Rows /\ work[w].at = from
  BY WorkerTasks DEF Go
<1>2. x \in WorkStates /\ x.task = TaskOf(w) /\ x.at = to
  BY <1>1 DEF WorkStates, TaskOf
<1>3. work' = [work EXCEPT ![w] = x]
  BY DEF Go
<1> QED BY <1>1, <1>2, <1>3

LEMMA RunsWriteRows ==
  ASSUME UserInv, NEW w \in Workers, WorkerActs(w)
  PROVE  RunWrites
<1>0. copies \in [Tasks -> Nat] /\ Free \in WorkStates /\ Free.task = 0 /\ Free.at = "free"
  BY DEF UserInv, ApiTyped, Free, WorkStates, WorkPcs
<1>1. CASE \E t \in Tasks : LoadTask(w, t)
  <2>1. PICK t \in Tasks : LoadTask(w, t)
    BY <1>1
  <2>2. copies[t] \in Nat /\ copies[t] > 0 /\ copies' = [copies EXCEPT ![t] = copies[t] - 1]
    BY <1>0, <2>1 DEF LoadTask
  <2>3. t \in Rows
    BY <2>2 DEF UserInv, ApiTyped, Rows
  <2>4. copies' \in [Tasks -> Nat] /\ \A u \in Tasks : copies[u] = 0 => copies'[u] = 0
    BY <1>0, <2>2
  <2> DEFINE x == [Free EXCEPT !.at = "loaded", !.task = t]
  <2>5. x \in WorkStates /\ x.task = t /\ x.at = "loaded"
    BY DEF Free, WorkStates, WorkPcs
  <2>6. work' = [work EXCEPT ![w] = x] \/ work' = [work EXCEPT ![w] = Free]
    BY <2>1 DEF LoadTask
  <2>7. UNCHANGED <<status, created, req>>
    BY <2>1 DEF LoadTask
  <2> QED BY <1>0, <2>3, <2>4, <2>5, <2>6, <2>7 DEF RunWrites
<1>2. CASE SetPlanning(w) \/ SetRunning(w) \/ SetCompleted(w)
  <2>1. \E from \in {"loaded", "ready", "recorded", "working"},
           to \in {"planning", "working", "completed"} : Go(w, from, to)
    BY <1>2 DEF SetPlanning, SetRunning, SetCompleted
  <2>2. \E s \in {"active", "ended"} : status' = [status EXCEPT ![TaskOf(w)] = s]
    BY <1>2 DEF SetPlanning, SetRunning, SetCompleted, SetActive
  <2>3. UNCHANGED <<copies, created, req>>
    BY <1>2 DEF SetPlanning, SetRunning, SetCompleted, SetActive
  <2>4. /\ TaskOf(w) \in Rows
        /\ \E x \in WorkStates : work' = [work EXCEPT ![w] = x] /\ x.task = TaskOf(w)
    BY <2>1, GoWrites DEF WorkPcs
  <2> QED BY <1>0, <2>2, <2>3, <2>4 DEF RunWrites
<1>3. CASE StartSandbox(w) \/ AgentWorks(w) \/ PushSummary(w) \/ TrimSummaries(w) \/ NoSummary(w)
  <2>1. \E from \in {"planning", "working", "completed", "pushed"},
           to \in {"ready", "reported", "pushed", "cleanup"} : Go(w, from, to)
    BY <1>3 DEF StartSandbox, AgentWorks, PushSummary, TrimSummaries, NoSummary
  <2>2. UNCHANGED <<status, copies, created, req>>
    BY <1>3 DEF StartSandbox, AgentWorks, PushSummary, TrimSummaries, NoSummary, rowVars
  <2>3. /\ TaskOf(w) \in Rows
        /\ \E x \in WorkStates : work' = [work EXCEPT ![w] = x] /\ x.task = TaskOf(w)
    BY <2>1, GoWrites DEF WorkPcs
  <2> QED BY <1>0, <2>2, <2>3 DEF RunWrites
<1>4. CASE ReadUsage(w)
  <2> DEFINE x == [work[w] EXCEPT !.at = "read", !.seen = usage, !.sum = spent[TaskOf(w)]]
  <2>1. work[w] \in WorkStates /\ TaskOf(w) \in Rows
    BY <1>4, WorkerTasks DEF ReadUsage
  <2>2. usage \in Nat /\ spent[TaskOf(w)] \in Nat
    BY <2>1 DEF UserInv, RecordsTyped, Rows
  <2>3. x \in WorkStates /\ x.task = TaskOf(w)
    BY <2>1, <2>2 DEF WorkStates, WorkPcs, TaskOf
  <2>4. work' = [work EXCEPT ![w] = x]
    BY <1>4 DEF ReadUsage
  <2>5. UNCHANGED <<status, copies, created, req>>
    BY <1>4 DEF ReadUsage, rowVars
  <2> QED BY <1>0, <2>1, <2>3, <2>4, <2>5 DEF RunWrites
<1>5. CASE WriteUsage(w)
  <2> DEFINE x == [Free EXCEPT !.at = "recorded", !.task = TaskOf(w)]
  <2>1. TaskOf(w) \in Rows /\ Rows \subseteq Tasks
    BY <1>5, WorkerTasks DEF WriteUsage, Rows
  <2>2. x \in WorkStates /\ x.task = TaskOf(w)
    BY <2>1 DEF Free, WorkStates, WorkPcs
  <2>3. work' = [work EXCEPT ![w] = x] /\ UNCHANGED <<status, copies, created, req>>
    BY <1>5 DEF WriteUsage, rowVars
  <2> QED BY <1>0, <2>1, <2>2, <2>3 DEF RunWrites
<1>6. CASE SandboxRefused(w) \/ Cleanup(w) \/ WorkerDies(w)
  <2>1. work[w].at # "free"
    BY <1>6 DEF SandboxRefused, Cleanup, WorkerDies
  <2>2. TaskOf(w) \in Rows /\ work' = [work EXCEPT ![w] = Free]
    BY <1>6, <2>1, WorkerTasks DEF SandboxRefused, Cleanup, WorkerDies
  <2>3. /\ UNCHANGED <<copies, created, req>>
        /\ UNCHANGED status \/ status' = [status EXCEPT ![TaskOf(w)] = "ended"]
    BY <1>6 DEF SandboxRefused, Cleanup, WorkerDies, Break, rowVars
  <2> QED BY <1>0, <2>2, <2>3 DEF RunWrites
<1>7. CASE RunFails(w) \/ RunRaises(w)
  <2> DEFINE x == [Free EXCEPT !.at = "cleanup", !.task = TaskOf(w)]
  <2>1. work[w].at # "free"
    BY <1>7 DEF RunFails, RunRaises, Holding
  <2>2. TaskOf(w) \in Rows /\ Rows \subseteq Tasks
    BY <2>1, WorkerTasks DEF Rows
  <2>3. x \in WorkStates /\ x.task = TaskOf(w)
    BY <2>2 DEF Free, WorkStates, WorkPcs
  <2>4. work' = [work EXCEPT ![w] = x] \/ work' = [work EXCEPT ![w] = Free]
    BY <1>7 DEF RunFails, RunRaises, Finally
  <2>5. /\ UNCHANGED <<copies, created, req>>
        /\ UNCHANGED status \/ status' = [status EXCEPT ![TaskOf(w)] = "ended"]
    BY <1>7 DEF RunFails, RunRaises, Break
  <2> QED BY <1>0, <2>2, <2>3, <2>4, <2>5 DEF RunWrites
<1> QED BY <1>1, <1>2, <1>3, <1>4, <1>5, <1>6, <1>7 DEF WorkerActs, RunStep

LEMMA CancelWritesRow ==
  ASSUME UserInv, NEW t \in Tasks, CancelTask(t)
  PROVE  RunWrites
<1>1. copies \in [Tasks -> Nat] /\ t \in Rows
  BY DEF UserInv, ApiTyped, CancelTask, Rows
<1> QED BY <1>1 DEF CancelTask, RunWrites, runVars

LEMMA RowsTyped ==
  ASSUME UserInv, RunWrites
  PROVE  ApiTyped' /\ InsertedExist'
<1>1. /\ status' \in [Tasks -> {"none", "active", "ended"}]
      /\ \A t \in Tasks : status'[t] = "none" <=> status[t] = "none"
  BY DEF RunWrites, UserInv, ApiTyped, Rows
<1>2. /\ work' \in [Workers -> WorkStates]
      /\ \A w \in Workers : /\ work'[w].at # "free" => work'[w].task \in Tasks
                            /\ \A t \in Tasks : status[t] = "none" => work'[w].task # t
  BY UserTasksAssumption DEF RunWrites, UserInv, ApiTyped, TaskOf, Rows
<1> QED BY <1>1, <1>2 DEF RunWrites, UserInv, ApiTyped, InsertedExist, TaskOf

LEMMA RunTyped ==
  ASSUME UserInv, NEW w \in Workers, WorkerActs(w)
  PROVE  UserInv'
<1> USE UserTasksAssumption
<1>1. ApiTyped' /\ InsertedExist'
  BY RunsWriteRows, RowsTyped
<1>2. work[w] \in WorkStates /\ Rows \subseteq Tasks /\ (work[w].at # "free" => TaskOf(w) \in Rows)
  BY WorkerTasks DEF Rows
<1>3. RecordsTyped'
  <2> USE DEF UserInv, RecordsTyped
  <2>1. CASE \E t \in Tasks : LoadTask(w, t)
    BY <2>1 DEF LoadTask, usageVars, recentVars
  <2>2. CASE SetPlanning(w) \/ SetRunning(w) \/ SetCompleted(w)
    <3>1. CASE SetPlanning(w) \/ SetRunning(w)
      BY <1>2, <3>1 DEF SetPlanning, SetRunning, SetActive, Go, usageVars, recentVars
    <3>2. CASE SetCompleted(w)
      BY <3>2 DEF SetCompleted, usageVars, recentVars
    <3> QED BY <2>2, <3>1, <3>2
  <2>3. CASE StartSandbox(w) \/ SandboxRefused(w) \/ NoSummary(w) \/ Cleanup(w)
    BY <1>2, <2>3 DEF StartSandbox, SandboxRefused, NoSummary, Cleanup, Go, usageVars, recentVars
  <2>4. CASE AgentWorks(w)
    <3>1. PICK n \in Amounts : spent' = [spent EXCEPT ![TaskOf(w)] = @ + n]
      BY <2>4 DEF AgentWorks
    <3>2. n \in Nat /\ TaskOf(w) \in Tasks
      BY <1>2, <2>4 DEF AgentWorks, Go
    <3>3. spent[TaskOf(w)] \in Nat
      BY <3>2
    <3>4. spent[TaskOf(w)] + n \in Nat
      BY ONLY <3>2, <3>3
    <3>5. spent' \in [Tasks -> Nat]
      BY <3>1, <3>4, CountsUpdated
    <3> QED BY <2>4, <3>5 DEF AgentWorks, recentVars
  <2>5. CASE ReadUsage(w)
    BY <2>5 DEF ReadUsage, recentVars
  <2>6. CASE WriteUsage(w)
    <3>1. work[w].seen \in Nat /\ work[w].sum \in Nat /\ TaskOf(w) \in Tasks
      BY <1>2, <2>6 DEF WriteUsage, WorkStates
    <3>2. usage' \in Nat /\ alone' \in Nat /\ met' \subseteq Workers
      <4>1. /\ usage' = work[w].seen + work[w].sum /\ met' = met \ {w}
            /\ alone' = IF w \in met THEN alone ELSE alone + work[w].sum
        BY <2>6 DEF WriteUsage
      <4>2. alone \in Nat /\ met \subseteq Workers
        OBVIOUS
      <4> QED BY ONLY <3>1, <4>1, <4>2
    <3>3. recorded[TaskOf(w)] \in Nat
      BY <3>1
    <3>4. recorded[TaskOf(w)] + 1 \in Nat
      BY ONLY <3>3
    <3>5. recorded' \in [Tasks -> Nat]
      BY <2>6, <3>4, CountsUpdated DEF WriteUsage
    <3> QED BY <2>6, <3>2, <3>5 DEF WriteUsage, recentVars
  <2>7. CASE PushSummary(w)
    <3>1. TaskOf(w) \in Tasks
      BY <1>2, <2>7 DEF PushSummary, Go
    <3> QED BY <2>7, <3>1 DEF PushSummary, usageVars
  <2>8. CASE TrimSummaries(w)
    <3> DEFINE n == IF Len(recent) > MaxRecent THEN MaxRecent ELSE Len(recent)
    <3>1. n \in Nat /\ n <= Len(recent) /\ recent' = SubSeq(recent, 1, n)
      BY <2>8 DEF TrimSummaries
    <3>2. recent' \in Seq(Tasks)
      BY <3>1
    <3> QED BY <2>8, <3>2 DEF TrimSummaries, usageVars
  <2>9. CASE RunFails(w) \/ RunRaises(w) \/ WorkerDies(w)
    <3>1. Break(w)
      BY <2>9 DEF RunFails, RunRaises, WorkerDies
    <3>2. boxes' \subseteq Tasks
      BY <1>2, <3>1 DEF Break
    <3> QED BY <3>1, <3>2 DEF Break
  <2> QED BY <2>1, <2>2, <2>3, <2>4, <2>5, <2>6, <2>7, <2>8, <2>9 DEF WorkerActs, RunStep
<1> QED BY <1>1, <1>3 DEF UserInv

LEMMA UserStep == UserInv /\ [UserNext]_userVars => UserInv'
<1> SUFFICES ASSUME UserInv, [UserNext]_userVars PROVE UserInv'
  OBVIOUS
<1>1. ASSUME NEW filter \in {"all", "active", "ended"}, FetchPage(filter) PROVE UserInv'
  BY <1>1 DEF FetchPage, rowVars, runVars, usageVars, recentVars, UserInv, ApiTyped,
     InsertedExist, RecordsTyped, TaskOf
<1>2. CASE UNCHANGED userVars
  BY <1>2 DEF userVars, UserInv, ApiTyped, InsertedExist, RecordsTyped, TaskOf
<1>3. ASSUME NEW t \in Tasks, CancelTask(t) PROVE UserInv'
  <2>1. RecordsTyped'
    BY <1>3 DEF CancelTask, runVars, usageVars, recentVars, UserInv, RecordsTyped
  <2> QED BY <1>3, <2>1, CancelWritesRow, RowsTyped DEF UserInv
<1> QED BY <1>1, <1>2, <1>3, RequestTyped, RunTyped DEF UserNext, WorkerActs

(* The rows, requests, runs, counter and list keep their types. *)
THEOREM UserTyped == UserSpec => []UserTypeOK
<1>1. UserInv => UserTypeOK
  BY DEF UserInv, ApiTyped, RecordsTyped, UserTypeOK, WorkStates
<1> QED BY <1>1, InitUserInv, UserStep, PTL DEF UserSpec
-----------------------------------------------------------------------------
(* Sums over the tasks, counted as pairs of a task and a unit of it *)

Units(f) == UNION {{t} \X (1..f[t]) : t \in Tasks}

LEMMA UnitsAre ==
  ASSUME NEW f \in [Tasks -> Nat]
  PROVE  Units(f) = {p \in Tasks \X Nat : 1 <= p[2] /\ p[2] <= f[p[1]]}
<1>1. \A t \in Tasks : f[t] \in Nat
  OBVIOUS
<1>2. ASSUME NEW p \in Units(f) PROVE p \in Tasks \X Nat /\ 1 <= p[2] /\ p[2] <= f[p[1]]
  <2>1. PICK t \in Tasks : p \in {t} \X (1..f[t])
    BY DEF Units
  <2> QED BY <1>1, <2>1
<1>3. ASSUME NEW p \in Tasks \X Nat, 1 <= p[2], p[2] <= f[p[1]] PROVE p \in Units(f)
  <2>1. p[1] \in Tasks /\ p[2] \in 1..f[p[1]] /\ p = <<p[1], p[2]>>
    BY <1>1, <1>3
  <2>2. p \in {p[1]} \X (1..f[p[1]])
    BY <2>1
  <2> QED BY <2>1, <2>2 DEF Units
<1> QED BY <1>2, <1>3

LEMMA UnitsFinite ==
  ASSUME NEW f \in [Tasks -> Nat]
  PROVE  IsFiniteSet(Units(f)) /\ Sum(f) = Cardinality(Units(f)) /\ Sum(f) \in Nat
<1> DEFINE T == {{t} \X (1..f[t]) : t \in Tasks}
           g == [t \in Tasks |-> {t} \X (1..f[t])]
<1>1. g \in Surjection(Tasks, T)
  BY DEF Surjection
<1>2. IsFiniteSet(T)
  BY <1>1, FS_Surjection, UserTasksAssumption
<1>3. ASSUME NEW t \in Tasks PROVE IsFiniteSet({t} \X (1..f[t]))
  <2>0. f[t] \in Int /\ 1 \in Int
    OBVIOUS
  <2>1. IsFiniteSet({t}) /\ IsFiniteSet(1..f[t])
    BY <2>0, FS_Singleton, FS_Interval
  <2> QED BY <2>1, FS_Product
<1>4. IsFiniteSet(UNION T)
  BY <1>2, <1>3, FS_UNION
<1> QED BY <1>4, FS_CardinalityType DEF Units, Sum

LEMMA SumMonotone ==
  ASSUME NEW f \in [Tasks -> Nat], NEW g \in [Tasks -> Nat], \A t \in Tasks : f[t] <= g[t]
  PROVE  Sum(f) <= Sum(g)
<1>1. Units(f) \subseteq Units(g)
  <2> SUFFICES ASSUME NEW p \in Tasks \X Nat, p[2] <= f[p[1]] PROVE p[2] <= g[p[1]]
    BY UnitsAre
  <2>1. p[1] \in Tasks /\ p[2] \in Nat /\ f[p[1]] \in Nat /\ g[p[1]] \in Nat /\ f[p[1]] <= g[p[1]]
    OBVIOUS
  <2> QED BY <2>1
<1> QED BY <1>1, UnitsFinite, FS_Subset

(* What is added to one task is added to the sum. *)
LEMMA SumGrows ==
  ASSUME NEW f \in [Tasks -> Nat], NEW g \in [Tasks -> Nat], \A t \in Tasks : f[t] <= g[t],
         NEW t \in Tasks, NEW n \in Nat, f[t] + n <= g[t]
  PROVE  Sum(f) + n <= Sum(g)
<1> DEFINE more == {t} \X ((f[t] + 1)..(f[t] + n))
<1>1. f[t] \in Nat /\ g[t] \in Nat
  OBVIOUS
<1>2. IsFiniteSet(more) /\ Cardinality(more) = n
  <2>1. IsFiniteSet({t}) /\ Cardinality({t}) = 1
    BY FS_Singleton
  <2>2. IsFiniteSet((f[t] + 1)..(f[t] + n)) /\ Cardinality((f[t] + 1)..(f[t] + n)) = n
    <3> DEFINE a == f[t] + 1
               b == f[t] + n
    <3>1. a \in Int /\ b \in Int /\ (IF a > b THEN 0 ELSE b - a + 1) = n
      BY <1>1
    <3> HIDE DEF a, b
    <3>2. IsFiniteSet(a..b) /\ Cardinality(a..b) = n
      BY <3>1, FS_Interval
    <3> QED BY <3>2 DEF a, b
  <2> QED BY <2>1, <2>2, FS_Product
<1>3. more \subseteq Units(g)
  <2> SUFFICES ASSUME NEW p \in more PROVE p \in Tasks \X Nat /\ 1 <= p[2] /\ p[2] <= g[p[1]]
    BY UnitsAre
  <2> QED BY <1>1
<1>4. Units(f) \cap more = {}
  <2> SUFFICES ASSUME NEW p \in more, p[2] <= f[p[1]] PROVE FALSE
    BY UnitsAre
  <2> QED BY <1>1
<1>5. Units(f) \subseteq Units(g)
  <2> SUFFICES ASSUME NEW p \in Tasks \X Nat, p[2] <= f[p[1]] PROVE p[2] <= g[p[1]]
    BY UnitsAre
  <2>1. p[1] \in Tasks /\ p[2] \in Nat /\ f[p[1]] \in Nat /\ g[p[1]] \in Nat /\ f[p[1]] <= g[p[1]]
    OBVIOUS
  <2> QED BY <2>1
<1> HIDE DEF more
<1>6. /\ IsFiniteSet(Units(f) \cup more)
      /\ Cardinality(Units(f) \cup more) = Cardinality(Units(f)) + n
  <2>1. Cardinality({}) = 0
    BY FS_EmptySet
  <2>2. Cardinality(Units(f) \cup more) =
          Cardinality(Units(f)) + Cardinality(more) - Cardinality(Units(f) \cap more)
        /\ IsFiniteSet(Units(f) \cup more)
    BY <1>2, UnitsFinite, FS_Union
  <2> QED BY <1>2, <1>4, <2>1, <2>2, UnitsFinite
<1>7. Cardinality(Units(f) \cup more) <= Cardinality(Units(g))
  BY <1>3, <1>5, UnitsFinite, FS_Subset
<1> QED BY <1>6, <1>7, UnitsFinite
-----------------------------------------------------------------------------
(* What a recording run read has not been passed by the runs that met no    *)
(* other, what it adds is in the table, and whoever records beside another  *)
(* has met it.                                                              *)
Reading == {w \in Workers : work[w].at = "read"}
Charge == [t \in Tasks |-> recorded[t] * spent[t]]

UsageInv ==
  /\ UserInv
  /\ UsageBetween
  /\ \A w \in Reading : /\ alone <= work[w].seen /\ work[w].seen <= Sum(Charge)
                        /\ work[w].sum <= spent[TaskOf(w)]
  /\ \A v, w \in Reading : v # w => v \in met

LEMMA TimesTyped ==
  ASSUME NEW m \in Nat, NEW n \in Nat
  PROVE  m * n \in Nat /\ (m + 1) * n = m * n + n
OBVIOUS

LEMMA TimesMonotone ==
  ASSUME NEW m \in Nat, NEW n \in Nat, NEW k \in Nat, n <= k
  PROVE  m * n <= m * k
<1>1. PICK d \in Nat : k = n + d
  <2>1. k - n \in Nat /\ k = n + (k - n)
    OBVIOUS
  <2> QED BY <2>1
<1>2. m * k = m * n + m * d /\ m * d \in Nat /\ m * n \in Nat
  BY <1>1
<1> QED BY <1>2

LEMMA ProductsTyped ==
  ASSUME NEW f \in [Tasks -> Nat], NEW g \in [Tasks -> Nat]
  PROVE  [t \in Tasks |-> f[t] * g[t]] \in [Tasks -> Nat]
<1>1. ASSUME NEW t \in Tasks PROVE f[t] * g[t] \in Nat
  BY TimesTyped
<1> QED BY <1>1

LEMMA UsageStep == UsageInv /\ [UserNext]_userVars => UsageInv'
<1> SUFFICES ASSUME UsageInv, [UserNext]_userVars PROVE UsageInv'
  OBVIOUS
<1> USE UserTasksAssumption
<1>1. /\ UserInv /\ UserInv' /\ work \in [Workers -> WorkStates]
      /\ spent \in [Tasks -> Nat] /\ recorded \in [Tasks -> Nat]
      /\ usage \in Nat /\ alone \in Nat
      /\ Charge \in [Tasks -> Nat] /\ Charge' \in [Tasks -> Nat]
      /\ Sum(Charge) \in Nat /\ Sum(Charge') \in Nat
  <2>1. UserInv /\ UserInv'
    BY UserStep DEF UsageInv
  <2>2. Charge \in [Tasks -> Nat] /\ Charge' \in [Tasks -> Nat]
    BY <2>1, ProductsTyped DEF UserInv, RecordsTyped, Charge
  <2> QED BY <2>1, <2>2, UnitsFinite DEF UserInv, ApiTyped, RecordsTyped
<1>2. ASSUME UNCHANGED usageVars, NEW R \in SUBSET Reading, Reading' = R,
             \A w \in R : work'[w] = work[w]
      PROVE  UsageInv'
  BY <1>1, <1>2 DEF UsageInv, UsageBetween, usageVars, Charge, Sum, TaskOf
<1>3. ASSUME NEW w \in Workers, AgentWorks(w) PROVE UsageInv'
  <2>1. PICK n \in Amounts : spent' = [spent EXCEPT ![TaskOf(w)] = @ + n]
    BY <1>3 DEF AgentWorks
  <2>2. /\ n \in Nat /\ UNCHANGED <<usage, met, alone, recorded>>
        /\ work[w].at = "working" /\ work' = [work EXCEPT ![w].at = "reported"]
    BY <1>3 DEF AgentWorks, Go
  <2>3. \A t \in Tasks : spent[t] \in Nat /\ spent'[t] \in Nat /\ spent[t] <= spent'[t]
    BY <1>1, <2>1, <2>2
  <2>4. ASSUME NEW t \in Tasks PROVE Charge[t] <= Charge'[t]
    <3>1. recorded[t] \in Nat /\ recorded'[t] = recorded[t]
      BY <1>1, <2>2
    <3>2. recorded[t] * spent[t] <= recorded[t] * spent'[t]
      BY <2>3, <3>1, TimesMonotone
    <3> QED BY <3>1, <3>2 DEF Charge
  <2>5. Sum(Charge) <= Sum(Charge')
    BY <1>1, <2>4, SumMonotone
  <2>6. UsageBetween'
    BY <1>1, <2>2, <2>5 DEF UsageInv, UsageBetween, Charge, Sum
  <2>7. Reading' = Reading /\ \A v \in Reading : work'[v] = work[v] /\ TaskOf(v) \in Tasks
    BY <1>1, <2>2 DEF Reading, UserInv, ApiTyped, WorkStates
  <2>8. ASSUME NEW v \in Reading'
        PROVE  /\ alone' <= work'[v].seen /\ work'[v].seen <= Sum(Charge')
               /\ work'[v].sum <= spent'[work'[v].task]
    <3>1. /\ alone <= work[v].seen /\ work[v].seen <= Sum(Charge)
          /\ work[v].sum <= spent[TaskOf(v)] /\ work[v] \in WorkStates
      BY <1>1, <2>7, <2>8 DEF UsageInv, Reading
    <3>2. work[v].seen \in Nat /\ work[v].sum \in Nat
      BY <3>1 DEF WorkStates
    <3>3. TaskOf(v) = work[v].task /\ spent[TaskOf(v)] <= spent'[TaskOf(v)]
      BY <2>3, <2>7, <2>8 DEF TaskOf
    <3>4. /\ spent[TaskOf(v)] \in Nat /\ spent'[TaskOf(v)] \in Nat /\ alone' = alone
          /\ work'[v] = work[v]
      BY <2>2, <2>3, <2>7, <2>8
    <3> QED BY <1>1, <2>5, <3>1, <3>2, <3>3, <3>4
  <2> QED BY <1>1, <2>2, <2>6, <2>7, <2>8 DEF UsageInv, Charge, Sum, TaskOf
<1>4. ASSUME NEW w \in Workers, ReadUsage(w) PROVE UsageInv'
  <2> DEFINE x == [work[w] EXCEPT !.at = "read", !.seen = usage, !.sum = spent[TaskOf(w)]]
  <2>1. /\ work[w].at = "reported" /\ work' = [work EXCEPT ![w] = x]
        /\ UNCHANGED <<spent, usage, alone, recorded>>
    BY <1>4 DEF ReadUsage
  <2>2. x.at = "read" /\ x.seen = usage /\ x.sum = spent[TaskOf(w)] /\ x.task = TaskOf(w)
    BY <1>1 DEF WorkStates, TaskOf
  <2> HIDE DEF x
  <2>3. /\ Reading' = Reading \cup {w} /\ w \notin Reading
        /\ work'[w] = x /\ \A v \in Reading : work'[v] = work[v]
    BY <1>1, <2>1, <2>2 DEF Reading
  <2>4. met \subseteq met' /\ (Reading # {} => Reading \cup {w} \subseteq met')
    BY <1>4, <2>3 DEF ReadUsage, Reading
  <2>5. Charge' = Charge /\ TaskOf(w) \in Tasks /\ spent[TaskOf(w)] \in Nat
    BY <1>1, <2>1 DEF Charge, UserInv, ApiTyped
  <2>6. UsageBetween'
    BY <2>1 DEF UsageInv, UsageBetween, Sum
  <2>7. ASSUME NEW v \in Reading'
        PROVE  /\ alone' <= work'[v].seen /\ work'[v].seen <= Sum(Charge')
               /\ work'[v].sum <= spent'[work'[v].task]
    <3>1. CASE v = w
      BY <1>1, <2>1, <2>2, <2>3, <2>5, <3>1 DEF UsageInv, UsageBetween, Charge
    <3>2. CASE v \in Reading
      BY <2>1, <2>3, <2>5, <3>2 DEF UsageInv, TaskOf
    <3> QED BY <2>3, <2>7, <3>1, <3>2
  <2>8. ASSUME NEW u \in Reading', NEW v \in Reading', u # v PROVE u \in met'
    BY <2>3, <2>4, <2>8 DEF UsageInv
  <2> QED BY <1>1, <2>6, <2>7, <2>8 DEF UsageInv, TaskOf, Sum
<1>5. ASSUME NEW w \in Workers, WriteUsage(w) PROVE UsageInv'
  <2> DEFINE t == TaskOf(w)
             x == [Free EXCEPT !.at = "recorded", !.task = t]
  <2>1. /\ work[w].at = "read" /\ work' = [work EXCEPT ![w] = x] /\ UNCHANGED spent
        /\ usage' = work[w].seen + work[w].sum /\ recorded' = [recorded EXCEPT ![t] = @ + 1]
        /\ alone' = IF w \in met THEN alone ELSE alone + work[w].sum
        /\ met' = met \ {w} /\ x.at = "recorded"
    BY <1>5 DEF WriteUsage, Free
  <2>2. /\ work[w].seen \in Nat /\ work[w].sum \in Nat /\ t \in Tasks
        /\ spent[t] \in Nat /\ recorded[t] \in Nat
    BY <1>1, <2>1 DEF WorkStates, UserInv, ApiTyped
  <2>3. /\ alone <= work[w].seen /\ work[w].seen <= Sum(Charge) /\ work[w].sum <= spent[t]
    BY <2>1 DEF UsageInv, Reading
  <2> HIDE DEF x, t
  <2>4. Reading' = Reading \ {w} /\ w \in Reading /\ \A v \in Reading' : work'[v] = work[v]
    BY <1>1, <2>1 DEF Reading
  <2>5. \A u \in Tasks : Charge[u] <= Charge'[u]
    <3> SUFFICES ASSUME NEW u \in Tasks PROVE Charge[u] <= Charge'[u]
      OBVIOUS
    <3>1. recorded[u] \in Nat /\ spent[u] \in Nat
      BY <1>1
    <3>2. /\ recorded'[u] = recorded[u] \/ recorded'[u] = recorded[u] + 1
          /\ spent'[u] = spent[u]
      BY <1>1, <2>1, <2>2
    <3>3. recorded[u] * spent[u] \in Nat
          /\ (recorded[u] + 1) * spent[u] = recorded[u] * spent[u] + spent[u]
      BY <3>1, TimesTyped
    <3>4. Charge[u] = recorded[u] * spent[u] /\ Charge'[u] = recorded'[u] * spent'[u]
      BY DEF Charge
    <3> QED BY <3>1, <3>2, <3>3, <3>4
  <2>6. Charge[t] + spent[t] <= Charge'[t]
    <3>1. recorded'[t] = recorded[t] + 1 /\ spent'[t] = spent[t]
      BY <1>1, <2>1, <2>2
    <3>2. recorded[t] * spent[t] \in Nat
          /\ (recorded[t] + 1) * spent[t] = recorded[t] * spent[t] + spent[t]
      BY <2>2, TimesTyped
    <3>3. Charge[t] = recorded[t] * spent[t] /\ Charge'[t] = recorded'[t] * spent'[t]
      BY <2>2 DEF Charge
    <3> QED BY <2>2, <3>1, <3>2, <3>3
  <2>7. Sum(Charge) + spent[t] <= Sum(Charge')
    BY <1>1, <2>2, <2>5, <2>6, SumGrows
  <2>8. alone' <= usage' /\ usage' <= Sum(Charge')
    BY <1>1, <2>1, <2>2, <2>3, <2>7
  <2>9. ASSUME NEW v \in Reading'
        PROVE  /\ alone' <= work'[v].seen /\ work'[v].seen <= Sum(Charge')
               /\ work'[v].sum <= spent'[work'[v].task]
    <3>1. v \in Reading /\ v # w /\ v \in Workers /\ w \in met /\ work'[v] = work[v]
      BY <2>4, <2>9 DEF UsageInv, Reading
    <3>2. /\ alone <= work[v].seen /\ work[v].seen <= Sum(Charge) /\ work[v].seen \in Nat
          /\ work[v].sum <= spent[work[v].task]
      BY <1>1, <3>1 DEF UsageInv, TaskOf, WorkStates
    <3> QED BY <1>1, <2>1, <2>2, <2>7, <3>1, <3>2
  <2>10. ASSUME NEW u \in Reading', NEW v \in Reading', u # v PROVE u \in met'
    BY <2>1, <2>4, <2>10 DEF UsageInv
  <2> QED BY <1>1, <2>8, <2>9, <2>10 DEF UsageInv, UsageBetween, Charge, TaskOf, Sum
<1>6. ASSUME NEW w \in Workers, RunFails(w) \/ RunRaises(w) \/ WorkerDies(w) PROVE UsageInv'
  <2>1. /\ met' = met \ {w} /\ UNCHANGED <<spent, usage, alone, recorded>>
        /\ \E x \in {Free, [Free EXCEPT !.at = "cleanup", !.task = TaskOf(w)]} :
             work' = [work EXCEPT ![w] = x]
    BY <1>6 DEF RunFails, RunRaises, WorkerDies, Break, Finally
  <2>2. Reading' = Reading \ {w} /\ \A v \in Reading' : work'[v] = work[v]
    <3>1. PICK x : work' = [work EXCEPT ![w] = x] /\ x.at # "read"
      BY <2>1 DEF Free
    <3> QED BY <1>1, <3>1 DEF Reading
  <2>3. Charge' = Charge /\ UsageBetween'
    BY <2>1 DEF UsageInv, UsageBetween, Charge, Sum
  <2>4. ASSUME NEW v \in Reading'
        PROVE  /\ alone' <= work'[v].seen /\ work'[v].seen <= Sum(Charge')
               /\ work'[v].sum <= spent'[work'[v].task]
    BY <2>1, <2>2, <2>3, <2>4 DEF UsageInv, TaskOf
  <2>5. ASSUME NEW u \in Reading', NEW v \in Reading', u # v PROVE u \in met'
    BY <2>1, <2>2, <2>5 DEF UsageInv
  <2> QED BY <1>1, <2>3, <2>4, <2>5 DEF UsageInv, TaskOf, Sum
<1>7. ASSUME NEW r \in Requests, CountTasks(r) \/ RequestStep(r) \/ RequestFails(r)
      PROVE  UsageInv'
  <2>1. UNCHANGED usageVars /\ UNCHANGED work
    BY <1>7 DEF CountTasks, RequestStep, InsertTask, Enqueue, RequestFails, runVars
  <2> QED BY <1>2, <2>1 DEF Reading
<1>8. ASSUME NEW w \in Workers,
             \/ \E t \in Tasks : LoadTask(w, t)
             \/ SetPlanning(w) \/ StartSandbox(w) \/ SandboxRefused(w) \/ SetRunning(w)
             \/ SetCompleted(w) \/ PushSummary(w) \/ TrimSummaries(w) \/ NoSummary(w) \/ Cleanup(w)
      PROVE  UsageInv'
  <2>1. UNCHANGED usageVars
    BY <1>8 DEF LoadTask, SetPlanning, StartSandbox, SandboxRefused, SetRunning, SetActive,
       SetCompleted, PushSummary, TrimSummaries, NoSummary, Cleanup
  <2>2. \E x : work' = [work EXCEPT ![w] = x] /\ x.at # "read"
    <3>1. CASE \E t \in Tasks : LoadTask(w, t)
      BY <3>1 DEF LoadTask, Free
    <3>2. CASE SandboxRefused(w) \/ Cleanup(w)
      BY <3>2 DEF SandboxRefused, Cleanup, Free
    <3>3. CASE \E from, to : Go(w, from, to) /\ to # "read"
      <4>1. PICK from, to : Go(w, from, to) /\ to # "read"
        BY <3>3
      <4>2. [work[w] EXCEPT !.at = to].at = to
        BY <1>1 DEF WorkStates
      <4> QED BY <4>1, <4>2 DEF Go
    <3>4. SetPlanning(w) \/ StartSandbox(w) \/ SetRunning(w) \/ SetCompleted(w) \/ PushSummary(w)
            \/ TrimSummaries(w) \/ NoSummary(w) => \E from, to : Go(w, from, to) /\ to # "read"
      BY DEF SetPlanning, StartSandbox, SetRunning, SetCompleted, PushSummary, TrimSummaries, NoSummary
    <3> QED BY <1>8, <3>1, <3>2, <3>3, <3>4
  <2>3. Reading' \subseteq Reading /\ \A v \in Reading' : work'[v] = work[v]
    BY <1>1, <2>2 DEF Reading
  <2> QED BY <1>2, <2>1, <2>3
<1>9. CASE (\E filter \in {"all", "active", "ended"} : FetchPage(filter))
             \/ (\E t \in Tasks : CancelTask(t)) \/ UNCHANGED userVars
  <2>1. UNCHANGED usageVars /\ UNCHANGED work
    BY <1>9 DEF FetchPage, CancelTask, userVars, usageVars, runVars
  <2> QED BY <1>2, <2>1 DEF Reading
<1> QED
  BY <1>3, <1>4, <1>5, <1>6, <1>7, <1>8, <1>9 DEF UserNext, RunStep

(* Runs that record at the same time may lose tokens of each other, but the *)
(* counter keeps those of every run that met no other; and whatever         *)
(* deliveries come back, it has the tokens of a task at most once for each  *)
(* of its runs that recorded.                                               *)
THEOREM UsageIsBetween == UserSpec => []UsageBetween
<1>1. UserInit => UsageInv
  <2> SUFFICES ASSUME UserInit PROVE UsageInv
    OBVIOUS
  <2>1. Reading = {}
    BY DEF UserInit, Reading, Free
  <2>2. Sum(Charge) \in Nat
    BY InitUserInv, ProductsTyped, UnitsFinite DEF UserInv, RecordsTyped, Charge
  <2>3. UsageBetween
    BY <2>2 DEF UserInit, UsageBetween, Charge
  <2> QED BY <2>1, <2>3, InitUserInv DEF UsageInv
<1>2. UsageInv => UsageBetween
  BY DEF UsageInv
<1> QED BY <1>1, <1>2, UsageStep, PTL DEF UserSpec
-----------------------------------------------------------------------------
Counted == {r \in Requests : req[r].at = "counted"}
Admitted == Active \ reopened

LEMMA SubsetSmaller ==
  ASSUME NEW T, IsFiniteSet(T), NEW S \in SUBSET T
  PROVE  IsFiniteSet(S) /\ Cardinality(S) \in Nat /\ Cardinality(S) <= Cardinality(T)
BY FS_Subset, FS_CardinalityType

LEMMA OneMore ==
  ASSUME NEW S, IsFiniteSet(S), NEW x
  PROVE  /\ IsFiniteSet(S \cup {x}) /\ Cardinality(S \cup {x}) \in Nat
         /\ Cardinality(S \cup {x}) <= Cardinality(S) + 1
<1>1. /\ IsFiniteSet(S \cup {x})
      /\ Cardinality(S \cup {x}) = IF x \in S THEN Cardinality(S) ELSE Cardinality(S) + 1
  BY FS_AddElement
<1>2. Cardinality(S) \in Nat
  BY FS_CardinalityType
<1> QED BY <1>1, <1>2

LEMMA AdmissionFinite ==
  /\ IsFiniteSet(Active) /\ IsFiniteSet(Admitted) /\ IsFiniteSet(Admitted')
  /\ IsFiniteSet(Counted) /\ IsFiniteSet(Counted') /\ IsFiniteSet(Requests)
  /\ Cardinality(Active) \in Nat
  /\ Cardinality(Admitted) \in Nat /\ Cardinality(Admitted') \in Nat
  /\ Cardinality(Counted) \in Nat /\ Cardinality(Counted') \in Nat
  /\ Cardinality(Requests) \in Nat
<1>1. /\ Active \subseteq Tasks /\ Admitted \subseteq Tasks /\ Admitted' \subseteq Tasks
      /\ Counted \subseteq Requests /\ Counted' \subseteq Requests
  BY DEF Active, Admitted, Counted
<1> QED BY <1>1, FS_Subset, FS_CardinalityType, UserTasksAssumption

AdmissionInv == UserInv /\ AdmissionBounded

LEMMA AdmissionStep == AdmissionInv /\ [UserNext]_userVars => AdmissionInv'
<1> SUFFICES ASSUME AdmissionInv, [UserNext]_userVars PROVE AdmissionBounded'
  BY UserStep DEF AdmissionInv
<1> USE UserTasksAssumption
<1>1. /\ status \in [Tasks -> {"none", "active", "ended"}]
      /\ req \in [Requests -> [at : {"idle", "counted", "inserted"},
                               time : Nat, task : Tasks \cup {0}]]
      /\ UserInv
  BY DEF AdmissionInv, UserInv, ApiTyped
<1>2. Cardinality(Admitted) + Cardinality(Counted) < Limit + Cardinality(Requests)
  BY DEF AdmissionInv, AdmissionBounded, Admitted, Counted
<1>3. SUFFICES Cardinality(Admitted') + Cardinality(Counted') < Limit + Cardinality(Requests)
  BY DEF AdmissionBounded, Admitted, Counted
<1>4. CASE Admitted' \subseteq Admitted /\ Counted' \subseteq Counted
  <2>1. Cardinality(Admitted') <= Cardinality(Admitted) /\ Cardinality(Counted') <= Cardinality(Counted)
    BY <1>4, AdmissionFinite, SubsetSmaller
  <2> QED BY <1>2, <2>1, AdmissionFinite
<1>5. ASSUME NEW r \in Requests, CountTasks(r)
      PROVE  Cardinality(Admitted') + Cardinality(Counted') < Limit + Cardinality(Requests)
  <2>1. Admitted' \subseteq Active /\ Counted' \subseteq Requests /\ Cardinality(Active) < Limit
    BY <1>5 DEF CountTasks, Admitted, Active, Counted
  <2>2. Cardinality(Admitted') <= Cardinality(Active) /\ Cardinality(Counted') <= Cardinality(Requests)
    BY <2>1, AdmissionFinite, SubsetSmaller
  <2> QED BY <2>1, <2>2, AdmissionFinite
<1>6. ASSUME NEW r \in Requests, InsertTask(r)
      PROVE  Cardinality(Admitted') + Cardinality(Counted') < Limit + Cardinality(Requests)
  <2>1. PICK t \in NewIds : status' = [status EXCEPT ![t] = "active"]
    BY <1>6 DEF InsertTask
  <2>2. Admitted' \subseteq Admitted \cup {t}
    BY <1>1, <1>6, <2>1 DEF InsertTask, runVars, Admitted, Active
  <2>3. Counted' = Counted \ {r} /\ r \in Counted
    BY <1>1, <1>6 DEF InsertTask, Counted
  <2>4. Cardinality(Counted') = Cardinality(Counted) - 1
    BY <2>3, AdmissionFinite, FS_RemoveElement
  <2>5. Cardinality(Admitted') <= Cardinality(Admitted) + 1
    <3>1. IsFiniteSet(Admitted)
      BY AdmissionFinite
    <3>2. /\ IsFiniteSet(Admitted \cup {t}) /\ Cardinality(Admitted \cup {t}) \in Nat
          /\ Cardinality(Admitted \cup {t}) <= Cardinality(Admitted) + 1
      BY <3>1, OneMore
    <3>3. Cardinality(Admitted') <= Cardinality(Admitted \cup {t})
      BY <2>2, <3>2, SubsetSmaller
    <3> QED BY <3>2, <3>3, AdmissionFinite
  <2> QED BY <1>2, <2>4, <2>5, AdmissionFinite
<1>7. ASSUME NEW r \in Requests, Enqueue(r) \/ RequestFails(r)
      PROVE  Admitted' \subseteq Admitted /\ Counted' \subseteq Counted
  BY <1>1, <1>7 DEF Enqueue, RequestFails, runVars, NoReq, Admitted, Active, Counted
<1>8. ASSUME NEW w \in Workers, SetPlanning(w) \/ SetRunning(w)
      PROVE  Admitted' \subseteq Admitted /\ Counted' \subseteq Counted
  <2>1. SetActive(TaskOf(w)) /\ work[w].at # "free"
    BY <1>8 DEF SetPlanning, SetRunning, Go
  <2>2. status[TaskOf(w)] # "none" /\ req' = req /\ status' = [status EXCEPT ![TaskOf(w)] = "active"]
    BY <1>1, <2>1, WorkerTasks DEF SetActive, Rows
  <2>3. reopened' = IF status[TaskOf(w)] = "ended" THEN reopened \cup {TaskOf(w)} ELSE reopened
    BY <2>1 DEF SetActive
  <2> QED BY <1>1, <2>2, <2>3 DEF Admitted, Active, Counted
<1>9. ASSUME NEW w \in Workers,
             \/ \E t \in Tasks : LoadTask(w, t)
             \/ StartSandbox(w) \/ SandboxRefused(w) \/ AgentWorks(w) \/ ReadUsage(w) \/ WriteUsage(w)
             \/ SetCompleted(w) \/ PushSummary(w) \/ TrimSummaries(w) \/ NoSummary(w) \/ Cleanup(w)
             \/ RunFails(w) \/ RunRaises(w) \/ WorkerDies(w)
      PROVE  Admitted' \subseteq Admitted /\ Counted' \subseteq Counted
  <2>1. req' = req /\ reopened' = reopened
        /\ (status' = status \/ status' = [status EXCEPT ![TaskOf(w)] = "ended"])
    BY <1>9 DEF LoadTask, StartSandbox, SandboxRefused, AgentWorks, ReadUsage, WriteUsage,
       SetCompleted, PushSummary, TrimSummaries, NoSummary, Cleanup, RunFails, RunRaises,
       WorkerDies, Break, rowVars
  <2> QED BY <1>1, <2>1 DEF Admitted, Active, Counted
<1>10. CASE (\E filter \in {"all", "active", "ended"} : FetchPage(filter)) \/ UNCHANGED userVars
  BY <1>4, <1>10 DEF FetchPage, userVars, rowVars, runVars, Admitted, Active, Counted
<1>11. ASSUME NEW t \in Tasks, CancelTask(t)
       PROVE  Admitted' \subseteq Admitted /\ Counted' \subseteq Counted
  BY <1>1, <1>11 DEF CancelTask, runVars, Admitted, Active, Counted
<1> QED
  BY <1>4, <1>5, <1>6, <1>7, <1>8, <1>9, <1>10, <1>11 DEF UserNext, RunStep, RequestStep

(* Requests that counted at the same time take the user above the limit by  *)
(* less than their number, however often messages are delivered.            *)
THEOREM AdmissionIsBounded == UserSpec => []AdmissionBounded
<1>1. UserInit => AdmissionInv
  <2> SUFFICES ASSUME UserInit PROVE AdmissionInv
    OBVIOUS
  <2>1. Admitted = {} /\ Counted = {}
    BY DEF UserInit, Admitted, Active, Counted, NoReq
  <2>2. Cardinality({}) = 0 /\ Cardinality(Requests) \in Nat
    BY FS_EmptySet, FS_CardinalityType, UserTasksAssumption
  <2>3. Cardinality(Admitted) = 0 /\ Cardinality(Counted) = 0
    BY <2>1, <2>2
  <2>4. AdmissionBounded
    BY <2>2, <2>3, UserTasksAssumption DEF AdmissionBounded, Admitted, Counted
  <2> QED BY <2>4, InitUserInv DEF AdmissionInv
<1>2. AdmissionInv => AdmissionBounded
  BY DEF AdmissionInv
<1> QED BY <1>1, <1>2, AdmissionStep, PTL DEF UserSpec
-----------------------------------------------------------------------------
Pushed == {w \in Workers : work[w].at = "pushed"}

RecentInv == UserInv /\ RecentBounded

LEMMA RecentStep == RecentInv /\ [UserNext]_userVars => RecentInv'
<1> SUFFICES ASSUME RecentInv, [UserNext]_userVars PROVE RecentInv'
  OBVIOUS
<1> USE UserTasksAssumption
<1>1. /\ UserInv /\ UserInv' /\ work \in [Workers -> WorkStates] /\ untrimmed \in Nat
      /\ recent \in Seq(Tasks) /\ Len(recent) \in Nat
      /\ Len(recent) <= MaxRecent + Cardinality(Pushed) + untrimmed
  <2>1. UserInv /\ UserInv'
    BY UserStep DEF RecentInv
  <2>2. Len(recent) <= MaxRecent + Cardinality(Pushed) + untrimmed
    BY DEF RecentInv, RecentBounded, Pushed
  <2>3. work \in [Workers -> WorkStates] /\ untrimmed \in Nat /\ recent \in Seq(Tasks)
    BY <2>1 DEF UserInv, ApiTyped, RecordsTyped
  <2> QED BY <2>1, <2>2, <2>3
<1>2. /\ IsFiniteSet(Pushed) /\ Cardinality(Pushed) \in Nat
      /\ IsFiniteSet(Pushed') /\ Cardinality(Pushed') \in Nat
  <2>1. Pushed \subseteq Workers /\ Pushed' \subseteq Workers
    BY DEF Pushed
  <2> QED BY <2>1, FS_Subset, FS_CardinalityType
<1>3. SUFFICES Len(recent') <= MaxRecent + Cardinality(Pushed') + untrimmed'
  BY <1>1 DEF RecentInv, RecentBounded, Pushed
<1>4. CASE UNCHANGED recentVars /\ Pushed' = Pushed
  BY <1>1, <1>4 DEF recentVars
<1>5. ASSUME NEW w \in Workers, PushSummary(w)
      PROVE  Len(recent') <= MaxRecent + Cardinality(Pushed') + untrimmed'
  <2>1. /\ recent' = <<TaskOf(w)>> \o recent /\ untrimmed' = untrimmed
        /\ work[w].at = "completed" /\ work' = [work EXCEPT ![w].at = "pushed"]
    BY <1>5 DEF PushSummary, Go
  <2>2. TaskOf(w) \in Tasks /\ [work[w] EXCEPT !.at = "pushed"].at = "pushed"
    BY <1>1, <2>1 DEF UserInv, ApiTyped, WorkStates
  <2>3. Pushed' = Pushed \cup {w} /\ w \notin Pushed
    BY <1>1, <2>1, <2>2 DEF Pushed
  <2>4. Cardinality(Pushed') = Cardinality(Pushed) + 1
    BY <1>2, <2>3, FS_AddElement
  <2>5. Len(recent') = Len(recent) + 1
    BY <1>1, <2>1, <2>2
  <2> QED BY <1>1, <1>2, <2>1, <2>4, <2>5
<1>6. ASSUME NEW w \in Workers, TrimSummaries(w)
      PROVE  Len(recent') <= MaxRecent + Cardinality(Pushed') + untrimmed'
  <2> DEFINE n == IF Len(recent) > MaxRecent THEN MaxRecent ELSE Len(recent)
  <2>1. n \in Nat /\ n <= Len(recent) /\ n <= MaxRecent /\ recent' = SubSeq(recent, 1, n)
        /\ untrimmed' = 0
    BY <1>1, <1>6 DEF TrimSummaries
  <2>2. Len(recent') = n
    BY <1>1, <2>1
  <2> QED BY <1>2, <2>1, <2>2
<1>7. ASSUME NEW w \in Workers, RunFails(w) \/ RunRaises(w) \/ WorkerDies(w)
      PROVE  Len(recent') <= MaxRecent + Cardinality(Pushed') + untrimmed'
  <2>1. /\ recent' = recent
        /\ untrimmed' = IF work[w].at = "pushed" THEN untrimmed + 1 ELSE untrimmed
        /\ \E x \in {Free, [Free EXCEPT !.at = "cleanup", !.task = TaskOf(w)]} :
             work' = [work EXCEPT ![w] = x]
    BY <1>7 DEF RunFails, RunRaises, WorkerDies, Break, Finally
  <2>2. Pushed' = Pushed \ {w}
    <3>1. PICK x : work' = [work EXCEPT ![w] = x] /\ x.at # "pushed"
      BY <2>1 DEF Free
    <3> QED BY <1>1, <3>1 DEF Pushed
  <2>3. CASE w \in Pushed
    <3>1. Cardinality(Pushed') = Cardinality(Pushed) - 1
      BY <1>2, <2>2, <2>3, FS_RemoveElement
    <3>2. untrimmed' = untrimmed + 1
      BY <2>1, <2>3 DEF Pushed
    <3> QED BY <1>1, <1>2, <2>1, <3>1, <3>2
  <2>4. CASE w \notin Pushed
    BY <1>1, <2>1, <2>2, <2>4 DEF Pushed
  <2> QED BY <2>3, <2>4
<1>8. ASSUME NEW r \in Requests, CountTasks(r) \/ RequestStep(r) \/ RequestFails(r)
      PROVE  UNCHANGED recentVars /\ Pushed' = Pushed
  BY <1>8 DEF CountTasks, RequestStep, InsertTask, Enqueue, RequestFails, recentVars, runVars, Pushed
<1>9. ASSUME NEW w \in Workers,
             \/ \E t \in Tasks : LoadTask(w, t)
             \/ SetPlanning(w) \/ StartSandbox(w) \/ SandboxRefused(w) \/ SetRunning(w) \/ AgentWorks(w)
             \/ ReadUsage(w) \/ WriteUsage(w) \/ SetCompleted(w) \/ NoSummary(w) \/ Cleanup(w)
      PROVE  UNCHANGED recentVars /\ Pushed' = Pushed
  <2>1. UNCHANGED recentVars
    BY <1>9 DEF LoadTask, SetPlanning, StartSandbox, SandboxRefused, SetRunning, SetActive,
       AgentWorks, ReadUsage, WriteUsage, SetCompleted, NoSummary, Cleanup
  <2>2. work[w].at # "pushed" /\ \E x : work' = [work EXCEPT ![w] = x] /\ x.at # "pushed"
    <3>1. CASE \E t \in Tasks : LoadTask(w, t)
      BY <3>1 DEF LoadTask, Free
    <3>2. CASE SandboxRefused(w) \/ Cleanup(w) \/ WriteUsage(w)
      BY <3>2 DEF SandboxRefused, Cleanup, WriteUsage, Free
    <3>3. CASE ReadUsage(w)
      <4>1. [work[w] EXCEPT !.at = "read", !.seen = usage, !.sum = spent[TaskOf(w)]].at = "read"
        BY <1>1 DEF WorkStates
      <4> QED BY <3>3, <4>1 DEF ReadUsage
    <3>4. CASE \E from, to : Go(w, from, to) /\ from # "pushed" /\ to # "pushed"
      <4>1. PICK from, to : Go(w, from, to) /\ from # "pushed" /\ to # "pushed"
        BY <3>4
      <4>2. [work[w] EXCEPT !.at = to].at = to
        BY <1>1 DEF WorkStates
      <4> QED BY <4>1, <4>2 DEF Go
    <3>5. SetPlanning(w) \/ StartSandbox(w) \/ SetRunning(w) \/ AgentWorks(w) \/ SetCompleted(w)
            \/ NoSummary(w) => \E from, to : Go(w, from, to) /\ from # "pushed" /\ to # "pushed"
      BY DEF SetPlanning, StartSandbox, SetRunning, AgentWorks, SetCompleted, NoSummary
    <3> QED BY <1>9, <3>1, <3>2, <3>3, <3>4, <3>5
  <2> QED BY <1>1, <2>1, <2>2 DEF Pushed
<1>10. CASE (\E filter \in {"all", "active", "ended"} : FetchPage(filter))
              \/ (\E t \in Tasks : CancelTask(t)) \/ UNCHANGED userVars
  BY <1>4, <1>10 DEF FetchPage, CancelTask, userVars, recentVars, runVars, Pushed
<1> QED
  BY <1>4, <1>5, <1>6, <1>7, <1>8, <1>9, <1>10 DEF UserNext, RunStep

(* The list of summaries is over its cap by at most the runs between push   *)
(* and trim and those that broke off there since the last trim.             *)
THEOREM RecentIsBounded == UserSpec => []RecentBounded
<1>1. UserInit => RecentInv
  <2> SUFFICES ASSUME UserInit PROVE RecentInv
    OBVIOUS
  <2>1. Len(recent) = 0 /\ untrimmed = 0 /\ Pushed = {} /\ Cardinality({}) = 0
    BY FS_EmptySet DEF UserInit, Pushed, Free
  <2>2. Len(recent) <= MaxRecent + Cardinality(Pushed) + untrimmed
    BY <2>1, UserTasksAssumption
  <2>3. RecentBounded
    BY <2>2 DEF RecentBounded, Pushed
  <2> QED BY <2>3, InitUserInv DEF RecentInv
<1>2. RecentInv => RecentBounded
  BY DEF RecentInv
<1> QED BY <1>1, <1>2, RecentStep, PTL DEF UserSpec
-----------------------------------------------------------------------------
(* The pages of the list *)

(* A function to the naturals is least somewhere. *)
LEMMA LeastBy ==
  ASSUME NEW S, S # {}, NEW f \in [S -> Nat]
  PROVE  \E x \in S : \A y \in S : f[x] <= f[y]
<1> DEFINE less == OpToRel(<, Nat)
           T == {f[x] : x \in S}
<1>1. IsWellFoundedOn(less, Nat) /\ T \subseteq Nat /\ T # {}
  BY NatLessThanWellFounded
<1>2. PICK n \in T : \A m \in T : ~ (<<m, n>> \in less)
  BY <1>1, WFMin
<1>3. \A m \in T : ~ (m < n)
  BY <1>1, <1>2 DEF OpToRel
<1>4. PICK x \in S : f[x] = n
  OBVIOUS
<1>5. ASSUME NEW y \in S PROVE f[x] <= f[y]
  <2>1. f[y] \in T /\ f[y] \in Nat /\ n \in Nat
    BY <1>1
  <2> HIDE DEF T
  <2> QED BY <1>3, <1>4, <2>1
<1> QED BY <1>5

CreatedTyped == created \in [Tasks -> Nat]

(* ORDER BY created_at DESC, id DESC orders the rows totally. *)
LEMMA BeforeIsOrder ==
  ASSUME CreatedTyped, NEW t \in Tasks, NEW u \in Tasks, NEW v \in Tasks
  PROVE  /\ ~ Before(t, t)
         /\ Before(t, u) => ~ Before(u, t)
         /\ Before(t, u) /\ Before(u, v) => Before(t, v)
         /\ t # u => Before(t, u) \/ Before(u, t)
<1>1. t \in Nat /\ u \in Nat /\ v \in Nat
  BY UserTasksAssumption
<1>2. created[t] \in Nat /\ created[u] \in Nat /\ created[v] \in Nat
  BY DEF CreatedTyped
<1> QED BY <1>1, <1>2 DEF Before

Preceding(S, t) == {u \in S : Before(u, t)}

LEMMA PrecedingFewer ==
  ASSUME CreatedTyped, NEW S \in SUBSET Tasks, NEW t \in S, NEW u \in S, Before(u, t)
  PROVE  Cardinality(Preceding(S, u)) < Cardinality(Preceding(S, t))
<1>1. Preceding(S, u) \subseteq Preceding(S, t)
  BY BeforeIsOrder DEF Preceding
<1>2. u \in Preceding(S, t) /\ u \notin Preceding(S, u)
  BY BeforeIsOrder DEF Preceding
<1>3. IsFiniteSet(S)
  BY UserTasksAssumption, FS_Subset
<1>4. IsFiniteSet(Preceding(S, t)) /\ IsFiniteSet(Preceding(S, u))
  <2>1. Preceding(S, t) \subseteq S /\ Preceding(S, u) \subseteq S
    BY DEF Preceding
  <2> QED BY <1>3, <2>1, FS_Subset
<1>5. /\ Cardinality(Preceding(S, u)) <= Cardinality(Preceding(S, t))
      /\ Cardinality(Preceding(S, u)) # Cardinality(Preceding(S, t))
  BY <1>1, <1>2, <1>4, FS_Subset
<1>6. Cardinality(Preceding(S, u)) \in Nat /\ Cardinality(Preceding(S, t)) \in Nat
  BY <1>4, FS_CardinalityType
<1> QED BY <1>5, <1>6

LEMMA CountPreceding ==
  ASSUME NEW S \in SUBSET Tasks, NEW t
  PROVE  IsFiniteSet(Preceding(S, t)) /\ Cardinality(Preceding(S, t)) \in Nat
         /\ Cardinality(Preceding(S, t)) <= Cardinality(S) /\ Cardinality(S) \in Nat
<1>1. IsFiniteSet(S)
  BY UserTasksAssumption, FS_Subset
<1>2. Preceding(S, t) \subseteq S
  BY DEF Preceding
<1> QED BY <1>1, <1>2, SubsetSmaller, FS_CardinalityType

(* Tasks that are there have a first and a last one. *)
LEMMA FirstAndLast ==
  ASSUME CreatedTyped, NEW S \in SUBSET Tasks, S # {}
  PROVE  /\ \E t \in S : Preceding(S, t) = {}
         /\ \E t \in S : \A u \in S \ {t} : Before(u, t)
<1> DEFINE rank == [t \in S |-> Cardinality(Preceding(S, t))]
           above == [t \in S |-> Cardinality(S) - Cardinality(Preceding(S, t))]
<1>1. rank \in [S -> Nat] /\ above \in [S -> Nat]
  BY CountPreceding
<1>2. PICK t \in S : \A u \in S : rank[t] <= rank[u]
  BY <1>1, LeastBy
<1>3. PICK v \in S : \A u \in S : above[v] <= above[u]
  BY <1>1, LeastBy
<1>4. Preceding(S, t) = {}
  <2>1. ASSUME NEW u \in S, Before(u, t) PROVE FALSE
    <3>1. Cardinality(Preceding(S, u)) < Cardinality(Preceding(S, t))
      BY <2>1, PrecedingFewer
    <3>2. Cardinality(Preceding(S, t)) <= Cardinality(Preceding(S, u))
      BY <1>2
    <3> QED BY <3>1, <3>2, CountPreceding
  <2> QED BY <2>1 DEF Preceding
<1>5. ASSUME NEW u \in S \ {v} PROVE Before(u, v)
  <2>1. CASE Before(v, u)
    <3>1. Cardinality(Preceding(S, v)) < Cardinality(Preceding(S, u))
      BY <2>1, PrecedingFewer
    <3>2. Cardinality(S) - Cardinality(Preceding(S, v)) <= Cardinality(S) - Cardinality(Preceding(S, u))
      BY <1>3
    <3>3. /\ Cardinality(S) \in Nat /\ Cardinality(Preceding(S, v)) \in Nat
          /\ Cardinality(Preceding(S, u)) \in Nat
      BY CountPreceding
    <3> QED BY <3>1, <3>2, <3>3
  <2> QED BY <2>1, BeforeIsOrder
<1> QED BY <1>4, <1>5

(* A page: the rows that stay behind come after all of it, and if some do,  *)
(* it has a last row.                                                       *)
LEMMA PageOfRows ==
  ASSUME CreatedTyped, NEW rest \in SUBSET Tasks, NEW rows,
         rows = {t \in rest : Cardinality({u \in rest : Before(u, t)}) < PageSize}
  PROVE  /\ \A t \in rest \ rows : \A u \in rows : Before(u, t)
         /\ rest # rows => \E t \in rows : \A u \in rows \ {t} : Before(u, t)
<1> USE UserTasksAssumption
<1>1. rows = {t \in rest : Cardinality(Preceding(rest, t)) < PageSize}
  BY DEF Preceding
<1>2. ASSUME NEW t \in rest \ rows, NEW u \in rows PROVE Before(u, t)
  <2>1. /\ u \in rest /\ u # t /\ ~ (Cardinality(Preceding(rest, t)) < PageSize)
        /\ Cardinality(Preceding(rest, u)) < PageSize
    BY <1>1
  <2>2. ~ Before(t, u)
    <3>1. ASSUME Before(t, u) PROVE FALSE
      <4>1. Cardinality(Preceding(rest, t)) < Cardinality(Preceding(rest, u))
        BY <2>1, <3>1, PrecedingFewer
      <4>2. /\ Cardinality(Preceding(rest, t)) \in Nat /\ Cardinality(Preceding(rest, u)) \in Nat
            /\ PageSize \in Nat
        BY CountPreceding
      <4> QED BY <2>1, <4>1, <4>2
    <3> QED BY <3>1
  <2> QED BY <2>1, <2>2, BeforeIsOrder
<1>3. ASSUME rest # rows
      PROVE  \E t \in rows : \A u \in rows \ {t} : Before(u, t)
  <2>1. rows \in SUBSET rest /\ rest # {} /\ rows \in SUBSET Tasks
    BY <1>1, <1>3
  <2>2. PICK t \in rest : Preceding(rest, t) = {}
    BY <2>1, FirstAndLast
  <2>3. t \in rows
    <3>1. Cardinality(Preceding(rest, t)) = 0 /\ 0 < PageSize
      BY <2>2, FS_EmptySet
    <3> QED BY <1>1, <3>1
  <2> QED BY <2>1, <2>3, FirstAndLast
<1> QED BY <1>2, <1>3

(* The client has read everything up to its cursor, and whatever it has not *)
(* is behind it; a task that ended before the first page is no other one    *)
(* than ended, unless a run has opened it again.                            *)
ListInv ==
  /\ page.at \in {"off", "more", "end"} /\ page.filter \in {"all", "active", "ended"}
  /\ page.at = "off" => page = NoPage
  /\ ~ page.repeated
  /\ page.got \subseteq Rows /\ page.steady \subseteq Rows
  /\ page.at = "more" =>
       /\ page.cursor \in page.got
       /\ \A t \in page.got : t = page.cursor \/ Before(t, page.cursor)
  /\ page.filter = "ended" => \A t \in page.steady \ reopened : status[t] = "ended"
  /\ \A t \in (page.steady \cap Matching(page.filter)) \ reopened :
       t \in page.got \/ (page.at = "more" /\ Before(page.cursor, t))

(* Rows stay where they are in the list, and an ended task becomes active   *)
(* only by being opened again.                                              *)
LEMMA RowsKeepTheirPlace ==
  ASSUME UserInv, [UserNext]_userVars
  PROVE  /\ Rows \subseteq Rows' /\ reopened \subseteq reopened'
         /\ \A t \in Rows : created'[t] = created[t]
         /\ \A t \in Rows \ reopened' : status[t] = "ended" => status'[t] = "ended"
<1> USE DEF UserInv, ApiTyped, Rows
<1>1. ASSUME NEW r \in Requests, InsertTask(r)
      PROVE  /\ Rows \subseteq Rows' /\ reopened \subseteq reopened'
             /\ \A t \in Rows : created'[t] = created[t]
             /\ \A t \in Rows \ reopened' : status[t] = "ended" => status'[t] = "ended"
  <2>1. PICK t \in NewIds : /\ status' = [status EXCEPT ![t] = "active"]
                            /\ created' = [created EXCEPT ![t] = req[r].time]
    BY <1>1 DEF InsertTask
  <2>2. t \in Tasks /\ status[t] = "none" /\ reopened' = reopened
    BY <1>1 DEF NewIds, InsertTask, Rows, runVars
  <2> QED BY <2>1, <2>2
<1>2. ASSUME NEW r \in Requests, CountTasks(r) \/ Enqueue(r) \/ RequestFails(r)
      PROVE  UNCHANGED <<status, created, reopened>>
  BY <1>2 DEF CountTasks, Enqueue, RequestFails, runVars
<1>3. ASSUME RunWrites,
             \/ UNCHANGED <<status, reopened>>
             \/ \E t : status' = [status EXCEPT ![t] = "ended"] /\ UNCHANGED reopened
             \/ \E w \in Workers : SetActive(TaskOf(w))
      PROVE  /\ Rows \subseteq Rows' /\ reopened \subseteq reopened'
             /\ \A u \in Rows : created'[u] = created[u]
             /\ \A u \in Rows \ reopened' : status[u] = "ended" => status'[u] = "ended"
  BY <1>3 DEF RunWrites, SetActive
<1>6. ASSUME NEW w \in Workers, WorkerActs(w)
      PROVE  /\ Rows \subseteq Rows' /\ reopened \subseteq reopened'
             /\ \A u \in Rows : created'[u] = created[u]
             /\ \A u \in Rows \ reopened' : status[u] = "ended" => status'[u] = "ended"
  <2>1. RunWrites
    BY <1>6, RunsWriteRows
  <2>2. \/ UNCHANGED <<status, reopened>>
        \/ \E t : status' = [status EXCEPT ![t] = "ended"] /\ UNCHANGED reopened
        \/ SetActive(TaskOf(w))
    BY <1>6 DEF WorkerActs, RunStep, LoadTask, SetPlanning, StartSandbox, SandboxRefused, SetRunning,
       AgentWorks, ReadUsage, WriteUsage, SetCompleted, PushSummary, TrimSummaries, NoSummary,
       Cleanup, RunFails, RunRaises, WorkerDies, Break, rowVars
  <2> QED BY <1>3, <2>1, <2>2
<1>7. ASSUME NEW t \in Tasks, CancelTask(t)
      PROVE  /\ Rows \subseteq Rows' /\ reopened \subseteq reopened'
             /\ \A u \in Rows : created'[u] = created[u]
             /\ \A u \in Rows \ reopened' : status[u] = "ended" => status'[u] = "ended"
  BY <1>3, <1>7, CancelWritesRow DEF CancelTask, runVars
<1>4. ASSUME NEW filter \in {"all", "active", "ended"}, FetchPage(filter)
      PROVE  UNCHANGED <<status, created, reopened>>
  BY <1>4 DEF FetchPage, rowVars, runVars
<1>5. CASE UNCHANGED userVars
  BY <1>5 DEF userVars
<1> QED BY <1>1, <1>2, <1>4, <1>5, <1>6, <1>7 DEF UserNext, RequestStep, WorkerActs

(* What the others do to the rows between two pages. *)
LEMMA ListStands ==
  ASSUME UserInv, ListInv, [UserNext]_userVars, UNCHANGED page
  PROVE  ListInv'
<1>1. /\ Rows \subseteq Rows' /\ reopened \subseteq reopened'
      /\ \A t \in Rows : created'[t] = created[t]
      /\ \A t \in Rows \ reopened' : status[t] = "ended" => status'[t] = "ended"
  BY RowsKeepTheirPlace
<1>2. \A t, u \in Rows : Before(t, u)' <=> Before(t, u)
  BY <1>1 DEF Before
<1>3. \A t \in Rows : status[t] \in {"active", "ended"}
  BY DEF UserInv, ApiTyped, Rows
<1>4. ASSUME NEW t \in (page.steady \cap Matching(page.filter)') \ reopened'
      PROVE  t \in Matching(page.filter)
  BY <1>1, <1>3, <1>4 DEF Matching, ListInv
<1>5. ASSUME NEW t \in (page'.steady \cap Matching(page.filter)') \ reopened'
      PROVE  t \in page'.got \/ (page'.at = "more" /\ Before(page.cursor, t)')
  BY <1>1, <1>2, <1>4, <1>5 DEF ListInv
<1>6. page'.at = "more" => \A t \in page'.got : t = page'.cursor \/ Before(t, page.cursor)'
  BY <1>2 DEF ListInv
<1> QED BY <1>1, <1>5, <1>6 DEF ListInv

LEMMA FetchStep ==
  ASSUME UserInv, ListInv, NEW filter \in {"all", "active", "ended"}, FetchPage(filter)
  PROVE  ListInv'
<1> DEFINE rest == {t \in Matching(filter) : After(page.cursor, t)}
           rows == {t \in rest : Cardinality({u \in rest : Before(u, t)}) < PageSize}
           last == CHOOSE t \in rows : \A u \in rows \ {t} : Before(u, t)
<1>1. page' = [at |-> IF rest # rows THEN "more" ELSE "end",
               filter |-> filter,
               cursor |-> IF rest # rows THEN last ELSE page.cursor,
               got |-> page.got \cup rows,
               steady |-> IF page.at = "off" THEN Matching(filter) ELSE page.steady,
               repeated |-> page.repeated \/ rows \cap page.got # {}]
  BY DEF FetchPage
<1>2. UNCHANGED <<status, created, reopened>>
  BY DEF FetchPage, rowVars, runVars
<1>3. page.at = "off" \/ (page.at = "more" /\ page.filter = filter)
  BY DEF FetchPage
<1>4. CreatedTyped /\ \A t \in Rows : status[t] \in {"active", "ended"}
  BY DEF UserInv, ApiTyped, CreatedTyped, Rows
<1>5. Rows \subseteq Tasks /\ Matching(filter) \subseteq Rows /\ 0 \notin Tasks
  BY UserTasksAssumption DEF Rows, Matching
<1>6. rest \in SUBSET Tasks /\ rows \subseteq rest
  BY <1>5
<1>7. /\ \A t \in rest \ rows : \A u \in rows : Before(u, t)
      /\ rest # rows => last \in rows /\ \A u \in rows \ {last} : Before(u, last)
  <2>1. rows = {t \in rest : Cardinality({u \in rest : Before(u, t)}) < PageSize}
    OBVIOUS
  <2> HIDE DEF rest, rows
  <2>2. \A t \in rest \ rows : \A u \in rows : Before(u, t)
    BY <1>4, <1>6, <2>1, PageOfRows, Zenon
  <2>3. rest # rows => \E t \in rows : \A u \in rows \ {t} : Before(u, t)
    BY <1>4, <1>6, <2>1, PageOfRows, Zenon
  <2> QED BY <2>2, <2>3
<1>8. \A t \in rest : page.at = "more" => Before(page.cursor, t)
  <2>1. page.at = "more" => page.cursor \in Tasks /\ page.cursor # 0
    BY <1>5 DEF ListInv
  <2> QED BY <2>1 DEF After
<1>9. page.at = "off" => page.got = {} /\ page.cursor = 0 /\ rest = Matching(filter)
  BY DEF ListInv, NoPage, After
<1> HIDE DEF rest, rows, last
<1>10. page.got \cap rest = {}
  <2>1. CASE page.at = "off"
    BY <1>9, <2>1
  <2>2. CASE page.at = "more"
    <3>1. page.got \subseteq Tasks /\ page.cursor \in Tasks
      BY <1>5, <2>2 DEF ListInv
    <3>2. ASSUME NEW t \in page.got, t \in rest PROVE FALSE
      BY <1>4, <1>8, <2>2, <3>1, <3>2, BeforeIsOrder DEF ListInv
    <3> QED BY <3>2
  <2> QED BY <1>3, <2>1, <2>2
<1>11. \A S : Matching(S)' = Matching(S)
  BY <1>2 DEF Matching, Rows
<1>12. \A t, u : Before(t, u)' <=> Before(t, u)
  BY <1>2 DEF Before
<1>13. /\ page'.got = page.got \cup rows /\ page'.filter = filter
       /\ page'.steady = IF page.at = "off" THEN Matching(filter) ELSE page.steady
       /\ page'.at \in {"more", "end"} /\ (page'.at = "more" <=> rest # rows)
       /\ page'.at = "more" => page'.cursor = last
  BY <1>1
<1>14. ~ page'.repeated
  <2>1. page'.repeated = (page.repeated \/ rows \cap page.got # {})
    BY <1>1
  <2> QED BY <1>6, <1>10, <2>1 DEF ListInv
<1>15. page'.got \subseteq Rows /\ page'.steady \subseteq Rows /\ Rows' = Rows
  BY <1>2, <1>5, <1>13 DEF ListInv, Rows, rest, rows
<1>16. ASSUME page'.at = "more"
       PROVE  page'.cursor \in page'.got
              /\ \A t \in page'.got : t = page'.cursor \/ Before(t, page'.cursor)
  <2>1. page'.cursor = last /\ last \in rows
    BY <1>7, <1>13, <1>16
  <2>2. ASSUME NEW t \in page.got PROVE Before(t, last)
    <3>1. page.at = "more" /\ page.cursor \in Tasks /\ t \in Tasks /\ last \in Tasks
      BY <1>3, <1>5, <1>6, <1>9, <2>1 DEF ListInv
    <3>2. Before(page.cursor, last)
      BY <1>6, <1>8, <2>1, <3>1
    <3>3. t = page.cursor \/ Before(t, page.cursor)
      BY <3>1 DEF ListInv
    <3> QED BY <1>4, <3>1, <3>2, <3>3, BeforeIsOrder
  <2> QED BY <1>7, <1>13, <1>16, <2>1, <2>2
<1>17. ASSUME filter = "ended", NEW t \in page'.steady \ reopened PROVE status[t] = "ended"
  BY <1>3, <1>13, <1>17 DEF ListInv, Matching
<1>18. ASSUME NEW t \in (page'.steady \cap Matching(filter)) \ reopened
       PROVE  t \in page'.got \/ (page'.at = "more" /\ Before(page'.cursor, t))
  <2>1. t \in page.got \/ t \in rest
    <3>1. CASE page.at = "off"
      BY <1>9, <3>1, <1>18
    <3>2. CASE page.at = "more"
      <4>1. t \in page.got \/ Before(page.cursor, t)
        BY <1>3, <1>13, <1>18, <3>2 DEF ListInv
      <4> QED BY <1>18, <4>1 DEF rest, After
    <3> QED BY <1>3, <3>1, <3>2
  <2> QED BY <1>7, <1>13, <2>1
<1>19. ListInv' <=>
        /\ page'.at \in {"off", "more", "end"} /\ page'.filter \in {"all", "active", "ended"}
        /\ page'.at = "off" => page' = NoPage
        /\ ~ page'.repeated
        /\ page'.got \subseteq Rows' /\ page'.steady \subseteq Rows'
        /\ page'.at = "more" =>
             /\ page'.cursor \in page'.got
             /\ \A t \in page'.got : t = page'.cursor \/ Before(t, page'.cursor)
        /\ page'.filter = "ended" => \A t \in page'.steady \ reopened : status[t] = "ended"
        /\ \A t \in (page'.steady \cap Matching(page'.filter)) \ reopened :
             t \in page'.got \/ (page'.at = "more" /\ Before(page'.cursor, t))
  BY <1>2 DEF ListInv, NoPage, Matching, Rows, Before
<1> QED BY <1>13, <1>14, <1>15, <1>16, <1>17, <1>18, <1>19

LEMMA ListStep == UserInv /\ ListInv /\ [UserNext]_userVars => ListInv'
<1> SUFFICES ASSUME UserInv, ListInv, [UserNext]_userVars PROVE ListInv'
  OBVIOUS
<1>1. CASE UNCHANGED page
  BY <1>1, ListStands
<1>2. CASE \E filter \in {"all", "active", "ended"} : FetchPage(filter)
  BY <1>2, FetchStep
<1> QED
  BY <1>1, <1>2
     DEF UserNext, userVars, RequestStep, RunStep, CountTasks, InsertTask, Enqueue, RequestFails,
         CancelTask, LoadTask, SetActive, SetPlanning, StartSandbox, SandboxRefused, SetRunning,
         AgentWorks, ReadUsage, WriteUsage, SetCompleted, PushSummary, TrimSummaries, NoSummary,
         Cleanup, Break, RunFails, RunRaises, WorkerDies

(* Paging with a cursor through a list that others change repeats no task   *)
(* and misses none that matched all along, for any page size, any filter    *)
(* and any number of tasks created, ended and cancelled between two pages.  *)
THEOREM ListIsComplete == UserSpec => []ListComplete
<1>1. UserInit => UserInv /\ ListInv
  <2> SUFFICES ASSUME UserInit PROVE ListInv
    BY InitUserInv
  <2> QED BY DEF UserInit, ListInv, NoPage
<1>2. UserInv /\ ListInv => ListComplete
  BY DEF ListInv, ListComplete
<1>3. UserSpec => [](UserInv /\ ListInv)
  BY <1>1, UserStep, ListStep, PTL DEF UserSpec
<1> QED BY <1>2, <1>3, PTL
=============================================================================
