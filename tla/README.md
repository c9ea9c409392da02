# Agentis backend: a TLA+ verification of its core

The backend runs agent tasks. A client posts a goal to a FastAPI service; the
service stores a task in Postgres and sends a message through Celery (Redis) to a
worker; the worker starts a sandbox container, runs a LangGraph agent loop against a
language model and tools, and records every step in Postgres and on a Redis channel;
the client follows the steps through server-sent events and may cancel. This
directory models the control of that program, checks it with TLC on small instances,
and proves the most important safety properties with TLAPS for all instances.

Paths below are relative to `src/app/`.

## 1. The system

| Component | State | Operations | Hard part |
|---|---|---|---|
| step log (`orchestrator/events.py`, `models/task.py`) | rows of `task_steps`, the channel `task:<id>:events` | `emit`, `replay` | several emitters of one task; commit and publish are two calls in two stores |
| sandbox manager (`sandbox/manager.py`) | Docker's containers by name, one session table per process | `create_session`, `destroy_session` | each process only knows its own sessions; containers outlive processes |
| task runner (`orchestrator/runner.py`) | `tasks.status`, the local `sandbox_endpoint` | `run_task`, `_set_status` | blind status writes; failures inside `except` and outside `try` |
| worker and queue (`worker/`) | one Celery message per task | deliver, acknowledge after the work | at-least-once delivery: redelivery during and after a run, worker loss |
| task API (`routers/tasks.py`, `repositories/task.py`) | the task row | create, cancel, get, list | decides on a row it read earlier; acts from another process |
| event stream (`routers/tasks.py`, `events.py`) | position of one client | replay, check, subscribe, live loop | the task runs on between these calls |
| agent graph (`orchestrator/nodes.py`, `graph.py`, `state.py`) | counters, messages, scratchpad, plan | six nodes, two routes | bounds of the loop; LangGraph's own limit |
| usage and budget (`orchestrator/budget.py`) | monthly tokens of a user | `record_usage`, `check_budgets` | unguarded read-modify-write; check never called |
| context window (`orchestrator/context.py`) | the message list | `summarize_messages` | its result goes through a reducer that appends |
| short-term memory (`memory/short_term.py`) | capped list and preferences in Redis | store, read, build the block | push and trim are separate calls |
| accounts (`routers/auth.py`, `auth/`) | users, refresh tokens, API keys, login counters | register, login, refresh, logout, keys, profile | check-then-act on every limit; rotation races |
| tools (`tools/`, `sandbox/rpc_client.py`) | none | one call each | only API start-up registers them |

How they interact: the API commits the row, then sends the message. A worker that
receives it calls `run_task`, which writes the status with `_set_status`, calls the
sandbox manager of its own process, runs the graph, whose nodes call `emit`, and ends
with a status write, or, from its `except` block, with an emitted failure and a status
write. The cancel request writes the same status and emits on the same log from the
API process. A stream reads rows, status and channel. Nothing but the unique
constraint on `(task_id, step_number)` and the container's name coordinates two
processes that work on one task.

What makes each part correct:

* step log: numbers 1..n without gap or repetition; nothing published that is not
  stored, nothing published twice, each emitter in order; no emit hangs.
* sandbox: a session means owning the container.
* task: at most one agent at work; an outcome is announced before it is recorded;
  a settled task stays settled; a run that returns leaves the task settled; the
  container is given back; a queued task ends.
* stream: order across replay and subscription; a subscribed client is told the end;
  no step is skipped (this one the code does not keep).
* agent graph: LangGraph's limit never ends a sensible run; tools run only below the
  limits; the loop ends by its own counters; the stored message list keeps every answer
  with the results of its calls, summarised or not (the list a summarising thought sends
  may begin with results whose answer went into the summary), and recent tool results
  are observed.
* a user's tasks: concurrent requests overshoot the limit by a bounded number, and the
  user gets below it again; paging repeats and misses nothing; the token counter has
  the tokens of a task at most once for each run that recorded them; the list of summaries stays near its cap.
* accounts: one account per address; rotation is all or nothing; limits of failures
  and keys are overshot by a bounded number; a lockout ends.

## 2. Modules

| Module | What it is |
|---|---|
| `FaultModel` | the kinds of failure a configuration may allow |
| `Ascending` | a finite set of integers in order, and the part of a sequence at some positions |
| `StepSequence` | abstract: a growing sequence of steps and announcements of them |
| `StepLog` | `EventEmitter.emit`, one action between two awaits, for any set of emitters |
| `Sandbox` | the container name, and the session table of each process |
| `TaskLifecycle` | abstract: the life of a task as `TaskStatus` promises it |
| `TaskRun` | composes the two: create, deliver, every await of `run_task`, cancel |
| `EventStream` | extends `TaskRun` with one client of the stream |
| `AgentGraph` | nodes, routes, counters, recursion limit |
| `AgentMessages` | extends `AgentGraph` with the message list, summaries and the scratchpad |
| `UserTasks` | the tasks of one user: admission, paged list, token counter, summaries |
| `Accounts` | registration, login, refresh, logout, API keys |
| `MC*` | bounds and symmetry for TLC |
| `*Proofs` | theorems, one module per component; `AscendingProofs` has lemmas only |

Correspondence with the code. In `StepLog`, `rows` is the table of one task,
`published` what was sent on its channel, and `em[e]` the call of emit that process
`e` has in progress: `select` and `insert` are the two statements before the commit,
`publish` is the Redis call. `InsertStep` and `InsertConflict` are the two answers of
the unique constraint; `StoreFails` and `PublishFails` include the case where the
statement took effect and only its answer was lost. In `Sandbox`, `container` is who
holds the name `agentis-sandbox-<task>` and `sessions` the processes whose
`_sessions` has the task. In `TaskRun`, `run[r]` is the line of `run_task` that
delivery `r` has reached, `endpoint[r]` whether `sandbox_endpoint` is set, and
`cancel[c]` the line of a DELETE request. Each action is the code from one await to the
next; the values written are those of the code, also where it overwrites what another
process wrote. A status write reads the row and writes it in one action: if the row
read has that status already the ORM sends no update, which is the same write done
at the read.

In `AgentMessages` each node is the node of `AgentGraph` together with what it does to
`messages` and `scratchpad`; `AddMessages` is LangGraph's reducer, which appends new
ids and replaces known ones. A message is its id, its class and, for an answer of the
model, its number of tool calls. Whether the list needs a summary is a free choice that
can only turn true: the list is never shortened.

`ORDER BY step_number` in `EventStream` and the filters of `AddMessages` and `Observe`
are written with `Ascending`, which finds the n-th element by counting. The library's
`SetToSortSeq` and `SelectSeq` would say the same, but the first searches all
permutations and the second is recursive, and nothing can be proved of either here.

In `UserTasks` the status of a task is active (the four statuses that
`count_running_tasks` counts) or ended. `req[r]` is a POST between its count, its
insert and its `delay`, and `copies[t]` how often the task's message will still be
delivered. `work[w]` is the run that worker process `w` has in progress, at one of the
calls that touch what tasks or runs share: the guard (`LoadTask`), the status writes,
`create_session` against the names in `boxes`, and the recording. `AgentWorks` adds to
`spent[t]`, the sum over the step rows of a task, which those of an earlier run stay
part of; `ReadUsage` is `_sum_task_tokens` and the load of the user (`sum` and `seen`), and
`WriteUsage` the commit of their sum; `PushSummary` and `TrimSummaries` are LPUSH and
LTRIM. `created` is the start of the transaction measured by the rows that existed then,
so overlapping inserts may have the same time. `page` is a client that follows the
cursors. `reopened`, `met`, `alone`, `recorded` and `untrimmed` are history: no guard
reads them.

In `Accounts`, `req[r]` is the statement a request will do next and the row it holds
from its last one; a transaction takes effect at its commit, except that an uncommitted
insert blocks a second one of the same index entry. `owner` is null for a row that does
not exist yet, `parent` is history: which token a token was rotated from.

Abstractions: the contents of steps, messages and events; one task at a time; each
delivery is a process of its own (a worker process that takes a second delivery has
lost the session of the first, so this is no restriction); a node of the graph emits
any sequence of work steps in `TaskRun`, while `AgentGraph` has the nodes themselves;
answers of the language model and the tools are free choices (in the deployed worker
every tool call fails, because only the API registers tools; the model allows that and
more). The Redis client's own retry of a publish is not modelled: with it a message
could be published twice.

## 3. Runs

| Run | Question | Bounds |
|---|---|---|
| `step_log` | do concurrent, failing, dying emitters keep the log correct, and is it the abstract sequence? | 3 emitters; no emit starts once the log has 2 steps (`MaxSteps`), so up to 4 rows; one step type (`Kinds`) |
| `task_run` | overlapping deliveries with a cancel request, crashes and a failing store | 2 runs, 1 cancel; an agent goes straight to its report (`MaxSteps = 0`), its work steps are in the other runs |
| `task_run_faults` | overlapping deliveries under all nine kinds of fault | 2 runs, work steps until 2 rows |
| `task_end` | does an undisturbed task follow its life, give back its sandbox and end? | 3 successive deliveries, work steps until 3 rows; broker, health and agent fail |
| `agent_graph` | is the loop bounded by its own counters, and does its memory stay consistent? | requests -3..5, default 3, cap 4, 3 failures, up to 6 calls per answer (one more than the window of `observe_node`) |
| `accounts` | do racing account requests keep the tables and limits? | 2 requests at a time, 3 spellings of 2 addresses, 3 tokens, 3 keys, limits of 2 failures and 1 key; three groups of endpoints (`Workloads`) |
| `user_tasks` | do the tasks of a user keep the limit, the list, the counter and the summaries? | 3 tasks beside the list, 2 beside the worker, 2 requests at a time, limits, page size and cap of 1, 2 worker processes, the message of the first task delivered up to twice, 1 token per run; three groups of activities (`Workloads`) |
| `event_stream` | order and end of a stream with reconnection | 1 run, 3 steps, 2 connections |
| `late_cancel` | violation: a completed task is overwritten by a late cancel | 1 run, 1 cancel |
| `cancel_sequence` | violation: cancelling does not stop the sandbox | 1 run, 1 cancel |
| `agent_summary` | violation: a summary does not replace what it summarises | as `agent_graph`, 2 calls per answer |
| `stream_gap` | violation: an event between replay and subscription is lost | 1 run, 1 connection |

Why these bounds are enough to meet the interesting cases. Conflicts on a step number
and on the container's name are between two processes; a third emitter adds a second
conflict for the same number and a number taken while two wait. Two deliveries are the
least with an overlap, a takeover after a crash and a redelivery after the end; a third,
sequential in `task_end`, adds a redelivery of a redelivery. `MaxSteps` leaves room for
a work step before, between and after those of another emitter, and reports and failure
reports are never bounded. For the stream, three steps give a replayed one, one in the
gap and a live one, and the second connection starts from a `Last-Event-ID`. In the
agent graph the requests include every side of zero and of the cap.

`UserTasks` and `Accounts` have several independent parts in one state. A behaviour
picks one of the `Workloads` and exercises the parts that share state: in `user_tasks`
cancelling with paging, cancelling with the worker, and the worker with its recording
(the token counter and the summaries); in `accounts` registration with login, with
refresh and logout, and with keys, the last two with expiry. With two requests and a
limit of one, both a refused request and an overshoot occur; with the list, three tasks
leave one to be inserted between two pages; with the worker, two tasks are one and
another admitted in its place, and the three messages of two tasks let two runs lose each
other's tokens or push twice before a trim, and let the second run of a task charge the
tokens of the first again; three tokens are a rotation of a rotation, or two rotations of
one. Where no list is read, ids are given out in order (`NewIds`), as nothing else
compares them.
All runs allow deadlock, since a task that has ended stops.

The symmetry of `task_run` and `task_run_faults` permutes deliveries and is used only
with safety properties.

### What the violations show

* `late_cancel`: `cancel_task` reads the row, and commits after the run has
  completed. The task goes from `completed` to `cancelled`, although
  `repositories/task.py:96` says it is cancelled "from any state except completed/failed".
* `cancel_sequence`: `routers/tasks.py:106` announces "revoke Celery task, stop
  sandbox". `revoke` gets the task's id instead of the message's, and the API process
  has no session for the task, so neither happens; the run goes on, and may overwrite
  `cancelled` later.
* `agent_summary`: `orchestrator/context.py:56` says the oldest half of the messages is
  replaced by a summary. The node returns summary, newer half and answer to a reducer
  that removes nothing, so the older half stays: each further thought is over the
  budget again and summarises again, and the list grows by a summary each time.
* `stream_gap`: `routers/tasks.py:133` promises to replay missed events, but a step
  emitted after the replay's query and before `subscribe` reaches nobody.

### Conditions under which properties hold

`SettledForGood` speaks of a settled task with no run past its guard and no cancel about
to commit: a run that is past the guard does overwrite a final status, and the model
shows it. `FollowsLifecycle` is checked, and proved, without overlapping deliveries, without
cancels and without memory and store faults (`Orderly` in `TaskRunProofs`) for the same
reason: a failure to store the summary turns `completed` into `failed`. `SandboxReclaimed` needs a working Docker and no crash;
a container that is lost otherwise stays, and blocks its name for later deliveries.
`ReceivedInOrder` needs one emitter at a time, since two may publish out of order. A
single run has that, which is what `event_stream` checks; the proof shows that it is
enough that nobody cancels and no delivery overlaps another (`Undisturbed`), with any
number of runs after one another. The first holds of a task nobody touches, the second
as long as a run is shorter than the broker's visibility timeout.

`AdmissionBounded` and `ListComplete` leave out reopened tasks. A cancellation, or the
end of another run of the task, frees a place under the limit, and a run that passed its
guard before then writes `planning` or `running` over it, as nothing in `_set_status`
looks. `RoomReturns` allows for stranded tasks: a task whose request died before `delay`,
or whose last run ended without a final status, counts against the limit until it is
cancelled, and as many of them as the limit lock the user out; the property says that
nothing else does. With a limit of one, a single stranded task is such a lockout.
`LockoutEnds` is checked for requests that do not die between INCR and EXPIRE
(`FailAt`): with that fault the counter has no time to live, and at the limit no later
failure gives it one. `UsageBetween` is what remains of "the counter is the sum of what was used", and it is
wrong on both sides. Two runs that read the counter before either has committed lose the
tokens of one; the property keeps those of every run that met no other (`alone`). And
`run_task` adds the sum over all steps of the task (`runner.py:91`), not of the run: a second
delivery that passed the guard (`runner.py:43`) before the first run ended, and that reaches
`create_session` after the container of the first is gone, runs its agent and charges the
first run's tokens again. So does a run after one that recorded and then failed to
write a final status. The bound is therefore the tokens of a task once for each of its
runs that recorded (`recorded[t] * spent[t]`), which TLC finds exceeded if a task is
counted once only. No document of the repository promises more than `budget.py:34`,
"Increment the user's monthly token counter".

## 4. Fairness

`FairSpec` of `TaskRun`: the API sends the message of a task it committed, each run
that a worker may take or has begun goes on (weak fairness of its steps taken together:
it is one coroutine), and a cancel request that started goes on. Nobody has to create or
cancel a task, and no fault has to happen; where a call may succeed or fail, either is
progress. Every await of `run_task` is bounded by the code (the health check by its 15
seconds, the agent loop by its counters, which `AgentGraph` checks as `GraphEnds`), and
Celery hands out a queued message to a free worker. In `StepLog` the statements of an emit are fair without its
failing steps, so no store has to fail for a call to end; `AgentGraph` has weak fairness
of the graph's steps. In `EventStream` the server's generator goes on once
opened; the client need not connect again. In `UserTasks` requests and runs that
have begun go on, and a free worker process takes a waiting message; nobody has to post,
cancel or read. Weak fairness of each worker suffices: the message of a task is delivered
a finite number of times (`Deliveries`), every run ends, and a free worker with a message
waiting stays enabled until some worker has taken it. In `Accounts` a request goes
on once it has begun and Redis drops a key whose time to live is over; no request has
to arrive. `FairAgentSpec` is as `AgentGraph`'s.

## 5. Proofs

All theorems are for arbitrary sets of emitters, runs, requests and faults, and
arbitrary bounds, from the named assumptions on the constants in the modules.

* `StepLogProofs`: the invariants are not inductive by themselves. `LogInv` adds that
  the table holds exactly 1..n for some n; that a call about to insert carries a number
  at most one past what the table holds and above every number its emitter has; and
  that a call about to publish owns its row, newer than all its emitter has published.
  The insert then keeps the numbers gapless because its number was one past a table
  that only grows, and unique because of the constraint. From it: `LogTyped`,
  `StepsAreNumbered`, `AnnouncedAfterDurable`, `AnnouncedOnceInOrder`. Its numbering is
  also what makes the rows a sequence, so that an insert is an append and a publish the
  first announcement of a recorded step: `LogImplementsSequence` proves that the log
  implements `StepSequence`.
* `SandboxProofs`: `SessionOwnsContainer`. It is inductive with the types: a
  session is only recorded with a container just created, and the container only
  goes when its own session does.
* `TaskRunProofs`: every step of a task is a step of `LogNext` or leaves the log
  alone, and the same for the sandbox (`TaskImplementsStepLog`,
  `TaskImplementsSandbox`), so the theorems above hold of a task without being
  proved again, the sequence of its steps included (`TaskKeepsSequence`). `OneAgent`
  combines `SessionOwnsContainer` with the invariant that a run between the start of its
  container and its cleanup has a session.
  `OutcomeIsAnnounced` needs to know what a run has announced by where it is
  (`RunOutcome`): what it is emitting while in the graph or the `except` block, that
  its event was published once it is past it, and that what is published stays so.
  `TaskTyped` is type correctness. `ReturnedIsSettled` needs `SettledInv`: once some run
  is past its last status write in good order, the status is final or another run is
  between its first write and its own end, or has ended without one; so each write
  over a final status leaves a run that answers for it. `SandboxIsReclaimed` needs
  `ReclaimInv`: every container has a session, and every session a run that is in its
  health check or has `endpoint` set; it holds for overlapping deliveries and cancel
  requests too, which the run `task_end` does not have. `SettledIsForGood` is the action
  property that a settled task stays settled, from the types alone.
  `OneAtATime` is about tasks that are `Undisturbed`: then at most one run is in
  progress, because a delivery needs the message back from the one before, and with
  `OutcomeInv` at most one emit is under way. `StatusFollowsLifecycle` proves from it
  that an `Orderly` task implements `TaskLifecycle`: `StatusByPhase` says what the run in
  progress knows of the status by where it is, which is true because nobody else writes.
  Each hypothesis is needed: with a cancel request (the run `late_cancel`), or with the
  fault `store`, `memory` or `redelivery` alone added to `task_end`, TLC finds a step of
  the status that is not one of `TaskLifecycle`'s.
* `AscendingProofs`: `Ascending(S)` enumerates a finite set of integers in order, each
  once (`AscendingEnumerates`), and is the only sequence that does (`AscendingIs`), so a
  use of it is computed by naming the sequence expected. The argument counts how many
  elements are no greater than a given one (`RankIncreases`) and needs no induction.
* `EventStreamProofs`: a stream only reads what the task writes, so `StreamSpec` implies
  `Spec` and all theorems of the task hold beside a client. `RowsAfterConsecutive`: since
  the numbers in the table are 1..n, the rows after step k, in order, are k + 1, k + 2,
  ... This gives `StreamTyped` and `ReplaysConsecutively` (what a replay still has to
  send follows the client's last step without a gap), for any emitters and faults.
  `ReceivesInOrder` goes in three steps. With one emit at a time the one under way
  has the highest number of table and channel (`LogInOrder`), so the channel is
  ascending (`AnnouncedInStepOrder`); the client's last step is its highest, and what
  waits for it on the channel is not below that (`ClientInOrder`). A step sent by the
  replay and again live is why "not below" cannot be "above".
* `AgentProofs`, the loop: the inductive invariant fixes the count of node executions by
  the node the graph is at and the iterations it has made, and says where an iteration
  is left (`StepsAt`, `RoomLeft`, `ReportAt`); from it the
  sufficiency of the recursion limit, the bounds of iterations and failures, and that
  tools run below both limits, for every cap, default and limit. `AgentImplementsGraph`
  maps every step of the agent with its memory to a step of `AgentGraph` (the nodes) or a
  stutter, so `AgentStaysWithinLimits` has these bounds for the larger system without
  proving them again.
* `AgentProofs`, the memory: first what each node adds to the list, by way of `Ascending`
  (`PlanAdds` to `ReportAdds`): a summarising thought returns the newer half again, whose
  ids are known, so that only the summary and the answer are new. From it `HistoryIsKept`
  (nothing ever leaves the list), and with `MemoryInv` the rest. `AnswersInv`: only
  the last answer may have open calls, and only until ACT is done, hence `MessagesTyped`
  and `CallsAreAnswered`. `QuotedInv`: results not yet quoted are in the window of the next
  OBSERVE. `QuotesInv`: from one OBSERVE to the next at least two messages are added, so a
  message quoted n times has at least 2n - 2 behind it and a window of five reaches it
  three times at most, hence `ResultsAreObserved`.
* `AccountsProofs`: `AccountsTyped` needs that a row a request holds stays a row
  (`RowsStay`). `OneAccount` is not inductive: `InsertsAlone` adds that two uncommitted
  inserts have different addresses and none has one that is stored, which the
  unique index gives. `RotationIsAtomic` adds that a parent is a token that was issued,
  so that a fresh row never becomes its own parent's successor. `LimitsAreBounded` counts
  what is stored and what is on its way together (`FailsBounded`, `KeysBounded`): a
  request that passes the check sees a value below the limit, and at most the other
  requests stand between that value and the bound.
* `UserTasksProofs`: `AdmissionIsBounded` counts admitted tasks and counted requests
  together in the same way; a run only adds to the active tasks what it reopens.
  `UsageIsBetween` has `UsageInv`: what a run has read of the counter lies between the
  tokens of the lone runs and the bound, which only grow; of several runs recording at
  once each is in `met`, so that a lone run's write starts from a counter nobody has moved
  past; and the sum a run has read is at most what the rows of its task have, so that
  counting the task once more pays for it. The sum over the tasks is written as a number of pairs, so that its
  monotonicity (`SumMonotone`, `SumGrows`) is one of cardinalities and needs no induction.
  `RecentIsBounded` counts the runs between push and trim and those that broke off there.
  `ListIsComplete`: the list is totally ordered (`BeforeIsOrder`), so rows have fewer
  before them the earlier they come (`PrecedingFewer`), and the rows a page leaves behind
  come after all that it has (`PageOfRows`). `ListInv` says that what the client has is
  up to its cursor and what it still misses is behind it; it stands because a row never
  moves in the list, and rows inserted after the first page are not ones it speaks of.

Only model-checked: the liveness properties (`EmitTerminates`, `TaskSettles`,
`SubscribedClientEnds`, `GraphEnds`, `RoomReturns`, `LockoutEnds`), which depend on
fairness and are beyond the proof system. Every invariant and every action property of a
passing run is stated by a theorem. The four violations are counterexamples of TLC.

## 6. Plan

Written so far, in this order: `StepLog`, `Sandbox`, `TaskRun`, `AgentGraph`,
`EventStream`, `AgentMessages`, `UserTasks`, `Accounts`, and their proofs.

Left, and worth proving: that a client of an undisturbed task receives no step
more than twice per connection and misses only those emitted between its replay and its
subscription, and which part of the task's life survives cancel requests and overlapping deliveries.

### Not modelled

* The language model's clients and prompts, tools and the RPC client: stateless calls,
  whose answers are free choices in `AgentGraph`. Token and password cryptography,
  schemas, settings, logging and migrations: no state that two steps share.
* `check_rate_limit` (`auth/rate_limiter.py`) and `check_budgets`
  (`orchestrator/budget.py`): nobody calls them, so they limit nothing, and the
  branch of `run_task` for `BudgetExceeded` cannot be taken.
* The profile update and `last_used_at`: both are flushed and not committed, so no state
  outlives the request. They are listed as hazards.
* Preferences of short-term memory, which nothing writes, and the text block built from
  the summaries.
* Checkpoints. The thread is the task, so only a second run of a task that reaches its
  graph meets one. While the container of the first run stands, a second run fails
  before, at its name; a delivery after the first run set a final status is stopped by
  the guard. Two ways are left: a delivery that passed the guard before the first run
  ended and reaches `create_session` after its container was removed, and a run after one
  whose final status write failed. Such a run starts from the first one's messages with
  new counters, and the bounds of `AgentGraph` are those of a single run.
* Soft deletion of tasks and users: nothing sets `deleted_at`.
