----------------------------- MODULE EventStream -----------------------------
(***************************************************************************)
(* GET /tasks/{id}/stream of routers/tasks.py: one client follows a task   *)
(* (TaskRun) through server-sent events.  The server first replays the     *)
(* steps after the client's Last-Event-ID from the table, then looks       *)
(* whether the task is already final, and only then subscribes to the      *)
(* channel; each of these is a call of its own, and the task runs on in    *)
(* between.  The client may drop its connection and come back.             *)
(***************************************************************************)
EXTENDS TaskRun, Ascending

CONSTANT MaxConnections  \* bound: how often the client connects

ASSUME StreamAssumption == MaxConnections \in Nat

VARIABLES
  stream,          \* where the server's event generator is
  backlog,         \* the rows read for replay and not sent yet
  position,        \* how much of the channel the subscription has consumed
  lastId,          \* the id of the last event the client received
  received,        \* the events the client received: [id, sse]
  connections      \* how often the client has connected

streamVars == <<stream, backlog, position, lastId, received, connections>>

StreamPcs == {"closed", "replay", "send", "check", "subscribe", "live"}

StreamInit ==
  /\ stream = "closed"
  /\ backlog = << >>
  /\ position = 0
  /\ lastId = 0
  /\ received = << >>
  /\ connections = 0

(* replay: the rows after step n, ordered by their number. *)
RowsAfter(n) ==
  LET later == {m \in StepNumbers : m > n}
  IN  [i \in 1..Cardinality(later) |->
         CHOOSE row \in rows : row.num = Ascending(later)[i]]

(* The client gets an event and remembers its id. *)
Send(id, sse) ==
  /\ received' = Append(received, [id |-> id, sse |-> sse])
  /\ lastId' = id

Terminal == {"task_completed", "task_failed"}

-----------------------------------------------------------------------------
Connect ==
  /\ status # "none"
  /\ stream = "closed"
  /\ connections < MaxConnections
  /\ connections' = connections + 1
  /\ stream' = "replay"
  /\ UNCHANGED <<backlog, position, lastId, received>>

ReadBacklog ==
  /\ stream = "replay"
  /\ backlog' = RowsAfter(lastId)
  /\ stream' = "send"
  /\ UNCHANGED <<position, lastId, received, connections>>

(* A replayed step carries the default event type of its step type: the    *)
(* type the emit was given is not stored.                                  *)
SendBacklog ==
  /\ stream = "send"
  /\ backlog # << >>
  /\ Send(Head(backlog).num, SseTypeOf(Head(backlog).type))
  /\ backlog' = Tail(backlog)
  /\ UNCHANGED <<stream, position, connections>>

BacklogSent ==
  /\ stream = "send"
  /\ backlog = << >>
  /\ stream' = "check"
  /\ UNCHANGED <<backlog, position, lastId, received, connections>>

(* A task already final ends the stream. *)
CheckStatus ==
  /\ stream = "check"
  /\ stream' = IF status \in Final THEN "closed" ELSE "subscribe"
  /\ UNCHANGED <<backlog, position, lastId, received, connections>>

(* Mutant: the subscription starts at the beginning of the channel. *)
Subscribe_FromStart ==
  /\ stream = "subscribe"
  /\ stream' = "live"
  /\ position' = 0
  /\ UNCHANGED <<backlog, lastId, received, connections>>

(* Mutant: the subscription starts one message late. *)
Subscribe_OnePast ==
  /\ stream = "subscribe"
  /\ stream' = "live"
  /\ position' = Len(published) + 1
  /\ UNCHANGED <<backlog, lastId, received, connections>>

(* A subscription sees what is published from now on. *)
Subscribe ==
  /\ stream = "subscribe"
  /\ stream' = "live"
  /\ position' = Len(published)
  /\ UNCHANGED <<backlog, lastId, received, connections>>

(* Mutant: only task_completed ends the stream. *)
SendLive_CompletedOnly ==
  /\ stream = "live"
  /\ position < Len(published)
  /\ LET event == published[position + 1]
     IN  /\ Send(event.id, event.sse)
         /\ stream' = IF event.sse = "task_completed" THEN "closed" ELSE "live"
  /\ position' = position + 1
  /\ UNCHANGED <<backlog, connections>>

(* The next message of the channel; the outcome of the task ends the       *)
(* stream.                                                                 *)
SendLive ==
  /\ stream = "live"
  /\ position < Len(published)
  /\ LET event == published[position + 1]
     IN  /\ Send(event.id, event.sse)
         /\ stream' = IF event.sse \in Terminal THEN "closed" ELSE "live"
  /\ position' = position + 1
  /\ UNCHANGED <<backlog, connections>>

(* The connection is lost, wherever the generator was. *)
Disconnect ==
  /\ stream # "closed"
  /\ stream' = "closed"
  /\ backlog' = << >>
  /\ UNCHANGED <<position, lastId, received, connections>>

ServerStep ==
  \/ ReadBacklog
  \/ SendBacklog
  \/ BacklogSent
  \/ CheckStatus
  \/ Subscribe
  \/ SendLive

StreamNext ==
  \/ Next /\ UNCHANGED streamVars
  \/ (Connect \/ ServerStep \/ Disconnect) /\ UNCHANGED vars

StreamSpec == Init /\ StreamInit /\ [][StreamNext]_<<vars, streamVars>>

(* The API process serves the stream it has opened, and the task goes on. *)
FairStreamSpec ==
  /\ StreamSpec
  /\ Fairness
  /\ WF_<<vars, streamVars>>(ServerStep /\ UNCHANGED vars)

-----------------------------------------------------------------------------
(* Properties *)

StreamTypeOK ==
  /\ stream \in StreamPcs
  /\ backlog \in Seq(rows)
  /\ position \in 0..Len(published)
  /\ lastId \in {0} \cup StepNumbers
  /\ received \in Seq([id : StepNumbers, sse : SseTypes])
  /\ connections \in 0..MaxConnections

(* While one process emits, a client receives steps in order; one it has   *)
(* already may come again, right after itself, when it was replayed from   *)
(* the table before its message was published.                             *)
ReceivedInOrder ==
  \A i, j \in 1..Len(received) : i < j => received[i].id <= received[j].id

(* A client that has subscribed before the outcome is published is not     *)
(* left with an open stream.                                               *)
OutcomePending == \A i \in 1..Len(published) : published[i].sse \notin Terminal
SubscribedClientEnds == stream = "live" /\ OutcomePending ~> stream = "closed"

(* Documented: "Replay missed events (BR-TASK-11)" (routers/tasks.py:133). *)
(* A client that has received step n has received every step before it.    *)
NoEventMissed ==
  \A i \in 1..Len(received) : \A n \in 1..received[i].id :
    \E j \in 1..Len(received) : received[j].id = n
=============================================================================
