--------------------------- MODULE EventStreamProofs ---------------------------
(***************************************************************************)
(* The events of a task as a client receives them: what the stream sends   *)
(* is a step of the table, a replay sends the consecutive steps after the  *)
(* client's last, and as long as the runs of the task do not overlap the   *)
(* client never sees a step after a later one.                             *)
(***************************************************************************)
EXTENDS EventStream, TaskRunProofs, AscendingProofs

(* A stream only reads what the task writes. *)
LEMMA StreamStepIsTaskStep == [StreamNext]_<<vars, streamVars>> => [Next]_vars
BY DEF StreamNext

THEOREM StreamFollowsTask == StreamSpec => Spec
BY StreamStepIsTaskStep, PTL DEF StreamSpec, Spec

LEMMA SeqGrows ==
  ASSUME NEW S, NEW T, S \subseteq T, NEW s \in Seq(S)
  PROVE  s \in Seq(T)
OBVIOUS

(* No row is ever removed. *)
LEMMA RowsGrow ==
  ASSUME [LogNext]_logVars
  PROVE  rows \subseteq rows' /\ StepNumbers \subseteq StepNumbers'
<1>1. rows \subseteq rows'
  BY DEF LogNext, logVars, EmitStep, EmitProgress, EmitCall, SelectNumber, InsertStep,
         InsertConflict, Publish, StoreFails, PublishFails, EmitReturn, EmitterDies
<1> QED BY <1>1 DEF StepNumbers

(* The rows after n, n being 0 or a step: n + 1, n + 2 and so on. *)
LEMMA RowsAfterConsecutive ==
  ASSUME LogInv, NEW n \in {0} \cup StepNumbers
  PROVE  /\ RowsAfter(n) \in Seq(rows)
         /\ n \in Nat
         /\ \A i \in 1..Len(RowsAfter(n)) : RowsAfter(n)[i].num = n + i
<1> DEFINE later == {m \in StepNumbers : m > n}
<1>1. PICK N \in Nat : StepNumbers = 1..N
  BY DEF LogInv, Contiguous
<1>2. n \in Nat /\ n <= N
  BY <1>1
<1> DEFINE g == [i \in 1..(N - n) |-> n + i]
<1>3. N - n \in Nat /\ later \in SUBSET Int /\ g \in [1..(N - n) -> later]
  BY <1>1, <1>2
<1>4. \A i, j \in 1..(N - n) : i < j => g[i] < g[j]
  BY <1>2
<1>5. ASSUME NEW x \in later PROVE \E i \in 1..(N - n) : g[i] = x
  <2>1. x - n \in 1..(N - n) /\ g[x - n] = x
    BY <1>1, <1>2
  <2> QED BY <2>1
<1> HIDE DEF g, later
<1>6. Cardinality(later) = N - n /\ Ascending(later) = g
  BY <1>3, <1>4, <1>5, AscendingIs
<1>7. ASSUME NEW i \in 1..(N - n)
      PROVE  /\ (CHOOSE row \in rows : row.num = g[i]) \in rows
             /\ (CHOOSE row \in rows : row.num = g[i]).num = n + i
  <2>1. g[i] = n + i /\ n + i \in StepNumbers
    BY <1>1, <1>2 DEF g
  <2>2. \E row \in rows : row.num = g[i]
    BY <2>1 DEF StepNumbers
  <2> QED BY <2>1, <2>2
<1>8. RowsAfter(n) = [i \in 1..(N - n) |-> CHOOSE row \in rows : row.num = g[i]]
  <2>1. RowsAfter(n) = [i \in 1..Cardinality(later) |->
                          CHOOSE row \in rows : row.num = Ascending(later)[i]]
    BY Zenon DEF RowsAfter, later
  <2> QED BY <2>1, <1>6, Zenon
<1> DEFINE replay == RowsAfter(n)
<1>9. replay \in [1..(N - n) -> rows] /\ \A i \in 1..(N - n) : replay[i].num = n + i
  BY <1>7, <1>8
<1> HIDE DEF replay
<1>10. replay \in Seq(rows) /\ Len(replay) = N - n
  BY <1>3, <1>9
<1> QED BY <1>2, <1>9, <1>10 DEF replay

-----------------------------------------------------------------------------
(* What is sent are steps of the table *)

(* A replay under way continues where the client is: whatever several       *)
(* emitters do meanwhile, nothing is skipped and nothing comes twice.       *)
ReplayConsecutive ==
  stream = "send" => \A i \in 1..Len(backlog) : backlog[i].num = lastId + i

StreamInv == StreamTypeOK /\ ReplayConsecutive

LEMMA StreamTypeInit == Init /\ StreamInit => StreamInv
BY StreamAssumption
   DEF Init, LogInit, StreamInit, StreamInv, StreamTypeOK, ReplayConsecutive, StreamPcs

(* The task goes on and the stream stands still. *)
LEMMA TaskStepStream ==
  ASSUME StreamInv, LogTypeOK, [Next]_vars, UNCHANGED streamVars
  PROVE  StreamInv'
<1>1. [LogNext]_logVars
  BY TaskStepIsLogStep
<1>2. backlog' \in Seq(rows')
  BY <1>1, RowsGrow, SeqGrows DEF StreamInv, StreamTypeOK, streamVars
<1>3. position' \in 0..Len(published')
  BY <1>1, PublishedGrows DEF StreamInv, StreamTypeOK, streamVars
<1>4. received' \in Seq([id : StepNumbers', sse : SseTypes])
  <2>1. [id : StepNumbers, sse : SseTypes] \subseteq [id : StepNumbers', sse : SseTypes]
    BY <1>1, RowsGrow
  <2>2. received \in Seq([id : StepNumbers, sse : SseTypes]) /\ received' = received
    BY DEF StreamInv, StreamTypeOK, streamVars
  <2> QED BY <2>1, <2>2, SeqGrows
<1>5. lastId' \in {0} \cup StepNumbers'
  BY <1>1, RowsGrow DEF StreamInv, StreamTypeOK, streamVars
<1> QED
  BY <1>2, <1>3, <1>4, <1>5 DEF StreamInv, StreamTypeOK, ReplayConsecutive, streamVars

(* A step of the stream that sends nothing and reads no rows. *)
LEMMA QuietStreamStep ==
  ASSUME StreamInv, LogTypeOK, UNCHANGED vars,
         Connect \/ BacklogSent \/ CheckStatus \/ Subscribe \/ Disconnect
  PROVE  StreamInv'
<1> USE DEF StreamInv, StreamTypeOK, StreamPcs, vars, logVars
<1>1. StepNumbers' = StepNumbers
  BY DEF StepNumbers
<1>2. Len(published) \in Nat
  BY DEF LogTypeOK
<1>3. ReplayConsecutive'
  BY DEF Connect, BacklogSent, CheckStatus, Subscribe, Disconnect, ReplayConsecutive
<1>4. CASE Connect
  BY <1>1, <1>3, <1>4, StreamAssumption DEF Connect
<1>5. CASE BacklogSent \/ CheckStatus \/ Disconnect
  <2>1. stream' \in StreamPcs /\ UNCHANGED <<position, lastId, received, connections>>
    BY <1>5 DEF BacklogSent, CheckStatus, Disconnect
  <2>2. backlog' \in Seq(rows')
    <3>1. rows' = rows /\ backlog \in Seq(rows) /\ << >> \in Seq(rows)
      OBVIOUS
    <3>2. backlog' = backlog \/ backlog' = << >>
      BY <1>5 DEF BacklogSent, CheckStatus, Disconnect
    <3> QED BY <3>1, <3>2, Zenon
  <2> QED BY <1>1, <1>3, <2>1, <2>2
<1>6. CASE Subscribe
  BY <1>1, <1>2, <1>3, <1>6 DEF Subscribe
<1> QED BY <1>4, <1>5, <1>6

(* What the client gets has a step in the table and a known type. *)
LEMMA SendTyped ==
  ASSUME StreamInv, UNCHANGED rows, NEW id \in StepNumbers, NEW sse \in SseTypes, Send(id, sse)
  PROVE  /\ received' \in Seq([id : StepNumbers', sse : SseTypes])
         /\ lastId' \in {0} \cup StepNumbers'
         /\ Len(received) \in Nat /\ Len(received') = Len(received) + 1
         /\ \A i \in 1..Len(received) : received'[i] = received[i]
         /\ received'[Len(received) + 1].id = id
<1> DEFINE E == [id : StepNumbers, sse : SseTypes]
<1>1. received \in Seq(E) /\ [id |-> id, sse |-> sse] \in E
  BY DEF StreamInv, StreamTypeOK
<1>2. StepNumbers' = StepNumbers
  BY DEF StepNumbers
<1>3. received' = Append(received, [id |-> id, sse |-> sse]) /\ lastId' = id
  BY DEF Send
<1>4. received'[Len(received) + 1] = [id |-> id, sse |-> sse]
  BY <1>1, <1>3
<1> HIDE DEF E
<1>5. /\ received' \in Seq(E) /\ Len(received) \in Nat /\ Len(received') = Len(received) + 1
      /\ \A i \in 1..Len(received) : received'[i] = received[i]
  BY <1>1, <1>3
<1> QED BY <1>2, <1>3, <1>4, <1>5 DEF E

LEMMA ReplayStep ==
  ASSUME StreamInv, LogInv, UNCHANGED vars, SendBacklog
  PROVE  StreamInv' /\ Head(backlog).num \in StepNumbers /\ Head(backlog).num = lastId + 1
<1> DEFINE row == Head(backlog)
<1>1. /\ backlog \in Seq(rows) /\ backlog # << >>
  BY DEF StreamInv, StreamTypeOK, SendBacklog
<1>2. row \in rows /\ backlog' \in Seq(rows) /\ row = backlog[1] /\ 1 \in 1..Len(backlog)
  BY <1>1 DEF SendBacklog
<1>3. \A i \in 1..Len(backlog') : i + 1 \in 1..Len(backlog) /\ backlog'[i] = backlog[i + 1]
  BY <1>1 DEF SendBacklog
<1>4. row.num \in StepNumbers /\ row.type \in StepTypes
  BY <1>2 DEF StepNumbers, LogInv, LogTypeOK
<1>5. SseTypeOf(row.type) \in SseTypes
  BY <1>4 DEF SseTypeOf, StepTypes, SseTypes
<1>6. Send(row.num, SseTypeOf(row.type)) /\ UNCHANGED rows
  BY DEF SendBacklog, vars, logVars
<1>7. /\ received' \in Seq([id : StepNumbers', sse : SseTypes])
      /\ lastId' \in {0} \cup StepNumbers'
  BY <1>4, <1>5, <1>6, SendTyped
<1>8. lastId \in Nat
  BY DEF StreamInv, StreamTypeOK, LogInv, LogTypeOK, StepNumbers
<1>9. row.num = lastId + 1 /\ lastId' = row.num
  BY <1>2, <1>6 DEF StreamInv, ReplayConsecutive, SendBacklog, Send
<1>10. ReplayConsecutive'
  <2>1. ASSUME NEW i \in 1..Len(backlog') PROVE backlog'[i].num = lastId' + i
    <3>1. backlog'[i].num = lastId + (i + 1)
      BY <1>3 DEF StreamInv, ReplayConsecutive, SendBacklog
    <3> QED BY <3>1, <1>8, <1>9
  <2> QED BY <2>1 DEF ReplayConsecutive
<1> QED
  BY <1>2, <1>4, <1>6, <1>7, <1>9, <1>10
     DEF StreamInv, StreamTypeOK, SendBacklog, vars, logVars

LEMMA LiveStep ==
  ASSUME StreamInv, LogInv, UNCHANGED vars, SendLive
  PROVE  /\ StreamInv'
         /\ position + 1 \in 1..Len(published)
         /\ published[position + 1].id \in StepNumbers
         /\ Send(published[position + 1].id, published[position + 1].sse)
<1> DEFINE event == published[position + 1]
<1>1. /\ published \in Seq([id : Nat, sse : SseTypes, by : Emitters])
      /\ position + 1 \in 1..Len(published)
  BY DEF StreamInv, StreamTypeOK, SendLive, LogInv, LogTypeOK
<1>2. event.sse \in SseTypes
  <2> DEFINE S == [id : Nat, sse : SseTypes, by : Emitters]
  <2>1. event \in S
    <3> HIDE DEF S
    <3> QED BY <1>1, ElementOfSeq DEF S
  <2> QED BY <2>1
<1>3. event.id \in StepNumbers
  BY <1>1 DEF LogInv, PublishedArePersisted, StepNumbers
<1>4. Send(event.id, event.sse) /\ UNCHANGED <<rows, published>>
  BY DEF SendLive, vars, logVars
<1>5. /\ received' \in Seq([id : StepNumbers', sse : SseTypes])
      /\ lastId' \in {0} \cup StepNumbers'
  BY <1>2, <1>3, <1>4, SendTyped
<1>6. stream' \in {"closed", "live"} /\ position' = position + 1
      /\ UNCHANGED <<backlog, connections>>
  BY DEF SendLive
<1> QED
  BY <1>1, <1>3, <1>4, <1>5, <1>6 DEF StreamInv, StreamTypeOK, ReplayConsecutive, StreamPcs

LEMMA StreamStep ==
  LogInv /\ StreamInv /\ [StreamNext]_<<vars, streamVars>> => StreamInv'
<1> SUFFICES ASSUME LogInv, StreamInv, [StreamNext]_<<vars, streamVars>> PROVE StreamInv'
  OBVIOUS
<1>1. LogTypeOK
  BY DEF LogInv
<1>2. CASE [Next]_vars /\ UNCHANGED streamVars
  BY <1>1, <1>2, TaskStepStream
<1>3. CASE UNCHANGED vars /\ (Connect \/ BacklogSent \/ CheckStatus \/ Subscribe \/ Disconnect)
  BY <1>1, <1>3, QuietStreamStep
<1>4. CASE UNCHANGED vars /\ ReadBacklog
  <2>1. lastId \in {0} \cup StepNumbers
    BY DEF StreamInv, StreamTypeOK
  <2>2. /\ backlog' \in Seq(rows)
        /\ \A i \in 1..Len(backlog') : backlog'[i].num = lastId + i
    BY <1>4, <2>1, RowsAfterConsecutive DEF ReadBacklog
  <2>3. StepNumbers' = StepNumbers /\ UNCHANGED <<rows, published>>
    BY <1>4 DEF vars, logVars, StepNumbers
  <2> QED
    BY <1>4, <2>2, <2>3 DEF ReadBacklog, StreamInv, StreamTypeOK, ReplayConsecutive, StreamPcs
<1>5. CASE UNCHANGED vars /\ SendBacklog
  BY <1>5, ReplayStep
<1>6. CASE UNCHANGED vars /\ SendLive
  BY <1>6, LiveStep
<1> QED BY <1>2, <1>3, <1>4, <1>5, <1>6 DEF StreamNext, ServerStep

LEMMA StreamInvariant == StreamSpec => []StreamInv
<1>1. StreamSpec => []LogInv
  BY StreamFollowsTask, TaskImplementsStepLog, LogInvariant, PTL
<1> QED BY <1>1, StreamTypeInit, StreamStep, PTL DEF StreamSpec

(* The stream's own state keeps its types: in particular the client         *)
(* receives only steps that are in the table.                               *)
THEOREM StreamTyped == StreamSpec => []StreamTypeOK
<1>1. StreamInv => StreamTypeOK
  BY DEF StreamInv
<1> QED BY <1>1, StreamInvariant, PTL

(* What a replay still has to send is, at any time, the consecutive steps   *)
(* after the last one the client has.                                       *)
THEOREM ReplaysConsecutively == StreamSpec => []ReplayConsecutive
<1>1. StreamInv => ReplayConsecutive
  BY DEF StreamInv
<1> QED BY <1>1, StreamInvariant, PTL

-----------------------------------------------------------------------------
(* One emitter at a time announces in the order of the numbers *)

(* A call under way has the highest number of all, in the table and on the  *)
(* channel, so that what it announces comes behind what was announced.      *)
LogInOrder ==
  /\ \A e \in Emitters : em[e].pc = "insert" => \A n \in StepNumbers : n < em[e].num
  /\ \A e \in Emitters : em[e].pc = "publish" =>
       /\ \A n \in StepNumbers : n <= em[e].num
       /\ \A i \in 1..Len(published) : published[i].id < em[e].num
  /\ \A i, j \in 1..Len(published) : i < j => published[i].id < published[j].id

LEMMA LogInOrderInit == Init => LogInOrder
BY DEF Init, LogInit, Idle, LogInOrder

LEMMA InsertInOrder ==
  ASSUME LogInv, LogInOrder, OneEmitter, NEW e \in Emitters,
         em[e].pc = "insert",
         rows' = rows \cup {[num |-> em[e].num, type |-> em[e].type, by |-> e]},
         UNCHANGED published,
         NEW pc \in {"publish", "raised"}, em' = [em EXCEPT ![e].pc = pc]
  PROVE  LogInOrder'
<1>1. em \in [Emitters -> [pc : EmitPcs, type : StepTypes, sse : SseTypes, num : Nat]]
  BY DEF LogInv, LogTypeOK
<1>2. StepNumbers' = StepNumbers \cup {em[e].num}
  <2> DEFINE row == [num |-> em[e].num, type |-> em[e].type, by |-> e]
  <2>1. rows' = rows \cup {row} /\ row.num = em[e].num
    OBVIOUS
  <2> HIDE DEF row
  <2> QED BY <2>1 DEF StepNumbers
<1>3. \A f \in Emitters : f # e => em'[f].pc = "idle"
  BY <1>1 DEF OneEmitter
<1>4. em'[e].pc = pc /\ em'[e].num = em[e].num /\ em[e].num \in Nat
  BY <1>1
<1>5. \A n \in StepNumbers : n < em[e].num
  BY DEF LogInOrder
<1>6. StepNumbers \subseteq Nat
  BY DEF StepNumbers, LogInv, LogTypeOK
<1>7. \A i \in 1..Len(published) : published[i].id \in StepNumbers
  BY DEF LogInv, PublishedArePersisted, StepNumbers
<1>8. \A n \in StepNumbers' : n <= em'[e].num
  BY <1>2, <1>4, <1>5, <1>6
<1>9. \A i \in 1..Len(published') : published'[i].id < em'[e].num
  BY <1>4, <1>5, <1>7
<1> QED BY <1>3, <1>4, <1>8, <1>9 DEF LogInOrder

LEMMA SendInOrder ==
  ASSUME LogInv, LogInOrder, OneEmitter, NEW e \in Emitters,
         em[e].pc = "publish",
         published' = Append(published, Message(e)),
         UNCHANGED rows,
         NEW pc \in {"sent", "raised"}, em' = [em EXCEPT ![e].pc = pc]
  PROVE  LogInOrder'
<1> DEFINE S == [id : Nat, sse : SseTypes, by : Emitters]
<1>1. em \in [Emitters -> [pc : EmitPcs, type : StepTypes, sse : SseTypes, num : Nat]]
  BY DEF LogInv, LogTypeOK
<1>2. \A f \in Emitters : em'[f].pc \notin {"insert", "publish"}
  BY <1>1 DEF OneEmitter
<1>3. published \in Seq(S)
  BY DEF LogInv, LogTypeOK
<1> HIDE DEF S
<1>4. /\ Len(published) \in Nat /\ Len(published') = Len(published) + 1
      /\ \A i \in 1..Len(published) : published'[i] = published[i]
      /\ published'[Len(published) + 1] = Message(e)
  BY <1>3
<1>5. \A i \in 1..Len(published) : published[i].id < em[e].num
  BY DEF LogInOrder
<1>6. ASSUME NEW i \in 1..Len(published'), NEW j \in 1..Len(published'), i < j
      PROVE  published'[i].id < published'[j].id
  <2>1. i \in 1..Len(published)
    BY <1>4, <1>6
  <2>2. CASE j \in 1..Len(published)
    BY <1>4, <1>6, <2>1, <2>2 DEF LogInOrder
  <2>3. CASE j = Len(published) + 1
    <3>1. published'[j].id = em[e].num
      BY <1>4, <2>3 DEF Message
    <3> QED BY <1>4, <1>5, <2>1, <3>1
  <2> QED BY <1>4, <2>2, <2>3
<1> QED BY <1>2, <1>6 DEF LogInOrder

LEMMA LogInOrderStep ==
  ASSUME LogInv, LogInOrder, OneEmitter, [LogNext]_logVars
  PROVE  LogInOrder'
<1>0. em \in [Emitters -> [pc : EmitPcs, type : StepTypes, sse : SseTypes, num : Nat]]
  BY DEF LogInv, LogTypeOK
<1>1. ASSUME UNCHANGED <<rows, published>>,
             \A e \in Emitters : em'[e] = em[e] \/ em'[e].pc \notin {"insert", "publish"}
      PROVE  LogInOrder'
  BY <1>1 DEF LogInOrder, StepNumbers
<1>2. ASSUME NEW e \in Emitters, NEW type \in StepTypes, NEW sse \in SseTypes,
             EmitCall(e, type, sse)
      PROVE  LogInOrder'
  BY <1>0, <1>1, <1>2 DEF EmitCall
<1>3. ASSUME NEW e \in Emitters, SelectNumber(e)
      PROVE  LogInOrder'
  <2>1. PICK N \in Nat : StepNumbers = 1..N
    BY DEF LogInv, Contiguous
  <2>2. NextNumber = N + 1
    BY <2>1, NextNumberValue
  <2>3. em'[e].pc = "insert" /\ em'[e].num = N + 1 /\ UNCHANGED <<rows, published>>
    BY <1>0, <1>3, <2>2 DEF SelectNumber
  <2>4. \A f \in Emitters : f # e => em'[f] = em[f]
    BY <1>0, <1>3 DEF SelectNumber
  <2>5. \A n \in StepNumbers : n < em'[e].num
    BY <2>1, <2>3
  <2> QED BY <2>3, <2>4, <2>5 DEF LogInOrder, StepNumbers
<1>4. ASSUME NEW e \in Emitters, InsertStep(e)
      PROVE  LogInOrder'
  BY <1>4, InsertInOrder DEF InsertStep
<1>5. ASSUME NEW e \in Emitters, Publish(e)
      PROVE  LogInOrder'
  BY <1>5, SendInOrder DEF Publish
<1>6. ASSUME NEW e \in Emitters, StoreFails(e)
      PROVE  LogInOrder'
  <2>1. CASE UNCHANGED rows
    BY <1>0, <1>1, <1>6, <2>1 DEF StoreFails
  <2>2. CASE ~ UNCHANGED rows
    BY <1>6, <2>2, InsertInOrder DEF StoreFails
  <2> QED BY <2>1, <2>2
<1>7. ASSUME NEW e \in Emitters, PublishFails(e)
      PROVE  LogInOrder'
  <2>1. CASE UNCHANGED published
    BY <1>0, <1>1, <1>7, <2>1 DEF PublishFails
  <2>2. CASE ~ UNCHANGED published
    BY <1>7, <2>2, SendInOrder DEF PublishFails
  <2> QED BY <2>1, <2>2
<1>8. ASSUME NEW e \in Emitters, InsertConflict(e) \/ EmitReturn(e) \/ EmitterDies(e)
      PROVE  LogInOrder'
  BY <1>0, <1>1, <1>8 DEF InsertConflict, EmitReturn, EmitterDies, Idle
<1>9. CASE UNCHANGED logVars
  BY <1>1, <1>9 DEF logVars
<1> QED
  BY <1>2, <1>3, <1>4, <1>5, <1>6, <1>7, <1>8, <1>9 DEF LogNext, EmitStep, EmitProgress

(* While nobody cancels and no run is delivered beside another, the channel *)
(* carries the events of a task strictly in the order of their steps, those *)
(* of a run that follows a failed one included.                             *)
THEOREM AnnouncedInStepOrder ==
  ASSUME Undisturbed
  PROVE  Spec => []LogInOrder
<1>1. Spec => [](OneRun /\ OneEmitter)
  BY OneAtATime
<1>2. Spec => []LogInv
  BY TaskImplementsStepLog, LogInvariant, PTL
<1>3. LogInv /\ LogInOrder /\ OneRun /\ OneEmitter /\ [Next]_vars => LogInOrder'
  BY TaskStepIsLogStep, LogInOrderStep
<1> QED BY <1>1, <1>2, <1>3, LogInOrderInit, PTL DEF Spec

-----------------------------------------------------------------------------
(* A client receives the steps in order *)

(* The client's last step is the highest it has, and what waits for it on   *)
(* the channel is not below that.                                           *)
ClientInOrder ==
  /\ ReceivedInOrder
  /\ \A i \in 1..Len(received) : received[i].id <= lastId
  /\ stream = "live" =>
       \A k \in (position + 1)..Len(published) : published[k].id >= lastId

LEMMA ClientInOrderInit == StreamInit => ClientInOrder
BY DEF StreamInit, ClientInOrder, ReceivedInOrder

(* A step not below the last one leaves the client in order. *)
LEMMA SendKeepsOrder ==
  ASSUME LogInv, StreamInv, ClientInOrder, UNCHANGED rows,
         NEW id \in StepNumbers, NEW sse \in SseTypes, Send(id, sse), id >= lastId
  PROVE  /\ ReceivedInOrder'
         /\ \A i \in 1..Len(received') : received'[i].id <= lastId'
<1>1. /\ Len(received) \in Nat /\ Len(received') = Len(received) + 1
      /\ \A i \in 1..Len(received) : received'[i] = received[i]
      /\ received'[Len(received) + 1].id = id
  BY SendTyped
<1>2. StepNumbers \subseteq Nat
  BY DEF StepNumbers, LogInv, LogTypeOK
<1>3. lastId \in Nat /\ id \in Nat /\ lastId' = id
  BY <1>2 DEF StreamInv, StreamTypeOK, Send
<1>4. ASSUME NEW i \in 1..Len(received) PROVE received[i].id \in Nat /\ received[i].id <= id
  <2> DEFINE S == [id : StepNumbers, sse : SseTypes]
  <2>1. received[i] \in S
    <3>1. received \in Seq(S)
      BY DEF StreamInv, StreamTypeOK
    <3> HIDE DEF S
    <3> QED BY <3>1, ElementOfSeq
  <2>2. received[i].id <= lastId
    BY DEF ClientInOrder
  <2>3. received[i].id \in Nat
    BY <1>2, <2>1
  <2> QED BY <1>3, <2>2, <2>3
<1>5. \A i \in 1..Len(received') : received'[i].id <= lastId'
  BY <1>1, <1>3, <1>4
<1>6. ASSUME NEW i \in 1..Len(received'), NEW j \in 1..Len(received'), i < j
      PROVE  received'[i].id <= received'[j].id
  BY <1>1, <1>3, <1>4, <1>6 DEF ClientInOrder, ReceivedInOrder
<1> QED BY <1>5, <1>6 DEF ReceivedInOrder

LEMMA ClientInOrderStep ==
  ASSUME LogInv, StreamInv, LogInOrder, ClientInOrder, [StreamNext]_<<vars, streamVars>>
  PROVE  ClientInOrder'
<1>1. CASE [Next]_vars /\ UNCHANGED streamVars
  <2>1. [LogNext]_logVars
    BY <1>1, TaskStepIsLogStep
  <2>2. ASSUME stream = "live", NEW k \in (position + 1)..Len(published')
        PROVE  published'[k].id >= lastId
    <3>1. /\ Len(published) \in Nat /\ Len(published') \in Nat
          /\ \A i \in 1..Len(published) : published'[i] = published[i]
      BY <2>1, PublishedGrows DEF LogInv
    <3>2. position \in 0..Len(published) /\ k \in Nat /\ k >= 1
      BY <3>1 DEF StreamInv, StreamTypeOK
    <3>3. CASE k <= Len(published)
      BY <2>2, <3>1, <3>2, <3>3 DEF ClientInOrder
    <3>4. CASE k > Len(published)
      <4>0. \/ published' = published
            \/ \E e \in Emitters : em[e].pc = "publish" /\ published' = Append(published, Message(e))
        BY <2>1
           DEF LogNext, logVars, EmitStep, EmitProgress, EmitCall, SelectNumber, InsertStep,
               InsertConflict, Publish, StoreFails, PublishFails, EmitReturn, EmitterDies
      <4>1. PICK e \in Emitters : em[e].pc = "publish" /\ published' = Append(published, Message(e))
        BY <2>2, <3>1, <3>2, <3>4, <4>0
      <4>2. published'[k].id = em[e].num
        <5> DEFINE S == [id : Nat, sse : SseTypes, by : Emitters]
        <5>1. published \in Seq(S)
          BY DEF LogInv, LogTypeOK
        <5> HIDE DEF S
        <5>2. Len(published') = Len(published) + 1
              /\ published'[Len(published) + 1] = Message(e)
          BY <4>1, <5>1
        <5>3. k = Len(published) + 1
          BY <2>2, <3>1, <3>2, <3>4, <5>2
        <5> QED BY <5>2, <5>3 DEF Message
      <4>3. lastId <= em[e].num
        <5>1. em[e].num \in Nat
          BY DEF LogInv, LogTypeOK
        <5> QED BY <4>1, <5>1 DEF LogInOrder, StreamInv, StreamTypeOK
      <4>4. lastId \in Nat /\ em[e].num \in Nat
        BY DEF StreamInv, StreamTypeOK, StepNumbers, LogInv, LogTypeOK
      <4> QED BY <4>2, <4>3, <4>4
    <3> QED BY <3>1, <3>2, <3>3, <3>4
  <2> QED BY <1>1, <2>2 DEF ClientInOrder, ReceivedInOrder, streamVars
<1>2. CASE UNCHANGED vars /\ (Connect \/ ReadBacklog \/ BacklogSent \/ CheckStatus \/ Disconnect)
  BY <1>2 DEF Connect, ReadBacklog, BacklogSent, CheckStatus, Disconnect, ClientInOrder,
              ReceivedInOrder
<1>3. CASE UNCHANGED vars /\ Subscribe
  <2>1. Len(published) \in Nat /\ UNCHANGED published
    BY <1>3 DEF LogInv, LogTypeOK, vars, logVars
  <2> QED BY <1>3, <2>1 DEF Subscribe, ClientInOrder, ReceivedInOrder
<1>4. CASE UNCHANGED vars /\ SendBacklog
  <2>1. Head(backlog).num \in StepNumbers /\ Head(backlog).num = lastId + 1
    BY <1>4, ReplayStep
  <2>2. SseTypeOf(Head(backlog).type) \in SseTypes
    <3>1. Head(backlog) \in rows
      BY <1>4 DEF StreamInv, StreamTypeOK, SendBacklog
    <3> QED BY <3>1 DEF LogInv, LogTypeOK, SseTypeOf, StepTypes, SseTypes
  <2>3. Head(backlog).num >= lastId
    BY <2>1 DEF StreamInv, StreamTypeOK, StepNumbers, LogInv, LogTypeOK
  <2>4. UNCHANGED rows /\ Send(Head(backlog).num, SseTypeOf(Head(backlog).type)) /\ stream' # "live"
    BY <1>4 DEF vars, logVars, SendBacklog
  <2> QED BY <2>1, <2>2, <2>3, <2>4, SendKeepsOrder DEF ClientInOrder
<1>5. CASE UNCHANGED vars /\ SendLive
  <2> DEFINE event == published[position + 1]
  <2>1. /\ position + 1 \in 1..Len(published) /\ event.id \in StepNumbers
        /\ Send(event.id, event.sse) /\ UNCHANGED <<rows, published>>
    BY <1>5, LiveStep DEF vars, logVars
  <2>2. Len(published) \in Nat /\ position \in Nat
    BY DEF LogInv, LogTypeOK, StreamInv, StreamTypeOK
  <2>3. event.id >= lastId
    BY <1>5, <2>1, <2>2 DEF ClientInOrder, SendLive
  <2>4. event.sse \in SseTypes
    <3> DEFINE S == [id : Nat, sse : SseTypes, by : Emitters]
    <3>1. event \in S
      <4>1. published \in Seq(S)
        BY DEF LogInv, LogTypeOK
      <4> HIDE DEF S
      <4> QED BY <2>1, <4>1, ElementOfSeq
    <3> QED BY <3>1
  <2>5. \A k \in (position' + 1)..Len(published) : published[k].id >= lastId'
    <3>1. lastId' = event.id /\ position' = position + 1
      BY <1>5, <2>1 DEF Send, SendLive
    <3>2. ASSUME NEW k \in (position + 2)..Len(published)
          PROVE  published[k].id >= event.id
      <4>1. k \in 1..Len(published) /\ position + 1 < k
        BY <2>2, <3>2
      <4>2. event.id < published[k].id
        BY <2>1, <4>1 DEF LogInOrder
      <4>3. StepNumbers \subseteq Nat
        BY DEF StepNumbers, LogInv, LogTypeOK
      <4>4. published[k].id \in StepNumbers
        BY <4>1 DEF StepNumbers, LogInv, PublishedArePersisted
      <4>5. event.id \in Nat /\ published[k].id \in Nat
        BY <2>1, <4>3, <4>4
      <4> HIDE DEF event
      <4> QED BY <4>2, <4>5
    <3> QED BY <2>2, <3>1, <3>2
  <2> QED BY <2>1, <2>3, <2>4, <2>5, SendKeepsOrder DEF ClientInOrder
<1>6. CASE UNCHANGED <<vars, streamVars>>
  BY <1>6, <1>1
<1> QED BY <1>1, <1>2, <1>3, <1>4, <1>5, <1>6 DEF StreamNext, ServerStep

(* While nobody cancels and no run is delivered beside another, a client    *)
(* never receives a step after a later one, however often it reconnects and *)
(* whatever else fails: the runs may crash and follow each other, and the   *)
(* stores may lose answers.                                                 *)
THEOREM ReceivesInOrder ==
  ASSUME Undisturbed
  PROVE  StreamSpec => []ReceivedInOrder
<1>1. StreamSpec => []LogInv
  BY StreamFollowsTask, TaskImplementsStepLog, LogInvariant, PTL
<1>2. StreamSpec => []LogInOrder
  BY StreamFollowsTask, AnnouncedInStepOrder, PTL
<1>3. LogInv /\ StreamInv /\ LogInOrder /\ ClientInOrder /\ [StreamNext]_<<vars, streamVars>>
        => ClientInOrder'
  BY ClientInOrderStep
<1>4. StreamSpec => []ClientInOrder
  BY <1>1, <1>2, <1>3, StreamInvariant, ClientInOrderInit, PTL DEF StreamSpec
<1>5. ClientInOrder => ReceivedInOrder
  BY DEF ClientInOrder
<1> QED BY <1>4, <1>5, PTL
=============================================================================
