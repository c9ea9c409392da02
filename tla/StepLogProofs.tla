---------------------------- MODULE StepLogProofs ----------------------------
(***************************************************************************)
(* For every set of emitters and every set of faults, the step log stays   *)
(* numbered 1..n without duplicates, publishes only what is persisted, and *)
(* publishes no number twice.                                              *)
(***************************************************************************)
EXTENDS StepLog, TLAPS

(* The table holds exactly the numbers up to some n. *)
Contiguous == \E n \in Nat : StepNumbers = 1..n

(* A number read by the select is at most one past the table when the      *)
(* insert runs, and above every number its emitter already holds.          *)
PendingNumber ==
  \A e \in Emitters : em[e].pc = "insert" =>
    /\ em[e].num >= 1
    /\ 1..(em[e].num - 1) \subseteq StepNumbers
    /\ \A row \in rows : row.by = e => row.num < em[e].num

(* A committed step not yet published is newer than what its emitter has   *)
(* published.                                                              *)
PendingEvent ==
  \A e \in Emitters : em[e].pc = "publish" =>
    /\ \E row \in rows : row.num = em[e].num /\ row.by = e
    /\ \A i \in 1..Len(published) : published[i].by = e => published[i].id < em[e].num

LogInv ==
  /\ LogTypeOK
  /\ Contiguous
  /\ PendingNumber
  /\ PendingEvent
  /\ UniqueNumbers
  /\ PublishedArePersisted
  /\ PublishedOnceInOrder

-----------------------------------------------------------------------------
(* The maximum of 0 and the numbers 1..n is n. *)
LEMMA MaxOfInterval ==
  ASSUME NEW n \in Nat
  PROVE  Max({0} \cup (1..n)) = n
<1> DEFINE S == {0} \cup (1..n)
<1>1. n \in S /\ \A y \in S : n >= y
  OBVIOUS
<1>2. \A x \in S : (\A y \in S : x >= y) => x = n
  BY <1>1
<1>3. QED
  BY <1>1, <1>2 DEF Max

(* The number the select returns, in a table numbered 1..n. *)
LEMMA NextNumberValue ==
  ASSUME NEW n \in Nat, StepNumbers = 1..n
  PROVE  NextNumber = n + 1
BY MaxOfInterval DEF NextNumber

-----------------------------------------------------------------------------
(* The invariant holds of an empty log. *)
LEMMA LogInitInv == LogInit => LogInv
<1> SUFFICES ASSUME LogInit PROVE LogInv
  OBVIOUS
<1> USE DEF LogInit
<1>1. Idle \in [pc : EmitPcs, type : StepTypes, sse : SseTypes, num : Nat]
  BY DEF Idle, EmitPcs, StepTypes, SseTypes, SseTypeOf
<1>2. LogTypeOK
  BY <1>1 DEF LogTypeOK
<1>3. Contiguous
  <2>1. StepNumbers = {} /\ 1..0 = {}
    BY DEF StepNumbers
  <2> QED BY <2>1 DEF Contiguous
<1>4. PendingNumber /\ PendingEvent
  BY DEF PendingNumber, PendingEvent, Idle
<1>5. UniqueNumbers /\ PublishedArePersisted /\ PublishedOnceInOrder
  BY DEF UniqueNumbers, PublishedArePersisted, PublishedOnceInOrder
<1> QED BY <1>2, <1>3, <1>4, <1>5 DEF LogInv

(* Steps that touch only the calls in progress, and start no statement     *)
(* that depends on the table, preserve the invariant.                      *)
LEMMA CallOnly ==
  ASSUME LogInv, UNCHANGED <<rows, published>>,
         em' \in [Emitters -> [pc : EmitPcs, type : StepTypes, sse : SseTypes, num : Nat]],
         \A e \in Emitters : em'[e] = em[e] \/ em'[e].pc \notin {"insert", "publish"}
  PROVE  LogInv'
<1> USE DEF LogInv
<1>1. LogTypeOK'
  BY DEF LogTypeOK
<1>2. Contiguous'
  BY DEF Contiguous, StepNumbers
<1>3. PendingNumber'
  BY DEF PendingNumber, StepNumbers
<1>4. PendingEvent'
  BY DEF PendingEvent
<1>5. UniqueNumbers' /\ PublishedArePersisted' /\ PublishedOnceInOrder'
  BY DEF UniqueNumbers, PublishedArePersisted, PublishedOnceInOrder
<1> QED BY <1>1, <1>2, <1>3, <1>4, <1>5

(* Reading the next number keeps the invariant. *)
LEMMA SelectInv ==
  ASSUME LogInv, NEW e \in Emitters, SelectNumber(e)
  PROVE  LogInv'
<1> USE DEF LogInv, SelectNumber
<1>1. PICK n \in Nat : StepNumbers = 1..n
  BY DEF Contiguous
<1>2. NextNumber = n + 1
  BY <1>1, NextNumberValue
<1>3. LogTypeOK'
  <2>1. em[e] \in [pc : EmitPcs, type : StepTypes, sse : SseTypes, num : Nat]
    BY DEF LogTypeOK
  <2>2. "insert" \in EmitPcs /\ NextNumber \in Nat
    BY <1>2 DEF EmitPcs
  <2>3. [em[e] EXCEPT !.pc = "insert", !.num = NextNumber]
          \in [pc : EmitPcs, type : StepTypes, sse : SseTypes, num : Nat]
    BY <2>1, <2>2
  <2> QED BY <2>3 DEF LogTypeOK
<1>4. Contiguous'
  BY DEF Contiguous, StepNumbers
<1>5. PendingNumber'
  <2>1. ASSUME NEW f \in Emitters, em'[f].pc = "insert", f # e
        PROVE  /\ em'[f].num >= 1
               /\ 1..(em'[f].num - 1) \subseteq StepNumbers'
               /\ \A row \in rows' : row.by = f => row.num < em'[f].num
    BY <2>1 DEF LogTypeOK, PendingNumber, StepNumbers
  <2>2. em'[e].num = n + 1
    BY <1>2 DEF LogTypeOK
  <2>3. \A row \in rows : row.num \in 1..n
    BY <1>1 DEF StepNumbers
  <2>4. StepNumbers' = 1..n
    BY <1>1 DEF StepNumbers
  <2>5. /\ em'[e].num >= 1
        /\ 1..(em'[e].num - 1) \subseteq StepNumbers'
        /\ \A row \in rows' : row.by = e => row.num < em'[e].num
    BY <2>2, <2>3, <2>4
  <2> QED BY <2>1, <2>5 DEF PendingNumber
<1>6. PendingEvent'
  BY DEF PendingEvent, LogTypeOK
<1>7. UniqueNumbers' /\ PublishedArePersisted' /\ PublishedOnceInOrder'
  BY DEF UniqueNumbers, PublishedArePersisted, PublishedOnceInOrder
<1> QED BY <1>3, <1>4, <1>5, <1>6, <1>7

(* Inserting under a free number, whether the call then goes on to publish *)
(* or has lost the answer to its commit, keeps the invariant.              *)
LEMMA InsertInv ==
  ASSUME LogInv, NEW e \in Emitters,
         em[e].pc = "insert", ~ NumberTaken(em[e].num),
         rows' = rows \cup {[num |-> em[e].num, type |-> em[e].type, by |-> e]},
         NEW pc \in {"publish", "raised"},
         em' = [em EXCEPT ![e].pc = pc],
         UNCHANGED published
  PROVE  LogInv'
<1> DEFINE new == [num |-> em[e].num, type |-> em[e].type, by |-> e]
<1> USE DEF LogInv
<1>1. PICK n \in Nat : StepNumbers = 1..n
  BY DEF Contiguous
<1>2. /\ em[e].num \in Nat /\ em[e].num >= 1
      /\ 1..(em[e].num - 1) \subseteq 1..n
      /\ em[e].num \notin 1..n
  BY <1>1 DEF PendingNumber, NumberTaken, LogTypeOK
<1>3. em[e].num = n + 1
  <2>1. em[e].num > n
    BY <1>2
  <2>2. CASE em[e].num > n + 1
    <3>1. n + 1 \in 1..(em[e].num - 1)
      BY <2>2, <1>2
    <3> QED BY <3>1, <1>2
  <2> QED BY <2>1, <2>2, <1>2
<1>4. StepNumbers' = 1..(n + 1)
  <2>1. \A m : m \in StepNumbers' <=> m \in StepNumbers \/ m = new.num
    BY DEF StepNumbers
  <2>2. new.num = n + 1
    BY <1>3
  <2>3. StepNumbers' = (1..n) \cup {n + 1}
    BY <2>1, <2>2, <1>1
  <2>4. (1..n) \cup {n + 1} = 1..(n + 1)
    OBVIOUS
  <2> QED BY <2>3, <2>4
<1>5. \A f \in Emitters : f # e => em'[f] = em[f]
  BY DEF LogTypeOK
<1>6. em'[e].pc = pc /\ em'[e].num = n + 1
  BY <1>3 DEF LogTypeOK
<1>7. \A row \in rows : row.num \in 1..n
  BY <1>1 DEF StepNumbers
<1>8. LogTypeOK'
  <2>1. new \in [num : Nat, type : StepTypes, by : Emitters]
    BY DEF LogTypeOK
  <2>2. em'[e] \in [pc : EmitPcs, type : StepTypes, sse : SseTypes, num : Nat]
    BY DEF LogTypeOK, EmitPcs
  <2> QED BY <2>1, <2>2 DEF LogTypeOK
<1>9. Contiguous'
  BY <1>4 DEF Contiguous
<1>10. PendingNumber'
  <2>1. ASSUME NEW f \in Emitters, em'[f].pc = "insert"
        PROVE  /\ em'[f].num >= 1
               /\ 1..(em'[f].num - 1) \subseteq StepNumbers'
               /\ \A row \in rows' : row.by = f => row.num < em'[f].num
    <3>1. f # e
      BY <2>1, <1>6
    <3>2. /\ em[f].pc = "insert" /\ em'[f] = em[f]
      BY <3>1, <2>1, <1>5
    <3>3. 1..(em[f].num - 1) \subseteq 1..n /\ 1..n \subseteq 1..(n + 1)
      BY <3>2, <1>1 DEF PendingNumber
    <3>4. \A row \in rows' : row.by = f => row \in rows
      BY <3>1
    <3> QED BY <3>2, <3>3, <3>4, <1>4 DEF PendingNumber
  <2> QED BY <2>1 DEF PendingNumber
<1>11. PendingEvent'
  <2>1. ASSUME NEW f \in Emitters, em'[f].pc = "publish", f # e
        PROVE  /\ \E row \in rows' : row.num = em'[f].num /\ row.by = f
               /\ \A i \in 1..Len(published') : published'[i].by = f => published'[i].id < em'[f].num
    BY <2>1, <1>5 DEF PendingEvent
  <2>2. \E row \in rows' : row.num = em'[e].num /\ row.by = e
    <3>1. new \in rows' /\ new.num = n + 1 /\ new.by = e
      BY <1>3
    <3> QED BY <3>1, <1>6
  <2>3. \A i \in 1..Len(published) : published[i].id < n + 1
    BY <1>7 DEF PublishedArePersisted
  <2> QED BY <2>1, <2>2, <2>3, <1>6 DEF PendingEvent
<1>12. UniqueNumbers'
  BY <1>3, <1>7 DEF UniqueNumbers
<1>13. PublishedArePersisted'
  BY DEF PublishedArePersisted
<1>14. PublishedOnceInOrder'
  BY DEF PublishedOnceInOrder
<1> QED BY <1>8, <1>9, <1>10, <1>11, <1>12, <1>13, <1>14

(* Sending the message of a committed step keeps the invariant. *)
LEMMA SendInv ==
  ASSUME LogInv, NEW e \in Emitters,
         em[e].pc = "publish",
         published' = Append(published, Message(e)),
         NEW pc \in {"sent", "raised"},
         em' = [em EXCEPT ![e].pc = pc],
         UNCHANGED rows
  PROVE  LogInv'
<1> USE DEF LogInv
<1> DEFINE k == Len(published) + 1
<1>1. /\ published \in Seq([id : Nat, sse : SseTypes, by : Emitters])
      /\ Message(e) \in [id : Nat, sse : SseTypes, by : Emitters]
  BY DEF LogTypeOK, Message
<1>2. /\ Len(published) \in Nat /\ Len(published') = k
      /\ published'[k] = Message(e)
      /\ \A i \in 1..Len(published) : published'[i] = published[i]
  <2> DEFINE S == [id : Nat, sse : SseTypes, by : Emitters]
  <2> HIDE DEF S
  <2>1. ASSUME NEW seq \in Seq(S), NEW x
        PROVE  /\ Len(seq) \in Nat /\ Len(Append(seq, x)) = Len(seq) + 1
               /\ Append(seq, x)[Len(seq) + 1] = x
               /\ \A i \in 1..Len(seq) : Append(seq, x)[i] = seq[i]
    OBVIOUS
  <2>2. published \in Seq(S)
    BY <1>1 DEF S
  <2> QED BY <2>1, <2>2
<1>3. \A i \in 1..Len(published) : published[i] \in [id : Nat, sse : SseTypes, by : Emitters]
  <2> DEFINE S == [id : Nat, sse : SseTypes, by : Emitters]
  <2> HIDE DEF S
  <2>1. ASSUME NEW seq \in Seq(S)
        PROVE  \A i \in 1..Len(seq) : seq[i] \in S
    OBVIOUS
  <2>2. published \in Seq(S)
    BY <1>1 DEF S
  <2> QED BY <2>1, <2>2 DEF S
<1>4. \A f \in Emitters : f # e => em'[f] = em[f]
  BY DEF LogTypeOK
<1>5. em'[e].pc \notin {"insert", "publish"}
  BY DEF LogTypeOK
<1>6. PICK own \in rows : own.num = em[e].num /\ own.by = e
  BY DEF PendingEvent
<1>7. LogTypeOK'
  <2>1. published' \in Seq([id : Nat, sse : SseTypes, by : Emitters])
    BY <1>1
  <2>2. em' \in [Emitters -> [pc : EmitPcs, type : StepTypes, sse : SseTypes, num : Nat]]
    BY DEF LogTypeOK, EmitPcs
  <2> QED BY <2>1, <2>2 DEF LogTypeOK
<1>8. Contiguous' /\ UniqueNumbers'
  BY DEF Contiguous, StepNumbers, UniqueNumbers
<1>9. PendingNumber'
  BY <1>4, <1>5 DEF PendingNumber, StepNumbers
<1>10. PendingEvent'
  <2>1. ASSUME NEW f \in Emitters, em'[f].pc = "publish"
        PROVE  /\ \E row \in rows' : row.num = em'[f].num /\ row.by = f
               /\ \A i \in 1..Len(published') : published'[i].by = f => published'[i].id < em'[f].num
    <3>1. f # e /\ em'[f] = em[f]
      BY <2>1, <1>4, <1>5
    <3>2. published'[k].by # f
      BY <3>1, <1>2 DEF Message
    <3> QED BY <2>1, <3>1, <3>2, <1>2 DEF PendingEvent
  <2> QED BY <2>1 DEF PendingEvent
<1>11. PublishedArePersisted'
  <2>1. \E row \in rows' : row.num = published'[k].id /\ row.by = published'[k].by
    BY <1>2, <1>6 DEF Message
  <2> QED BY <2>1, <1>2 DEF PublishedArePersisted
<1>12. PublishedOnceInOrder'
  <2>1. ASSUME NEW i \in 1..Len(published)
        PROVE  /\ published[i].id # em[e].num
               /\ published[i].by = e => published[i].id < em[e].num
    <3>1. PICK row \in rows : row.num = published[i].id /\ row.by = published[i].by
      BY DEF PublishedArePersisted
    <3>2. CASE published[i].by = e
      BY <3>2, <1>3 DEF PendingEvent, LogTypeOK
    <3>3. CASE published[i].by # e
      BY <3>1, <3>3, <1>6 DEF UniqueNumbers
    <3> QED BY <3>2, <3>3
  <2>2. \A i \in 1..Len(published') : i \in 1..Len(published) \/ i = k
    BY <1>2
  <2> SUFFICES ASSUME NEW i \in 1..Len(published'), NEW j \in 1..Len(published'), i < j
               PROVE  /\ published'[i].id # published'[j].id
                      /\ published'[i].by = published'[j].by => published'[i].id < published'[j].id
    BY DEF PublishedOnceInOrder
  <2>3. i \in 1..Len(published)
    BY <2>2, <1>2
  <2>4. CASE j = k
    BY <2>1, <2>3, <2>4, <1>2 DEF Message
  <2>5. CASE j \in 1..Len(published)
    BY <2>3, <2>5, <1>2 DEF PublishedOnceInOrder
  <2> QED BY <2>2, <2>4, <2>5
<1> QED BY <1>7, <1>8, <1>9, <1>10, <1>11, <1>12

(* Every step of the log keeps the invariant. *)
LEMMA LogStepInv == LogInv /\ [LogNext]_logVars => LogInv'
<1> SUFFICES ASSUME LogInv, [LogNext]_logVars PROVE LogInv'
  OBVIOUS
<1> DEFINE Calls == [pc : EmitPcs, type : StepTypes, sse : SseTypes, num : Nat]
<1>0. em \in [Emitters -> Calls] /\ Idle \in Calls
  BY DEF LogInv, LogTypeOK, Idle, EmitPcs, StepTypes, SseTypes, SseTypeOf
<1>1. ASSUME NEW e \in Emitters, NEW type \in StepTypes, NEW sse \in SseTypes,
             EmitCall(e, type, sse)
      PROVE  LogInv'
  BY <1>0, <1>1, CallOnly DEF EmitCall, EmitPcs
<1>2. ASSUME NEW e \in Emitters, SelectNumber(e)
      PROVE  LogInv'
  BY <1>2, SelectInv
<1>3. ASSUME NEW e \in Emitters, InsertStep(e)
      PROVE  LogInv'
  BY <1>3, InsertInv DEF InsertStep
<1>4. ASSUME NEW e \in Emitters, InsertConflict(e)
      PROVE  LogInv'
  BY <1>0, <1>4, CallOnly DEF InsertConflict, EmitPcs
<1>5. ASSUME NEW e \in Emitters, Publish(e)
      PROVE  LogInv'
  BY <1>5, SendInv DEF Publish
<1>6. ASSUME NEW e \in Emitters, StoreFails(e)
      PROVE  LogInv'
  <2>1. CASE UNCHANGED rows
    BY <1>0, <1>6, <2>1, CallOnly DEF StoreFails, EmitPcs
  <2>2. CASE ~ UNCHANGED rows
    BY <1>6, <2>2, InsertInv DEF StoreFails
  <2> QED BY <2>1, <2>2
<1>7. ASSUME NEW e \in Emitters, PublishFails(e)
      PROVE  LogInv'
  <2>1. CASE published' = published
    BY <1>0, <1>7, <2>1, CallOnly DEF PublishFails, EmitPcs
  <2>2. CASE published' = Append(published, Message(e))
    BY <1>7, <2>2, SendInv DEF PublishFails
  <2> QED BY <1>7, <2>1, <2>2 DEF PublishFails
<1>8. ASSUME NEW e \in Emitters, EmitReturn(e) \/ EmitterDies(e)
      PROVE  LogInv'
  <2>1. /\ UNCHANGED <<rows, published>>
        /\ em' = [em EXCEPT ![e] = Idle]
    BY <1>8 DEF EmitReturn, EmitterDies
  <2> QED BY <1>0, <2>1, CallOnly DEF Idle
<1>9. CASE UNCHANGED logVars
  BY <1>0, <1>9, CallOnly DEF logVars
<1> QED BY <1>1, <1>2, <1>3, <1>4, <1>5, <1>6, <1>7, <1>8, <1>9 DEF LogNext, EmitStep, EmitProgress

-----------------------------------------------------------------------------
(* The strengthened invariant holds in every reachable state. *)
THEOREM LogInvariant == LogSpec => []LogInv
BY LogInitInv, LogStepInv, PTL DEF LogSpec

(* The rows, messages and calls of a log keep their types. *)
THEOREM LogTyped == LogSpec => []LogTypeOK
<1>1. LogInv => LogTypeOK
  BY DEF LogInv
<1> QED BY <1>1, LogInvariant, PTL

(* Step numbers are gapless and unique, for any number of concurrent       *)
(* emitters and any failures of the store: replay misses no committed step *)
(* and the numbers a client acknowledges are unambiguous.                  *)
THEOREM StepsAreNumbered == LogSpec => []StepsNumbered
<1>1. LogInv => StepsNumbered
  <2> SUFFICES ASSUME LogInv PROVE StepsNumbered
    OBVIOUS
  <2>1. PICK n \in Nat : StepNumbers = 1..n
    BY DEF LogInv, Contiguous
  <2>2. GaplessNumbers
    BY <2>1 DEF GaplessNumbers
  <2> QED BY <2>2 DEF StepsNumbered, LogInv
<1> QED BY <1>1, LogInvariant, PTL

(* Nothing is announced before it is durable. *)
THEOREM AnnouncedAfterDurable == LogSpec => []PublishedArePersisted
<1>1. LogInv => PublishedArePersisted
  BY DEF LogInv
<1> QED BY <1>1, LogInvariant, PTL

(* Nothing is announced twice, and each emitter announces in order. *)
THEOREM AnnouncedOnceInOrder == LogSpec => []PublishedOnceInOrder
<1>1. LogInv => PublishedOnceInOrder
  BY DEF LogInv
<1> QED BY <1>1, LogInvariant, PTL

-----------------------------------------------------------------------------
(* The log implements the abstract sequence of steps *)

Steps == [n \in StepNumbers |-> TypeAt(n)]
AnnouncedIds == {published[i].id : i \in 1..Len(published)}

LEMMA TypeAtRow ==
  ASSUME UniqueNumbers, NEW row \in rows
  PROVE  TypeAt(row.num) = row.type
<1>1. \A q \in rows : q.num = row.num => q = row
  BY DEF UniqueNumbers
<1>2. (CHOOSE q \in rows : q.num = row.num) = row
  BY <1>1
<1> QED BY <1>2 DEF TypeAt

(* The types of a numbered table are a sequence of step types. *)
LEMMA StepsSequence ==
  ASSUME LogInv, NEW n \in Nat, StepNumbers = 1..n
  PROVE  Steps \in Seq(StepTypes) /\ Len(Steps) = n /\ DOMAIN Steps = 1..n
<1>1. ASSUME NEW m \in 1..n
      PROVE  TypeAt(m) \in StepTypes
  <2>1. PICK row \in rows : row.num = m
    BY DEF StepNumbers
  <2>2. TypeAt(m) = row.type
    BY <2>1, TypeAtRow DEF LogInv
  <2> QED BY <2>2 DEF LogInv, LogTypeOK
<1>2. Steps = [m \in 1..n |-> TypeAt(m)]
  BY DEF Steps
<1> HIDE DEF Steps
<1> QED BY <1>1, <1>2

(* The rows stay, so what is recorded does not change. *)
LEMMA TypesStay ==
  ASSUME LogInv, LogInv', rows \subseteq rows'
  PROVE  \A m \in StepNumbers : m \in StepNumbers' /\ TypeAt(m)' = TypeAt(m)
<1> TAKE m \in StepNumbers
<1>1. PICK row \in rows : row.num = m
  BY DEF StepNumbers
<1>2. TypeAt(m) = row.type
  BY <1>1, TypeAtRow DEF LogInv
<1>3. row \in rows'
  BY <1>1
<1>4. \A q \in rows' : q.num = m => q = row
  BY <1>1, <1>3 DEF LogInv, UniqueNumbers
<1>5. (CHOOSE q \in rows' : q.num = m) = row
  BY <1>1, <1>3, <1>4
<1>6. TypeAt(m)' = row.type
  BY <1>5 DEF TypeAt
<1>7. m \in StepNumbers'
  BY <1>1, <1>3 DEF StepNumbers
<1> QED BY <1>2, <1>6, <1>7

(* The insert records the step at the end of the sequence. *)
LEMMA InsertRecords ==
  ASSUME LogInv, LogInv', NEW e \in Emitters,
         em[e].pc = "insert", ~ NumberTaken(em[e].num),
         rows' = rows \cup {[num |-> em[e].num, type |-> em[e].type, by |-> e]},
         UNCHANGED published
  PROVE  Sequence!RecordStep(em[e].type) /\ em[e].type \in StepTypes
<1> DEFINE new == [num |-> em[e].num, type |-> em[e].type, by |-> e]
<1>0. em[e].type \in StepTypes
  BY DEF LogInv, LogTypeOK
<1>1. PICK n \in Nat : StepNumbers = 1..n
  BY DEF LogInv, Contiguous
<1>2. PICK m \in Nat : StepNumbers' = 1..m
  BY DEF LogInv, Contiguous
<1>3. StepNumbers' = (1..n) \cup {new.num} /\ new.num \notin 1..n
  BY <1>1 DEF StepNumbers, NumberTaken
<1>4. m = n + 1 /\ new.num = n + 1
  <2>1. new.num \in 1..m /\ 1..n \subseteq 1..m
    BY <1>2, <1>3
  <2>2. m \in 1..m
    BY <2>1
  <2>3. m > n
    BY <2>1, <1>3
  <2>4. \A k \in 1..m : k \in 1..n \/ k = new.num
    BY <1>2, <1>3
  <2>5. m = new.num
    BY <2>2, <2>3, <2>4
  <2>6. n + 1 \in 1..m
    BY <2>3
  <2>7. n + 1 = new.num
    BY <2>4, <2>6
  <2> QED BY <2>5, <2>7
<1>5. Steps \in Seq(StepTypes) /\ Len(Steps) = n
  BY <1>1, StepsSequence
<1>6. Steps' = [k \in 1..(n + 1) |-> TypeAt(k)']
  BY <1>2, <1>4 DEF Steps
<1>7. \A k \in 1..n : TypeAt(k)' = Steps[k]
  BY <1>1, TypesStay DEF Steps
<1>8. TypeAt(n + 1)' = em[e].type
  <2>1. new \in rows' /\ new.num = n + 1 /\ new.type = em[e].type
    BY <1>4
  <2>2. \A q \in rows' : q.num = n + 1 => q = new
    BY <2>1 DEF LogInv, UniqueNumbers
  <2>3. (CHOOSE q \in rows' : q.num = n + 1) = new
    BY <2>1, <2>2
  <2> QED BY <2>1, <2>3 DEF TypeAt
<1> HIDE DEF new
<1>9. Steps' = Append(Steps, em[e].type)
  BY <1>0, <1>5, <1>6, <1>7, <1>8
<1>10. AnnouncedIds' = AnnouncedIds
  BY DEF AnnouncedIds
<1> QED BY <1>0, <1>9, <1>10 DEF Sequence!RecordStep, Steps, AnnouncedIds

(* The publish announces a recorded step for the first time. *)
LEMMA SendAnnounces ==
  ASSUME LogInv, LogInv', NEW e \in Emitters,
         em[e].pc = "publish",
         published' = Append(published, Message(e)),
         UNCHANGED rows
  PROVE  em[e].num \in DOMAIN Steps /\ Sequence!AnnounceStep(em[e].num)
<1> DEFINE k == Len(published) + 1
<1>1. /\ published \in Seq([id : Nat, sse : SseTypes, by : Emitters])
      /\ Message(e) \in [id : Nat, sse : SseTypes, by : Emitters]
  BY DEF LogInv, LogTypeOK, Message
<1>2. /\ Len(published) \in Nat /\ Len(published') = k
      /\ published'[k].id = em[e].num
      /\ \A i \in 1..Len(published) : published'[i] = published[i]
  BY <1>1 DEF Message
<1>3. em[e].num \in StepNumbers
  BY DEF LogInv, PendingEvent, StepNumbers
<1>4. em[e].num \notin AnnouncedIds
  <2>1. \A i \in 1..Len(published) : published'[i].id # published'[k].id
    BY <1>2 DEF LogInv, PublishedOnceInOrder
  <2> QED BY <1>2, <2>1 DEF AnnouncedIds
<1>5. AnnouncedIds' = AnnouncedIds \cup {em[e].num}
  BY <1>2 DEF AnnouncedIds
<1>6. Steps' = Steps
  BY DEF Steps, StepNumbers, TypeAt
<1>7. em[e].num \in DOMAIN Steps
  BY <1>3 DEF Steps
<1> QED BY <1>4, <1>5, <1>6, <1>7 DEF Sequence!AnnounceStep, Steps, AnnouncedIds

LEMMA LogStepIsSequenceStep ==
  LogInv /\ LogInv' /\ [LogNext]_logVars => [Sequence!SeqNext]_(Sequence!seqVars)
<1> SUFFICES ASSUME LogInv, LogInv', [LogNext]_logVars
             PROVE  [Sequence!SeqNext]_(Sequence!seqVars)
  OBVIOUS
<1>1. ASSUME UNCHANGED <<rows, published>>
      PROVE  UNCHANGED Sequence!seqVars
  BY <1>1 DEF Sequence!seqVars, StepNumbers, TypeAt
<1>2. ASSUME NEW e \in Emitters, InsertStep(e) \/ StoreFails(e), ~ UNCHANGED rows
      PROVE  Sequence!SeqNext
  BY <1>2, InsertRecords DEF InsertStep, StoreFails, Sequence!SeqNext
<1>3. ASSUME NEW e \in Emitters, Publish(e) \/ PublishFails(e), ~ UNCHANGED published
      PROVE  Sequence!SeqNext
  <2>1. /\ em[e].pc = "publish"
        /\ published' = Append(published, Message(e))
        /\ UNCHANGED rows
    BY <1>3 DEF Publish, PublishFails
  <2>2. em[e].num \in DOMAIN Steps /\ Sequence!AnnounceStep(em[e].num)
    BY <2>1, SendAnnounces
  <2>3. em[e].num \in DOMAIN [n \in StepNumbers |-> TypeAt(n)]
    BY <2>2 DEF Steps
  <2> QED BY <2>2, <2>3 DEF Sequence!SeqNext, Sequence!AnnounceStep
<1>4. ASSUME NEW e \in Emitters, EmitStep(e)
      PROVE  [Sequence!SeqNext]_(Sequence!seqVars)
  BY <1>4, <1>1, <1>2, <1>3
     DEF EmitStep, EmitProgress, SelectNumber, InsertStep, InsertConflict, Publish,
         StoreFails, PublishFails
<1>5. ASSUME NEW e \in Emitters,
             (\E type \in StepTypes, sse \in SseTypes : EmitCall(e, type, sse))
               \/ EmitReturn(e) \/ EmitterDies(e)
      PROVE  UNCHANGED Sequence!seqVars
  BY <1>5, <1>1 DEF EmitCall, EmitReturn, EmitterDies
<1>6. CASE UNCHANGED logVars
  BY <1>6, <1>1 DEF logVars
<1> QED BY <1>4, <1>5, <1>6 DEF LogNext

(* For any number of emitters and any faults, the table and the channel are *)
(* the promised sequence: steps are only appended, and each is announced at *)
(* most once and after it was recorded.                                     *)
THEOREM LogImplementsSequence == LogSpec => ImplementsStepSequence
<1>1. LogInit => Sequence!SeqInit
  <2> SUFFICES ASSUME LogInit PROVE Sequence!SeqInit
    OBVIOUS
  <2>1. StepNumbers = {} /\ published = << >>
    BY DEF LogInit, StepNumbers
  <2>2. [n \in StepNumbers |-> TypeAt(n)] = << >>
    BY <2>1
  <2>3. {published[i].id : i \in 1..Len(published)} = {}
    BY <2>1
  <2> QED BY <2>2, <2>3 DEF Sequence!SeqInit
<1> QED BY <1>1, LogInvariant, LogStepIsSequenceStep, PTL
        DEF LogSpec, ImplementsStepSequence, Sequence!SeqSpec
=============================================================================
