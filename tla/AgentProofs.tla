------------------------------ MODULE AgentProofs ------------------------------
(***************************************************************************)
(* The agent loop and its memory, for every setting of the limits and      *)
(* every client request.                                                   *)
(*                                                                         *)
(* The loop: the recursion limit never cuts a run short, tools run only    *)
(* below the limits, and the loop and the failure count stay within their  *)
(* bounds.  The agent with its messages implements the loop alone, so all  *)
(* of this holds of it.  The memory: the list holds each message once, in  *)
(* order, every tool call is answered before the model is asked again, and *)
(* every recent result reaches the scratchpad, three times at most.        *)
(***************************************************************************)
EXTENDS AgentMessages, AscendingProofs


(* Where a run is fixes how many nodes it has executed: one for the plan,  *)
(* four per complete iteration.                                            *)
StepsAt ==
  /\ node = "plan"    => iteration = 0 /\ steps = 0
  /\ node = "think"   => steps = 4 * iteration + 1
  /\ node = "act"     => steps = 4 * iteration - 2
  /\ node = "observe" => steps = 4 * iteration - 1
  /\ node = "reflect" => steps = 4 * iteration

(* A run that is not at its report has an iteration left, except that the  *)
(* first thought is free.                                                  *)
RoomLeft ==
  /\ node = "think" => iteration = 0 \/ iteration < maxIter
  /\ node \in {"act", "observe", "reflect"} => iteration >= 1 /\ iteration < maxIter

(* The report is reached after a thought or after a reflection. *)
ReportAt(extra) ==
  /\ iteration >= 1
  /\ \/ steps = 4 * iteration - 2 + extra /\ (iteration = 1 \/ iteration <= maxIter)
     \/ steps = 4 * iteration + 1 + extra /\ iteration < maxIter

GraphInv ==
  /\ GraphTypeOK
  /\ StepsAt
  /\ RoomLeft
  /\ node = "report" => ReportAt(0)
  /\ node = "end" => ReportAt(1)
  /\ node = "act" => failures < MaxTotalFailures
  /\ FailuresBounded
  /\ LoopBounded
  /\ LimitNeverReached

(* A request is clamped to an integer no larger than the cap. *)
LEMMA EffectiveRequest ==
  ASSUME NEW requested \in Requested
  PROVE  Effective(requested) \in Int /\ Effective(requested) <= IterationsCap
BY GraphAssumption DEF Effective

LEMMA GraphInitInv == GraphInit => GraphInv
<1> SUFFICES ASSUME GraphInit PROVE GraphInv
  OBVIOUS
<1> USE GraphAssumption DEF GraphInit
<1>1. maxIter \in Int /\ maxIter <= IterationsCap
  BY EffectiveRequest
<1>2. GraphTypeOK
  BY <1>1 DEF GraphTypeOK, Nodes, Outcomes
<1>3. StepsAt /\ RoomLeft
  BY DEF StepsAt, RoomLeft
<1>4. FailuresBounded /\ LoopBounded /\ LimitNeverReached
  BY <1>1 DEF FailuresBounded, LoopBounded, LimitNeverReached
<1> QED BY <1>2, <1>3, <1>4 DEF GraphInv

LEMMA GraphStepInv == GraphInv /\ [GraphNext]_graphVars => GraphInv'
<1> SUFFICES ASSUME GraphInv, [GraphNext]_graphVars PROVE GraphInv'
  OBVIOUS
<1> USE GraphAssumption DEF GraphInv, GraphTypeOK, StepsAt, RoomLeft, ReportAt,
        FailuresBounded, LoopBounded, LimitNeverReached, Nodes, Outcomes, Execute
<1>1. CASE PlanNode
  BY <1>1 DEF PlanNode
<1>2. CASE ThinkNode
  BY <1>2 DEF ThinkNode, RouteAfterThink
<1>3. CASE ActNode
  BY <1>3 DEF ActNode
<1>4. CASE ObserveNode
  BY <1>4 DEF ObserveNode
<1>5. CASE ReflectNode
  BY <1>5 DEF ReflectNode, RouteAfterReflect
<1>6. CASE ReportNode
  BY <1>6 DEF ReportNode
<1>7. CASE NodeRaises
  BY <1>7 DEF NodeRaises
<1>8. CASE LimitReached
  <2>1. maxIter < -1
    BY <1>8 DEF LimitReached, RecursionLimit
  <2> QED BY <1>8, <2>1 DEF LimitReached
<1>9. CASE UNCHANGED graphVars
  BY <1>9 DEF graphVars
<1> QED BY <1>1, <1>2, <1>3, <1>4, <1>5, <1>6, <1>7, <1>8, <1>9 DEF GraphNext

THEOREM GraphInvariant == GraphSpec => []GraphInv
BY GraphInitInv, GraphStepInv, PTL DEF GraphSpec

(* The state of the graph keeps its types, for every request and setting. *)
THEOREM GraphTyped == GraphSpec => []GraphTypeOK
<1>1. GraphInv => GraphTypeOK
  BY DEF GraphInv
<1> QED BY <1>1, GraphInvariant, PTL

(* recursion_limit = 4 * max_iterations + 10 is enough for every path of    *)
(* every run whose max_iterations is at least -1.                           *)
THEOREM RecursionLimitSuffices == GraphSpec => []LimitNeverReached
<1>1. GraphInv => LimitNeverReached
  BY DEF GraphInv
<1> QED BY <1>1, GraphInvariant, PTL

(* Tools run only while both limits leave room, and the iteration limit of  *)
(* route_after_reflect never decides.                                       *)
THEOREM ToolsBelowLimits == GraphSpec => []WorkBelowLimits
<1>1. GraphInv => WorkBelowLimits
  BY DEF GraphInv, WorkBelowLimits, RoomLeft
<1> QED BY <1>1, GraphInvariant, PTL

(* The failure count overshoots by less than the calls of one answer. *)
THEOREM FailureCountBounded == GraphSpec => []FailuresBounded
<1>1. GraphInv => FailuresBounded
  BY DEF GraphInv
<1> QED BY <1>1, GraphInvariant, PTL

(* The number of thoughts and of executed nodes is bounded by the request. *)
THEOREM IterationsBounded == GraphSpec => []LoopBounded
<1>1. GraphInv => LoopBounded
  BY DEF GraphInv
<1> QED BY <1>1, GraphInvariant, PTL

-----------------------------------------------------------------------------
(* The memory steers nothing: no size of the list, no summary and no tool  *)
(* answer changes which node runs next.                                    *)

LEMMA AgentStepsAreGraphSteps ==
  [AgentNext]_agentVars => [GraphNext]_graphVars
<1> SUFFICES ASSUME [AgentNext]_agentVars PROVE [GraphNext]_graphVars
  OBVIOUS
<1>1. CASE Plan \/ Think
  BY <1>1 DEF Plan, Think, GraphNext
<1>2. CASE Act \/ Observe \/ Reflect
  BY <1>2 DEF Act, Observe, Reflect, GraphNext
<1>3. CASE Report \/ Stop
  BY <1>3 DEF Report, Stop, GraphNext
<1>4. CASE UNCHANGED agentVars
  BY <1>4 DEF agentVars, graphVars
<1> QED BY <1>1, <1>2, <1>3, <1>4 DEF AgentNext

(* Every behaviour of the agent with its memory is one of the loop. *)
THEOREM AgentImplementsGraph == AgentSpec => GraphSpec
<1>1. AgentInit => GraphInit
  BY DEF AgentInit
<1> QED BY <1>1, AgentStepsAreGraphSteps, PTL DEF AgentSpec, GraphSpec

(* The agent runs tools only below its limits, its counters are bounded,    *)
(* and LangGraph's limit never ends it.                                     *)
THEOREM AgentStaysWithinLimits ==
  AgentSpec => [](LimitNeverReached /\ WorkBelowLimits /\ FailuresBounded /\ LoopBounded)
BY AgentImplementsGraph, RecursionLimitSuffices, ToolsBelowLimits, FailureCountBounded,
   IterationsBounded, PTL

-----------------------------------------------------------------------------
(* The reducer *)

(* A list that holds message i at position i. *)
InOrder(list) == list \in Seq(Message) /\ \A i \in 1..Len(list) : list[i].id = i

(* Messages with new ids are appended. *)
LEMMA AddsNewMessages ==
  ASSUME NEW left, InOrder(left), NEW right \in Seq(Message),
         \A n \in 1..Len(right) : right[n].id = Len(left) + n
  PROVE  AddMessages(left, right) = left \o right
<1> DEFINE all == 1..Len(right)
           unknown == {n \in DOMAIN right : \A i \in DOMAIN left : left[i].id # right[n].id}
           g == [n \in all |-> n]
<1>0. Len(left) \in Nat /\ DOMAIN left = 1..Len(left) /\ DOMAIN right = all
  BY DEF InOrder
<1>1. unknown = all
  <2>1. ASSUME NEW n \in all, NEW i \in DOMAIN left PROVE left[i].id # right[n].id
    BY <1>0 DEF InOrder
  <2> QED BY <1>0, <2>1
<1>2. IsFiniteSet(all) /\ Cardinality(all) = Len(right) /\ Ascending(all) = g
  <2>1. g \in [1..Len(right) -> all] /\ all \in SUBSET Int /\ Len(right) \in Nat
    OBVIOUS
  <2>2. \A i, j \in 1..Len(right) : i < j => g[i] < g[j]
    OBVIOUS
  <2>3. \A x \in all : \E i \in 1..Len(right) : g[i] = x
    OBVIOUS
  <2> HIDE DEF g, all
  <2> QED BY <2>1, <2>2, <2>3, AscendingIs
<1>3. Select(right, all) = right
  BY <1>2 DEF Select
<1> QED BY <1>1, <1>3 DEF AddMessages

(* Of a summarised list, the summary and the answer are new; the recent    *)
(* messages between them are known and stay where they are.                *)
LEMMA AddsSummaryAndAnswer ==
  ASSUME NEW left, InOrder(left),
         NEW summary \in Message, summary.id = Len(left) + 1,
         NEW answer \in Message, answer.id = Len(left) + 2
  PROVE  AddMessages(left, Append(Summarize(left, summary), answer))
           = left \o <<summary, answer>>
<1> DEFINE half == Len(left) \div 2
           recent == SubSeq(left, half + 1, Len(left))
           right == Append(Summarize(left, summary), answer)
           unknown == {n \in DOMAIN right : \A i \in DOMAIN left : left[i].id # right[n].id}
<1>1. half \in Nat /\ half <= Len(left) /\ left \in Seq(Message) /\ Len(left) \in Nat
  BY DEF InOrder
<1> DEFINE len == Len(left) - half
<1>len. len \in Nat /\ half + len = Len(left)
  BY <1>1
<1> HIDE DEF half
<1>2. /\ recent \in Seq(Message) /\ Len(recent) = len
      /\ \A i \in 1..len : recent[i] = left[half + i]
  <2>1. \A i \in half + 1 .. Len(left) : left[i] \in Message
    BY <1>1
  <2>2. /\ recent \in Seq(Message)
        /\ Len(recent) = IF half + 1 <= Len(left) THEN Len(left) - (half + 1) + 1 ELSE 0
        /\ \A i \in 1..Len(left) - (half + 1) + 1 : recent[i] = left[half + 1 + i - 1]
    BY <1>1, <2>1, SubSeqProperties
  <2> QED BY <1>1, <2>2
<1> HIDE DEF recent
<1>3. /\ right \in Seq(Message) /\ Len(right) = len + 2
      /\ right[1] = summary /\ right[len + 2] = answer
      /\ \A i \in 2..len + 1 : right[i] = left[half + i - 1]
  <2>1. right = Append(<<summary>> \o recent, answer)
    BY DEF Summarize, half, recent
  <2> DEFINE one == <<summary>>
             body == one \o recent
  <2>2. one \in Seq(Message) /\ Len(one) = 1 /\ one[1] = summary
    OBVIOUS
  <2> HIDE DEF one
  <2>3. /\ body \in Seq(Message) /\ Len(body) = len + 1
        /\ \A i \in 1..len + 1 : body[i] = IF i <= 1 THEN one[i] ELSE recent[i - 1]
    <3> HIDE DEF len
    <3>1. /\ body \in Seq(Message) /\ Len(body) = Len(one) + Len(recent)
          /\ \A i \in 1..Len(one) + Len(recent) :
               body[i] = IF i <= Len(one) THEN one[i] ELSE recent[i - Len(one)]
      <4>1. one \in Seq(Message) /\ recent \in Seq(Message)
        BY <1>2, <2>2
      <4> QED BY <4>1, ConcatProperties, ZenonT(30)
    <3>2. Len(one) + Len(recent) = len + 1
      BY <1>2, <1>len, <2>2
    <3> QED BY <2>2, <3>1, <3>2
  <2>4. body[1] = summary /\ \A i \in 2..len + 1 : body[i] = left[half + (i - 1)]
    BY <1>2, <1>len, <2>2, <2>3
  <2>5. right = Append(body, answer)
    BY <2>1 DEF one
  <2> HIDE DEF body, right
  <2>6. /\ right \in Seq(Message) /\ Len(right) = len + 2
        /\ \A i \in 1..len + 1 : right[i] = body[i]
        /\ right[len + 2] = answer
    BY <1>len, <2>3, <2>5, AppendProperties
  <2>7. \A i \in 2..len + 1 : half + (i - 1) = half + i - 1
    BY <1>len, <1>1
  <2> QED BY <1>len, <2>4, <2>6, <2>7
<1> HIDE DEF right, len
<1>dom. DOMAIN right = 1..len + 2 /\ DOMAIN left = 1..Len(left)
  BY <1>1, <1>3
<1>4. unknown = {1, len + 2}
  <2>1. \A i \in 2..len + 1 : half + i - 1 \in DOMAIN left /\ right[i] = left[half + i - 1]
    BY <1>1, <1>len, <1>dom, <1>3
  <2>2. ASSUME NEW n \in 1..len + 2 PROVE n \in unknown <=> n \in {1, len + 2}
    <3>1. CASE n \in 2..len + 1
      <4>1. \E i \in DOMAIN left : left[i].id = right[n].id
        BY <2>1, <3>1
      <4>2. n # 1 /\ n # len + 2
        BY <1>len, <3>1
      <4> QED BY <4>1, <4>2
    <3>2. CASE n \in {1, len + 2}
      <4>1. right[n].id > Len(left)
        BY <1>1, <1>len, <1>3, <3>2
      <4>2. \A i \in 1..Len(left) : left[i].id # right[n].id
        BY <1>1, <4>1 DEF InOrder
      <4> QED BY <1>dom, <3>2, <4>2
    <3> QED BY <1>len, <3>1, <3>2
  <2>3. \A n \in unknown : n \in 1..len + 2
    BY <1>dom
  <2>4. 1 \in 1..len + 2 /\ len + 2 \in 1..len + 2
    BY <1>len
  <2> HIDE DEF unknown
  <2> QED BY <2>2, <2>3, <2>4
<1> HIDE DEF unknown
<1>5. Cardinality(unknown) = 2 /\ Ascending(unknown) = <<1, len + 2>>
  <2> DEFINE g == <<1, len + 2>>
  <2>1. g \in [1..2 -> unknown] /\ unknown \in SUBSET Int
    BY <1>len, <1>4
  <2>2. \A i, j \in 1..2 : i < j => g[i] < g[j]
    BY <1>len
  <2>3. \A x \in unknown : \E i \in 1..2 : g[i] = x
    BY <1>4
  <2> HIDE DEF g
  <2>4. 2 \in Nat
    OBVIOUS
  <2>5. Cardinality(unknown) = 2 /\ Ascending(unknown) = g
    BY <2>1, <2>2, <2>3, <2>4, AscendingIs
  <2> QED BY <2>5 DEF g
<1>6. Select(right, unknown) = <<summary, answer>>
  <2>1. Select(right, unknown) = [n \in 1..2 |-> right[<<1, len + 2>>[n]]]
    BY <1>5 DEF Select
  <2> QED BY <1>3, <2>1
<1> QED BY <1>6 DEF AddMessages, unknown, right

(* A node appended k messages: the old ones stay where they are. *)
Grew(k) ==
  /\ InOrder(messages')
  /\ Len(messages') = Len(messages) + k
  /\ \A i \in 1..Len(messages) : messages'[i] = messages[i]

LEMMA AppendingGrows ==
  ASSUME InOrder(messages), NEW new \in Seq(Message),
         \A n \in 1..Len(new) : new[n].id = Len(messages) + n,
         messages' = AddMessages(messages, new) \/ messages' = messages \o new
  PROVE  /\ Grew(Len(new))
         /\ \A n \in 1..Len(new) : messages'[Len(messages) + n] = new[n]
<1>1. messages' = messages \o new
  BY AddsNewMessages
<1>2. messages \in Seq(Message) /\ Len(messages) \in Nat /\ Len(new) \in Nat
  BY DEF InOrder
<1>3. /\ messages' \in Seq(Message)
      /\ Len(messages') = Len(messages) + Len(new)
      /\ \A i \in 1..Len(messages) + Len(new) : messages'[i] =
           IF i <= Len(messages) THEN messages[i] ELSE new[i - Len(messages)]
  <2>1. /\ messages \o new \in Seq(Message)
        /\ Len(messages \o new) = Len(messages) + Len(new)
        /\ \A i \in 1..Len(messages) + Len(new) : (messages \o new)[i] =
             IF i <= Len(messages) THEN messages[i] ELSE new[i - Len(messages)]
    BY <1>2, ConcatProperties, ZenonT(30)
  <2> QED BY <1>1, <2>1
<1>4. \A i \in 1..Len(messages) : messages'[i] = messages[i]
  BY <1>2, <1>3
<1>5. ASSUME NEW n \in 1..Len(new) PROVE messages'[Len(messages) + n] = new[n]
  <2>1. /\ Len(messages) + n \in 1..Len(messages) + Len(new)
        /\ ~(Len(messages) + n <= Len(messages))
        /\ (Len(messages) + n) - Len(messages) = n
    BY <1>2
  <2> QED BY <1>3, <2>1
<1>6. ASSUME NEW i \in 1..Len(messages') PROVE messages'[i].id = i
  <2>1. CASE i \in 1..Len(messages)
    BY <2>1, <1>4 DEF InOrder
  <2>2. CASE i \in Len(messages) + 1 .. Len(messages) + Len(new)
    <3>1. i - Len(messages) \in 1..Len(new) /\ Len(messages) + (i - Len(messages)) = i
      BY <1>2, <2>2
    <3> QED BY <1>5, <3>1
  <2> QED BY <1>2, <1>3, <2>1, <2>2
<1> QED BY <1>3, <1>4, <1>5, <1>6 DEF Grew, InOrder

LEMMA NewMessageType ==
  ASSUME NEW n \in Nat, NEW kind \in Kinds, NEW k \in Nat, InOrder(messages)
  PROVE  /\ NewMessage(n, kind, k) \in Message
         /\ NewMessage(n, kind, k).id = Len(messages) + n
         /\ NewMessage(n, kind, k).kind = kind
         /\ NewMessage(n, kind, k).calls = k
<1>1. Len(messages) \in Nat
  BY DEF InOrder
<1> QED BY <1>1 DEF NewMessage, Message

LEMMA PlanAdds ==
  ASSUME InOrder(messages), Plan
  PROVE  Grew(2) /\ \A i \in Len(messages) + 1 .. Len(messages') : messages'[i].calls = 0
<1> DEFINE new == <<NewMessage(1, "system", 0), NewMessage(2, "human", 0)>>
<1>1. /\ new \in Seq(Message) /\ Len(new) = 2
      /\ \A n \in 1..Len(new) : new[n].id = Len(messages) + n /\ new[n].calls = 0
  <2> DEFINE a == NewMessage(1, "system", 0)
             b == NewMessage(2, "human", 0)
  <2>1. a \in Message /\ a.id = Len(messages) + 1 /\ a.calls = 0
    BY NewMessageType DEF Kinds
  <2>2. b \in Message /\ b.id = Len(messages) + 2 /\ b.calls = 0
    BY NewMessageType DEF Kinds
  <2> HIDE DEF a, b
  <2>3. <<a, b>> \in Seq(Message)
    BY <2>1, <2>2
  <2>4. new = <<a, b>>
    BY DEF a, b
  <2> QED BY <2>1, <2>2, <2>3, <2>4
<1>2. messages' = AddMessages(messages, new)
  BY DEF Plan
<1> HIDE DEF new
<1>3. Grew(2) /\ \A n \in 1..2 : messages'[Len(messages) + n] = new[n]
  BY <1>1, <1>2, AppendingGrows
<1>4. ASSUME NEW i \in Len(messages) + 1 .. Len(messages') PROVE messages'[i].calls = 0
  <2>1. i - Len(messages) \in 1..2 /\ Len(messages) + (i - Len(messages)) = i
    BY <1>3 DEF Grew, InOrder
  <2> QED BY <1>1, <1>3, <2>1
<1> QED BY <1>3, <1>4

LEMMA ReportAdds ==
  ASSUME InOrder(messages), Report
  PROVE  Grew(1) /\ messages'[Len(messages')].calls = 0
<1> DEFINE new == <<NewMessage(1, "ai", 0)>>
<1>1. /\ new \in Seq(Message) /\ Len(new) = 1
      /\ \A n \in 1..Len(new) : new[n].id = Len(messages) + n /\ new[n].calls = 0
  BY NewMessageType DEF Kinds
<1>2. messages' = AddMessages(messages, new)
  BY DEF Report
<1> HIDE DEF new
<1>3. Grew(1) /\ \A n \in 1..1 : messages'[Len(messages) + n] = new[n]
  BY <1>1, <1>2, AppendingGrows
<1> QED BY <1>1, <1>3 DEF Grew

LEMMA ActAdds ==
  ASSUME InOrder(messages), Act, calls \in Nat
  PROVE  /\ Grew(calls)
         /\ \A i \in Len(messages) + 1 .. Len(messages') :
              messages'[i].calls = 0 /\ messages'[i].kind = "tool"
<1> DEFINE new == [n \in 1..calls |-> NewMessage(n, "tool", 0)]
<1>1. /\ new \in Seq(Message) /\ Len(new) = calls
      /\ \A n \in 1..Len(new) : /\ new[n].id = Len(messages) + n
                                /\ new[n].calls = 0 /\ new[n].kind = "tool"
  BY NewMessageType DEF Kinds
<1>2. messages' = AddMessages(messages, new)
  BY DEF Act
<1> HIDE DEF new
<1>3. Grew(calls) /\ \A n \in 1..calls : messages'[Len(messages) + n] = new[n]
  BY <1>1, <1>2, AppendingGrows
<1>4. ASSUME NEW i \in Len(messages) + 1 .. Len(messages')
      PROVE  messages'[i].calls = 0 /\ messages'[i].kind = "tool"
  <2>1. i - Len(messages) \in 1..calls /\ Len(messages) + (i - Len(messages)) = i
    BY <1>3 DEF Grew, InOrder
  <2> QED BY <1>1, <1>3, <2>1
<1> QED BY <1>3, <1>4

LEMMA ThinkAdds ==
  ASSUME InOrder(messages), Think, calls' \in Nat
  PROVE  /\ Grew(1) \/ Grew(2)
         /\ messages'[Len(messages')].calls = calls'
         /\ \A i \in Len(messages) + 1 .. Len(messages') - 1 : messages'[i].calls = 0
<1> DEFINE summary == NewMessage(1, "system", 0)
           answer == NewMessage(2, "ai", calls')
           short == <<NewMessage(1, "ai", calls')>>
           long == <<summary, answer>>
<1>summary. summary \in Message /\ summary.id = Len(messages) + 1 /\ summary.calls = 0
  BY NewMessageType DEF Kinds
<1>answer. answer \in Message /\ answer.id = Len(messages) + 2 /\ answer.calls = calls'
  BY NewMessageType DEF Kinds
<1>1. /\ short \in Seq(Message) /\ Len(short) = 1 /\ short[1].calls = calls'
      /\ \A n \in 1..Len(short) : short[n].id = Len(messages) + n
  BY NewMessageType DEF Kinds
<1>2. /\ long \in Seq(Message) /\ Len(long) = 2
      /\ long[1].calls = 0 /\ long[2].calls = calls'
      /\ \A n \in 1..Len(long) : long[n].id = Len(messages) + n
  <2> HIDE DEF summary, answer
  <2>1. long \in Seq(Message)
    BY <1>summary, <1>answer
  <2> QED BY <1>summary, <1>answer, <2>1
<1>3. messages' = AddMessages(messages, short) \/ messages' = messages \o long
  <2>1. CASE ~freed'
    BY <2>1 DEF Think
  <2>2. CASE freed'
    <3>1. messages' = AddMessages(messages,
                         Append(Summarize(messages, summary), answer))
      BY <2>2 DEF Think
    <3> HIDE DEF summary, answer
    <3> QED BY <3>1, <1>summary, <1>answer, AddsSummaryAndAnswer
  <2> QED BY <2>1, <2>2
<1> HIDE DEF short, long
<1>4. CASE messages' = AddMessages(messages, short)
  <2>1. Grew(1) /\ \A n \in 1..1 : messages'[Len(messages) + n] = short[n]
    BY <1>1, <1>4, AppendingGrows
  <2> QED BY <1>1, <2>1 DEF Grew, InOrder
<1>5. CASE messages' = messages \o long
  <2>1. Grew(2) /\ \A n \in 1..2 : messages'[Len(messages) + n] = long[n]
    BY <1>2, <1>5, AppendingGrows
  <2> QED BY <1>2, <2>1 DEF Grew, InOrder
<1> QED BY <1>3, <1>4, <1>5

-----------------------------------------------------------------------------
(* Every call is answered *)

Answered(i) ==
  /\ i + messages[i].calls <= Len(messages)
  /\ \A j \in i + 1 .. i + messages[i].calls : messages[j].kind = "tool"

(* Only the last answer may have open calls, and only until ACT is done. *)
AnswersInv ==
  /\ node = "plan" => messages = <<>> /\ scratchpad = <<>>
  /\ node = "act" =>
       /\ Len(messages) >= 1 /\ calls >= 1
       /\ messages[Len(messages)].calls = calls
       /\ \A i \in 1..Len(messages) - 1 : Answered(i)
  /\ node \in {"think", "observe", "reflect"} =>
       \A i \in 1..Len(messages) : Answered(i)

(* The results of the answer at i that the window of its OBSERVE covers. *)
Recent(i) == {j \in i + 1 .. i + messages[i].calls : j > i + messages[i].calls - Window}

Quoting(j) == {n \in DOMAIN scratchpad : scratchpad[n].id = j}
Quotes(j) == Cardinality(Quoting(j))

(* Every recent result is quoted, but those of the last ACT until OBSERVE   *)
(* is done, and these are in its window.                                    *)
QuotedInv ==
  /\ node \in {"think", "reflect"} =>
       \A i \in 1..Len(messages) : \A j \in Recent(i) : Quoting(j) # {}
  /\ node = "act" =>
       \A i \in 1..Len(messages) - 1 : \A j \in Recent(i) : Quoting(j) # {}
  /\ node = "observe" =>
       \A i \in 1..Len(messages) : \A j \in Recent(i) :
         Quoting(j) # {} \/ j > Len(messages) - Window

(* Two messages at least are added from one OBSERVE to the next, so one     *)
(* that is quoted for the n-th time has 2 * n - 2 messages behind it.       *)
QuotesInv ==
  /\ \A n \in 1..Len(scratchpad) : scratchpad[n].id \in 1..Len(messages)
  /\ \A j \in 1..Len(messages) :
       /\ Quotes(j) <= 3
       /\ node \in {"think", "reflect"} => 2 * Quotes(j) <= Len(messages) - j + 2
       /\ node = "act" => 2 * Quotes(j) <= Len(messages) - j + 1
       /\ node = "observe" => 2 * Quotes(j) <= Len(messages) - j

MemoryInv ==
  /\ GraphTypeOK
  /\ MessagesTypeOK
  /\ AnswersInv
  /\ QuotedInv
  /\ QuotesInv

LEMMA MemoryInitInv == AgentInit => MemoryInv
<1> SUFFICES ASSUME AgentInit PROVE MemoryInv
  OBVIOUS
<1> USE DEF AgentInit, MemoryInit
<1>1. GraphTypeOK
  BY GraphInitInv DEF GraphInv
<1>2. node = "plan"
  BY DEF GraphInit
<1>3. MessagesTypeOK
  <2>1. <<>> \in Seq(Message) /\ DOMAIN messages = {}
    OBVIOUS
  <2>2. full \in BOOLEAN /\ freed \in BOOLEAN
    BY Zenon
  <2> QED BY <2>1, <2>2 DEF MessagesTypeOK
<1>4. AnswersInv /\ QuotedInv /\ QuotesInv
  BY <1>2 DEF AnswersInv, QuotedInv, QuotesInv
<1> QED BY <1>1, <1>3, <1>4 DEF MemoryInv

(* What is known of an old message is kept when others are appended. *)
LEMMA GrowthKeeps ==
  ASSUME NEW k \in Nat, Grew(k), InOrder(messages), NEW i \in 1..Len(messages)
  PROVE  /\ messages'[i] = messages[i] /\ messages[i].calls \in Nat
         /\ Answered(i) => Answered(i)'
         /\ Recent(i)' = Recent(i)
<1>1. messages'[i] = messages[i] /\ Len(messages') = Len(messages) + k
  BY DEF Grew
<1>2. messages[i].calls \in Nat /\ Len(messages) \in Nat
  <2>1. messages[i] \in Message
    BY ElementOfSeq DEF InOrder
  <2> QED BY <2>1 DEF Message, InOrder
<1>3. ASSUME Answered(i) PROVE Answered(i)'
  <2>1. i + messages'[i].calls <= Len(messages')
    BY <1>1, <1>2, <1>3 DEF Answered
  <2>2. ASSUME NEW j \in i + 1 .. i + messages'[i].calls PROVE messages'[j].kind = "tool"
    <3>1. messages[j].kind = "tool" /\ j \in 1..Len(messages)
      BY <1>1, <1>2, <1>3 DEF Answered
    <3> QED BY <3>1 DEF Grew
  <2> QED BY <2>1, <2>2 DEF Answered
<1>4. Recent(i)' = Recent(i)
  BY <1>1 DEF Recent, Window
<1> QED BY <1>1, <1>2, <1>3, <1>4

(* A message that makes no call leaves none open. *)
LEMMA NoCallsAnswered ==
  ASSUME NEW i \in 1..Len(messages'), messages'[i].calls = 0
  PROVE  Answered(i)' /\ Recent(i)' = {}
<1>1. i \in Int /\ i <= Len(messages')
  OBVIOUS
<1> QED BY <1>1 DEF Answered, Recent

LEMMA GraphMoves ==
  ASSUME GraphTypeOK, [AgentNext]_agentVars
  PROVE  /\ Plan => node = "plan" /\ node' = "think"
         /\ Think => /\ node = "think" /\ node' \in {"act", "report"}
                     /\ node' = "act" => calls' # 0
         /\ Act => node = "act" /\ node' = "observe"
         /\ Observe => node = "observe" /\ node' = "reflect"
         /\ Reflect => node = "reflect" /\ node' \in {"think", "report"}
         /\ Report => node = "report" /\ node' = "end"
         /\ Stop => node' \in {"raised", "limit"}
  BY DEF Plan, PlanNode, Think, ThinkNode, RouteAfterThink, Act, ActNode, Observe,
         ObserveNode, Reflect, ReflectNode, RouteAfterReflect, Report, ReportNode, Stop,
         NodeRaises, LimitReached, Execute

LEMMA AnswersStep ==
  ASSUME GraphTypeOK, GraphTypeOK', InOrder(messages), AnswersInv, [AgentNext]_agentVars
  PROVE  AnswersInv'
<1>1. CASE Plan
  <2>1. Len(messages) = 0 /\ Grew(2) /\ node' = "think"
    BY <1>1, PlanAdds, GraphMoves DEF AnswersInv
  <2>2. \A i \in 1..Len(messages') : messages'[i].calls = 0
    BY <1>1, <2>1, PlanAdds
  <2>3. \A i \in 1..Len(messages') : Answered(i)'
    BY <2>2, NoCallsAnswered
  <2> QED BY <2>1, <2>3 DEF AnswersInv
<1>2. CASE Think
  <2>1. node = "think" /\ node' \in {"act", "report"} /\ (node' = "act" => calls' >= 1)
    BY <1>2, GraphMoves DEF GraphTypeOK
  <2>2. /\ Grew(1) \/ Grew(2)
        /\ messages'[Len(messages')].calls = calls'
        /\ \A i \in Len(messages) + 1 .. Len(messages') - 1 : messages'[i].calls = 0
    BY <1>2, ThinkAdds DEF GraphTypeOK
  <2>3. Len(messages) \in Nat /\ Len(messages') \in Nat /\ Len(messages') >= 1
    BY <2>2 DEF Grew, InOrder
  <2>4. ASSUME NEW i \in 1..Len(messages') - 1 PROVE Answered(i)'
    <3>1. CASE i \in 1..Len(messages)
      <4>1. Answered(i)
        BY <2>1, <3>1 DEF AnswersInv
      <4>2. 1 \in Nat /\ 2 \in Nat
        OBVIOUS
      <4> QED BY <2>2, <3>1, <4>1, <4>2, GrowthKeeps
    <3>2. CASE i \in Len(messages) + 1 .. Len(messages') - 1
      <4>1. i \in 1..Len(messages') /\ messages'[i].calls = 0
        BY <2>2, <2>3, <3>2
      <4> QED BY <4>1, NoCallsAnswered
    <3> QED BY <2>3, <3>1, <3>2
  <2> QED BY <2>1, <2>2, <2>3, <2>4 DEF AnswersInv
<1>3. CASE Act
  <2>1. node = "act" /\ node' = "observe" /\ calls \in Nat
    BY <1>3, GraphMoves DEF GraphTypeOK
  <2>2. /\ Grew(calls)
        /\ \A i \in Len(messages) + 1 .. Len(messages') :
             messages'[i].calls = 0 /\ messages'[i].kind = "tool"
    BY <1>3, <2>1, ActAdds
  <2>3. Len(messages) \in Nat /\ Len(messages') = Len(messages) + calls
    BY <2>2 DEF Grew, InOrder
  <2>4. ASSUME NEW i \in 1..Len(messages') PROVE Answered(i)'
    <3>1. CASE i \in 1..Len(messages) - 1
      <4>1. Answered(i) /\ i \in 1..Len(messages)
        BY <2>1, <2>3, <3>1 DEF AnswersInv
      <4> QED BY <2>1, <2>2, <4>1, GrowthKeeps
    <3>2. CASE i = Len(messages) /\ i >= 1
      <4>1. messages'[i].calls = calls
        BY <2>1, <2>2, <3>2 DEF AnswersInv, Grew
      <4> QED BY <2>1, <2>2, <2>3, <3>2, <4>1 DEF Answered
    <3>3. CASE i \in Len(messages) + 1 .. Len(messages')
      BY <2>2, <3>3, NoCallsAnswered
    <3> QED BY <2>3, <3>1, <3>2, <3>3
  <2> QED BY <2>1, <2>4 DEF AnswersInv
<1>4. CASE Observe
  <2>1. node = "observe" /\ node' = "reflect" /\ messages' = messages
    BY <1>4, GraphMoves DEF Observe
  <2> QED BY <2>1 DEF AnswersInv, Answered
<1>5. CASE Reflect
  <2>1. node = "reflect" /\ node' \in {"think", "report"} /\ messages' = messages
    BY <1>5, GraphMoves DEF Reflect, memoryVars
  <2> QED BY <2>1 DEF AnswersInv, Answered
<1>6. CASE Report \/ Stop
  <2>1. node' \in {"end", "raised", "limit"}
    BY <1>6, GraphMoves
  <2> QED BY <2>1 DEF AnswersInv
<1>7. CASE UNCHANGED agentVars
  BY <1>7 DEF agentVars, AnswersInv, Answered
<1> QED BY <1>1, <1>2, <1>3, <1>4, <1>5, <1>6, <1>7 DEF AgentNext

-----------------------------------------------------------------------------
(* Every recent result is quoted *)

LEMMA QuotingFinite ==
  ASSUME scratchpad \in Seq(Message), NEW j
  PROVE  IsFiniteSet(Quoting(j)) /\ Quotes(j) \in Nat
<1>1. IsFiniteSet(1..Len(scratchpad)) /\ Quoting(j) \in SUBSET (1..Len(scratchpad))
  BY FS_Interval DEF Quoting
<1> QED BY <1>1, FS_Subset, FS_CardinalityType DEF Quotes

(* The results in the window of OBSERVE. *)
Results == {i \in DOMAIN messages :
              i > Len(messages) - Window /\ messages[i].kind = "tool"}

(* Each of them is quoted once more, and nothing else is. *)
LEMMA ObserveQuotes ==
  ASSUME InOrder(messages), scratchpad \in Seq(Message), Observe
  PROVE  /\ scratchpad' \in Seq(Message) /\ messages' = messages
         /\ \A n \in 1..Len(scratchpad') :
              \/ n \in 1..Len(scratchpad) /\ scratchpad'[n] = scratchpad[n]
              \/ scratchpad'[n].id \in 1..Len(messages)
         /\ \A j : Quoting(j) # {} \/ j \in Results => Quoting(j)' # {}
         /\ \A j : j \notin Results => Quotes(j)' = Quotes(j)
         /\ \A j : Quotes(j)' <= Quotes(j) + 1
<1> DEFINE size == Cardinality(Results)
           added == Select(messages, Results)
           old == Len(scratchpad)
<1>1. Results \in SUBSET (1..Len(messages)) /\ Results \in SUBSET Int
      /\ messages \in Seq(Message)
  BY DEF Results, InOrder
<1>2. /\ IsFiniteSet(Results) /\ size \in Nat
      /\ added \in Seq(Message) /\ Len(added) = size
      /\ \A n \in 1..size : Ascending(Results)[n] \in Results
      /\ \A n \in 1..size : added[n] = messages[Ascending(Results)[n]]
  BY <1>1, SelectType
<1>3. /\ \A x \in Results : \E n \in 1..size : Ascending(Results)[n] = x
      /\ \A m, n \in 1..size : m < n => Ascending(Results)[m] < Ascending(Results)[n]
  BY <1>1, <1>2, AscendingEnumerates
<1>4. ASSUME NEW n \in 1..size PROVE added[n].id = Ascending(Results)[n]
  <2>1. Ascending(Results)[n] \in 1..Len(messages)
    BY <1>1, <1>2
  <2> QED BY <1>2, <2>1 DEF InOrder
<1>5. scratchpad' = scratchpad \o added /\ messages' = messages
  BY DEF Observe, Results
<1> HIDE DEF size, added
<1>6. old \in Nat
  OBVIOUS
<1>7. /\ scratchpad' \in Seq(Message) /\ Len(scratchpad') = old + size
      /\ \A i \in 1..old + size : scratchpad'[i] =
           IF i <= old THEN scratchpad[i] ELSE added[i - old]
  <2>1. /\ scratchpad \o added \in Seq(Message)
        /\ Len(scratchpad \o added) = old + Len(added)
        /\ \A i \in 1..old + Len(added) : (scratchpad \o added)[i] =
             IF i <= old THEN scratchpad[i] ELSE added[i - old]
    BY <1>2, ConcatProperties, ZenonT(30)
  <2> QED BY <1>2, <1>5, <2>1
<1>8. \A n \in 1..old : n \in 1..old + size /\ scratchpad'[n] = scratchpad[n]
  BY <1>2, <1>6, <1>7
<1>9. ASSUME NEW n \in 1..size
      PROVE  old + n \in 1..old + size /\ scratchpad'[old + n].id = Ascending(Results)[n]
  <2>1. /\ old + n \in 1..old + size /\ ~(old + n <= old) /\ (old + n) - old = n
    BY <1>2, <1>6
  <2> QED BY <1>4, <1>7, <2>1
<1>10. ASSUME NEW n \in 1..old + size, n \notin 1..old
       PROVE  n - old \in 1..size /\ old + (n - old) = n
  BY <1>2, <1>6, <1>10
<1>11. ASSUME NEW n \in 1..Len(scratchpad')
       PROVE  \/ n \in 1..Len(scratchpad) /\ scratchpad'[n] = scratchpad[n]
              \/ scratchpad'[n].id \in 1..Len(messages)
  <2>1. CASE n \in 1..old
    BY <1>8, <2>1
  <2>2. CASE n \notin 1..old
    <3>1. n \in 1..old + size
      BY <1>7
    <3>2. n - old \in 1..size /\ old + (n - old) = n
      BY <1>10, <2>2, <3>1
    <3>3. scratchpad'[n].id = Ascending(Results)[n - old]
      BY <1>9, <3>2
    <3>4. Ascending(Results)[n - old] \in 1..Len(messages)
      BY <1>1, <1>2, <3>2
    <3> QED BY <3>3, <3>4
  <2> QED BY <2>1, <2>2
<1>12. ASSUME NEW j, Quoting(j) # {} \/ j \in Results PROVE Quoting(j)' # {}
  <2>1. DOMAIN scratchpad' = 1..old + size
    BY <1>7
  <2>2. CASE Quoting(j) # {}
    BY <1>8, <2>1, <2>2 DEF Quoting
  <2>3. CASE j \in Results
    <3>1. PICK n \in 1..size : Ascending(Results)[n] = j
      BY <1>3, <2>3
    <3> QED BY <1>9, <2>1, <3>1 DEF Quoting
  <2> QED BY <1>12, <2>2, <2>3
<1>13. ASSUME NEW j, j \notin Results PROVE Quoting(j)' = Quoting(j)
  <2>1. DOMAIN scratchpad' = 1..old + size /\ DOMAIN scratchpad = 1..old
    BY <1>7
  <2>2. ASSUME NEW n \in 1..old + size, n \notin 1..old PROVE scratchpad'[n].id # j
    <3>1. n - old \in 1..size /\ old + (n - old) = n
      BY <1>10, <2>2
    <3>2. scratchpad'[n].id = Ascending(Results)[n - old]
      BY <1>9, <3>1
    <3> QED BY <1>2, <1>13, <3>1, <3>2
  <2> QED BY <1>8, <2>1, <2>2 DEF Quoting
<1>14. ASSUME NEW j \in Results PROVE Quotes(j)' <= Quotes(j) + 1
  <2>1. PICK p \in 1..size : Ascending(Results)[p] = j
    BY <1>3
  <2>2. DOMAIN scratchpad' = 1..old + size /\ DOMAIN scratchpad = 1..old
    BY <1>7
  <2>3. ASSUME NEW n \in Quoting(j)' PROVE n \in Quoting(j) \cup {old + p}
    <3>1. n \in 1..old + size /\ scratchpad'[n].id = j
      BY <2>2 DEF Quoting
    <3>2. CASE n \in 1..old
      BY <1>8, <2>2, <3>1, <3>2 DEF Quoting
    <3>3. CASE n \notin 1..old
      <4>1. n - old \in 1..size /\ old + (n - old) = n
        BY <1>10, <3>1, <3>3
      <4>2. Ascending(Results)[n - old] = j
        BY <1>9, <3>1, <4>1
      <4>3. n - old = p
        <5>1. ~(n - old < p) /\ ~(p < n - old)
          BY <1>1, <1>3, <2>1, <4>1, <4>2
        <5> QED BY <1>2, <1>6, <4>1, <5>1
      <4> QED BY <4>1, <4>3
    <3> QED BY <3>2, <3>3
  <2>4. IsFiniteSet(Quoting(j)) /\ Quotes(j) \in Nat
    BY QuotingFinite
  <2>5. IsFiniteSet(Quoting(j) \cup {old + p})
        /\ Cardinality(Quoting(j) \cup {old + p}) \in {Quotes(j), Quotes(j) + 1}
    BY <2>4, FS_AddElement DEF Quotes
  <2>6. Cardinality(Quoting(j)') <= Cardinality(Quoting(j) \cup {old + p})
    BY <2>3, <2>5, FS_Subset
  <2>7. Cardinality(Quoting(j)') \in Nat
    <3>1. IsFiniteSet(Quoting(j)')
      BY <2>3, <2>5, FS_Subset
    <3> QED BY <3>1, FS_CardinalityType
  <2> QED BY <2>4, <2>5, <2>6, <2>7 DEF Quotes
<1>15. ASSUME NEW j PROVE Quotes(j)' <= Quotes(j) + 1
  <2>1. Quotes(j) \in Nat
    BY QuotingFinite
  <2> QED BY <1>13, <1>14, <2>1 DEF Quotes
<1> QED BY <1>5, <1>7, <1>11, <1>12, <1>13, <1>15 DEF Quotes

(* Nothing is quoted before it exists. *)
LEMMA NewNotQuoted ==
  ASSUME scratchpad \in Seq(Message), QuotesInv, NEW j, j \notin 1..Len(messages)
  PROVE  Quoting(j) = {} /\ Quotes(j) = 0
<1>1. Quoting(j) = {}
  BY DEF Quoting, QuotesInv
<1> QED BY <1>1, FS_EmptySet DEF Quotes

(* What does not touch the scratchpad quotes nothing. *)
LEMMA QuotingKept ==
  ASSUME scratchpad' = scratchpad
  PROVE  \A j : Quoting(j)' = Quoting(j) /\ Quotes(j)' = Quotes(j)
BY DEF Quoting, Quotes

LEMMA QuotedStep ==
  ASSUME GraphTypeOK, GraphTypeOK', InOrder(messages), scratchpad \in Seq(Message),
         AnswersInv, QuotedInv, [AgentNext]_agentVars
  PROVE  QuotedInv'
<1>1. CASE Plan
  <2>1. Len(messages) = 0 /\ Grew(2) /\ node' = "think"
    BY <1>1, PlanAdds, GraphMoves DEF AnswersInv
  <2>2. \A i \in 1..Len(messages') : messages'[i].calls = 0
    BY <1>1, <2>1, PlanAdds
  <2>3. \A i \in 1..Len(messages') : Recent(i)' = {}
    BY <2>2, NoCallsAnswered
  <2> QED BY <2>1, <2>3 DEF QuotedInv
<1>2. CASE Think
  <2>1. node = "think" /\ node' \in {"act", "report"} /\ scratchpad' = scratchpad
    BY <1>2, GraphMoves DEF Think
  <2>2. /\ Grew(1) \/ Grew(2)
        /\ \A i \in Len(messages) + 1 .. Len(messages') - 1 : messages'[i].calls = 0
    BY <1>2, ThinkAdds DEF GraphTypeOK
  <2>3. Len(messages) \in Nat /\ Len(messages') \in Nat /\ Len(messages') >= 1
    BY <2>2 DEF Grew, InOrder
  <2>4. ASSUME NEW i \in 1..Len(messages') - 1, NEW j \in Recent(i)'
        PROVE  Quoting(j)' # {}
    <3>1. CASE i \in 1..Len(messages)
      <4>1. 1 \in Nat /\ 2 \in Nat
        OBVIOUS
      <4>2. j \in Recent(i)
        BY <2>2, <3>1, <4>1, GrowthKeeps
      <4> QED BY <2>1, <3>1, <4>2, QuotingKept DEF QuotedInv
    <3>2. CASE i \in Len(messages) + 1 .. Len(messages') - 1
      <4>1. i \in 1..Len(messages') /\ messages'[i].calls = 0
        BY <2>2, <2>3, <3>2
      <4> QED BY <4>1, NoCallsAnswered
    <3> QED BY <2>3, <3>1, <3>2
  <2> QED BY <2>1, <2>4 DEF QuotedInv
<1>3. CASE Act
  <2>1. node = "act" /\ node' = "observe" /\ calls \in Nat /\ scratchpad' = scratchpad
    BY <1>3, GraphMoves DEF GraphTypeOK, Act
  <2>2. /\ Grew(calls)
        /\ \A i \in Len(messages) + 1 .. Len(messages') : messages'[i].calls = 0
    BY <1>3, <2>1, ActAdds
  <2>3. Len(messages) \in Nat /\ Len(messages') = Len(messages) + calls
    BY <2>2 DEF Grew, InOrder
  <2>4. ASSUME NEW i \in 1..Len(messages'), NEW j \in Recent(i)'
        PROVE  Quoting(j)' # {} \/ j > Len(messages') - Window
    <3>1. CASE i \in 1..Len(messages) - 1
      <4>1. i \in 1..Len(messages)
        BY <2>3, <3>1
      <4>2. j \in Recent(i)
        BY <2>1, <2>2, <4>1, GrowthKeeps
      <4> QED BY <2>1, <3>1, <4>2, QuotingKept DEF QuotedInv
    <3>2. CASE i = Len(messages) /\ i >= 1
      <4>1. messages'[i].calls = calls
        BY <2>1, <2>2, <3>2 DEF AnswersInv, Grew
      <4>2. j \in i + 1 .. i + messages'[i].calls /\ j > i + messages'[i].calls - 5
        BY DEF Recent, Window
      <4>3. j > Len(messages') - 5
        BY <2>1, <2>3, <3>2, <4>1, <4>2
      <4> QED BY <4>3 DEF Window
    <3>3. CASE i \in Len(messages) + 1 .. Len(messages')
      BY <2>2, <3>3, NoCallsAnswered
    <3> QED BY <2>3, <3>1, <3>2, <3>3
  <2> QED BY <2>1, <2>4 DEF QuotedInv, Window
<1>4. CASE Observe
  <2>1. node = "observe" /\ node' = "reflect" /\ messages' = messages
    BY <1>4, GraphMoves, ObserveQuotes
  <2>2. \A j : Quoting(j) # {} \/ j \in Results => Quoting(j)' # {}
    BY <1>4, ObserveQuotes
  <2>3. ASSUME NEW i \in 1..Len(messages), NEW j \in Recent(i) PROVE Quoting(j)' # {}
    <3>1. Quoting(j) # {} \/ j > Len(messages) - Window
      BY <2>1 DEF QuotedInv
    <3>2. Answered(i) /\ j \in i + 1 .. i + messages[i].calls
      BY <2>1 DEF AnswersInv, Recent
    <3>3. messages[i].calls \in Nat /\ Len(messages) \in Nat
      <4>1. messages[i] \in Message
        BY ElementOfSeq DEF InOrder
      <4> QED BY <4>1 DEF Message, InOrder
    <3>4. messages[j].kind = "tool" /\ j \in DOMAIN messages
      BY <3>2, <3>3 DEF Answered, InOrder
    <3> QED BY <2>2, <3>1, <3>4 DEF Results
  <2>4. \A i \in 1..Len(messages') : Recent(i)' = Recent(i)
    BY <2>1 DEF Recent
  <2> QED BY <2>1, <2>3, <2>4 DEF QuotedInv
<1>5. CASE Reflect \/ UNCHANGED agentVars
  <2>1. /\ messages' = messages /\ scratchpad' = scratchpad
        /\ node' = node \/ (node = "reflect" /\ node' \in {"think", "report"})
    BY <1>5, GraphMoves DEF Reflect, memoryVars, agentVars
  <2>2. \A i : Recent(i)' = Recent(i)
    BY <2>1 DEF Recent
  <2> QED BY <2>1, <2>2, QuotingKept DEF QuotedInv
<1>6. CASE Report \/ Stop
  <2>1. node' \in {"end", "raised", "limit"}
    BY <1>6, GraphMoves
  <2> QED BY <2>1 DEF QuotedInv
<1> QED BY <1>1, <1>2, <1>3, <1>4, <1>5, <1>6 DEF AgentNext

-----------------------------------------------------------------------------
(* No result is quoted more than three times *)

LEMMA QuotesStep ==
  ASSUME GraphTypeOK, GraphTypeOK', InOrder(messages), scratchpad \in Seq(Message),
         AnswersInv, QuotesInv, [AgentNext]_agentVars
  PROVE  QuotesInv'
<1> DEFINE Fresh == \A n \in 1..Len(scratchpad) : scratchpad[n].id \in 1..Len(messages)
<1>1. \A j : Quotes(j) \in Nat
  BY QuotingFinite
<1>2. Len(messages) \in Nat
  BY DEF InOrder
<1>3. ASSUME NEW k \in Nat, Grew(k), scratchpad' = scratchpad
      PROVE  /\ Fresh'
             /\ \A j \in 1..Len(messages') :
                  \/ j \in 1..Len(messages) /\ Quotes(j)' = Quotes(j)
                  \/ j \notin 1..Len(messages) /\ Quotes(j)' = 0
             /\ Len(messages') = Len(messages) + k
  <2>1. Len(messages') = Len(messages) + k
    BY <1>3 DEF Grew
  <2>2. Fresh'
    BY <1>2, <1>3, <2>1 DEF QuotesInv
  <2> QED BY <1>3, <2>1, <2>2, NewNotQuoted, QuotingKept
<1>4. CASE Plan
  <2>1. Len(messages) = 0 /\ Grew(2) /\ node' = "think" /\ scratchpad' = scratchpad
    BY <1>4, PlanAdds, GraphMoves DEF AnswersInv, Plan
  <2>2. 2 \in Nat
    OBVIOUS
  <2>3. Fresh' /\ \A j \in 1..Len(messages') :
                     \/ j \in 1..Len(messages) /\ Quotes(j)' = Quotes(j)
                     \/ j \notin 1..Len(messages) /\ Quotes(j)' = 0
    BY <1>3, <2>1, <2>2
  <2>4. Len(messages') = 2
    BY <2>1 DEF Grew
  <2>5. \A j \in 1..2 : Quotes(j)' = 0
    BY <2>1, <2>3, <2>4
  <2> QED BY <2>1, <2>3, <2>4, <2>5 DEF QuotesInv
<1>5. CASE Think
  <2>1. node = "think" /\ node' \in {"act", "report"} /\ scratchpad' = scratchpad
    BY <1>5, GraphMoves DEF Think
  <2>2. PICK k \in {1, 2} : Grew(k)
    BY <1>5, ThinkAdds DEF GraphTypeOK
  <2>3. /\ Fresh' /\ Len(messages') = Len(messages) + k
        /\ \A j \in 1..Len(messages') :
             \/ j \in 1..Len(messages) /\ Quotes(j)' = Quotes(j)
             \/ j \notin 1..Len(messages) /\ Quotes(j)' = 0
    BY <1>3, <2>1, <2>2
  <2>4. ASSUME NEW j \in 1..Len(messages')
        PROVE  Quotes(j)' <= 3 /\ 2 * Quotes(j)' <= Len(messages') - j + 1
    <3>1. CASE j \in 1..Len(messages) /\ Quotes(j)' = Quotes(j)
      <4>1. Quotes(j) <= 3 /\ 2 * Quotes(j) <= Len(messages) - j + 2
        BY <2>1, <3>1 DEF QuotesInv
      <4> QED BY <1>1, <1>2, <2>3, <3>1, <4>1
    <3>2. CASE Quotes(j)' = 0
      BY <1>2, <2>3, <3>2
    <3> QED BY <2>3, <3>1, <3>2
  <2> QED BY <2>1, <2>3, <2>4 DEF QuotesInv
<1>6. CASE Act
  <2>1. /\ node = "act" /\ node' = "observe" /\ scratchpad' = scratchpad
        /\ calls \in Nat /\ calls >= 1
    BY <1>6, GraphMoves DEF Act, GraphTypeOK, AnswersInv
  <2>2. /\ Fresh' /\ Len(messages') = Len(messages) + calls
        /\ \A j \in 1..Len(messages') :
             \/ j \in 1..Len(messages) /\ Quotes(j)' = Quotes(j)
             \/ j \notin 1..Len(messages) /\ Quotes(j)' = 0
    BY <1>3, <1>6, <2>1, ActAdds
  <2>3. ASSUME NEW j \in 1..Len(messages')
        PROVE  Quotes(j)' <= 3 /\ 2 * Quotes(j)' <= Len(messages') - j
    <3>1. CASE j \in 1..Len(messages) /\ Quotes(j)' = Quotes(j)
      <4>1. Quotes(j) <= 3 /\ 2 * Quotes(j) <= Len(messages) - j + 1
        BY <2>1, <3>1 DEF QuotesInv
      <4> QED BY <1>1, <1>2, <2>1, <2>2, <3>1, <4>1
    <3>2. CASE Quotes(j)' = 0
      BY <1>2, <2>1, <2>2, <3>2
    <3> QED BY <2>2, <3>1, <3>2
  <2> QED BY <2>1, <2>2, <2>3 DEF QuotesInv
<1>7. CASE Observe
  <2>1. /\ node = "observe" /\ node' = "reflect" /\ messages' = messages
        /\ \A n \in 1..Len(scratchpad') :
             \/ n \in 1..Len(scratchpad) /\ scratchpad'[n] = scratchpad[n]
             \/ scratchpad'[n].id \in 1..Len(messages)
        /\ \A j : j \notin Results => Quotes(j)' = Quotes(j)
        /\ \A j : Quotes(j)' <= Quotes(j) + 1
        /\ scratchpad' \in Seq(Message)
    BY <1>7, GraphMoves, ObserveQuotes
  <2>2. Fresh'
    BY <2>1 DEF QuotesInv
  <2>3. ASSUME NEW j PROVE Quotes(j)' \in Nat
    <3>1. IsFiniteSet(1..Len(scratchpad')) /\ Quoting(j)' \in SUBSET (1..Len(scratchpad'))
      BY <2>1, FS_Interval DEF Quoting
    <3> QED BY <3>1, FS_Subset, FS_CardinalityType DEF Quotes
  <2>4. ASSUME NEW j \in 1..Len(messages)
        PROVE  Quotes(j)' <= 3 /\ 2 * Quotes(j)' <= Len(messages) - j + 2
    <3>1. Quotes(j) <= 3 /\ 2 * Quotes(j) <= Len(messages) - j
      BY <2>1 DEF QuotesInv
    <3>2. CASE j \in Results
      <4>1. j > Len(messages) - 5
        BY <3>2 DEF Results, Window
      <4>2. Quotes(j)' <= Quotes(j) + 1
        BY <2>1
      <4> HIDE DEF Quotes
      <4> QED BY <1>1, <1>2, <2>3, <3>1, <4>1, <4>2
    <3>3. CASE j \notin Results
      <4>1. Quotes(j)' = Quotes(j)
        BY <2>1, <3>3
      <4> QED BY <1>1, <1>2, <3>1, <4>1
    <3> QED BY <3>2, <3>3
  <2> QED BY <2>1, <2>2, <2>4 DEF QuotesInv
<1>8. CASE Reflect \/ Stop \/ UNCHANGED agentVars
  <2>1. /\ messages' = messages /\ scratchpad' = scratchpad
        /\ \/ node' = node
           \/ node = "reflect" /\ node' \in {"think", "report"}
           \/ node' \in {"raised", "limit"}
    BY <1>8, GraphMoves DEF Reflect, Stop, memoryVars, agentVars
  <2> QED BY <2>1, QuotingKept DEF QuotesInv
<1>9. CASE Report
  <2>1. Grew(1) /\ scratchpad' = scratchpad /\ node' = "end" /\ 1 \in Nat
    BY <1>9, GraphMoves, ReportAdds DEF Report
  <2>2. /\ Fresh'
        /\ \A j \in 1..Len(messages') :
             \/ j \in 1..Len(messages) /\ Quotes(j)' = Quotes(j)
             \/ j \notin 1..Len(messages) /\ Quotes(j)' = 0
    BY <1>3, <2>1
  <2>3. \A j \in 1..Len(messages') : Quotes(j)' <= 3
    BY <2>2 DEF QuotesInv
  <2> QED BY <2>1, <2>2, <2>3 DEF QuotesInv
<1> QED BY <1>4, <1>5, <1>6, <1>7, <1>8, <1>9 DEF AgentNext

-----------------------------------------------------------------------------
(* The memory of every run *)

LEMMA MessagesTypeStep ==
  ASSUME GraphTypeOK, GraphTypeOK', MessagesTypeOK, AnswersInv, [AgentNext]_agentVars
  PROVE  MessagesTypeOK'
<1>1. InOrder(messages) /\ scratchpad \in Seq(Message)
  BY DEF MessagesTypeOK, InOrder
<1>2. InOrder(messages')
  <2>1. CASE Plan
    BY <1>1, <2>1, PlanAdds DEF Grew
  <2>2. CASE Think
    BY <1>1, <2>2, ThinkAdds DEF Grew, GraphTypeOK
  <2>3. CASE Act
    BY <1>1, <2>3, ActAdds DEF Grew, GraphTypeOK
  <2>4. CASE Report
    BY <1>1, <2>4, ReportAdds DEF Grew
  <2>5. CASE Observe \/ Reflect \/ Stop \/ UNCHANGED agentVars
    BY <1>1, <2>5 DEF Observe, Reflect, Stop, memoryVars, agentVars
  <2> QED BY <2>1, <2>2, <2>3, <2>4, <2>5 DEF AgentNext
<1>3. scratchpad' \in Seq(Message)
  <2>1. CASE Observe
    BY <1>1, <2>1, ObserveQuotes
  <2>2. CASE ~Observe
    BY <1>1, <2>2 DEF AgentNext, Plan, Think, Act, Reflect, Report, Stop, memoryVars, agentVars
  <2> QED BY <2>1, <2>2
<1>4. full' \in BOOLEAN /\ freed' \in BOOLEAN
  <2>1. full \in BOOLEAN /\ freed \in BOOLEAN
    BY Zenon DEF MessagesTypeOK
  <2>2. CASE Think
    <3>1. full' \in {full, TRUE} /\ freed' = (full' /\ Summarizable(messages))
      BY <2>2, Zenon DEF Think, NeedsSummarization
    <3>2. full' \in BOOLEAN
      BY <2>1, <3>1, Zenon
    <3>3. freed' \in BOOLEAN
      BY <3>1, Zenon DEF Summarizable
    <3> QED BY <3>2, <3>3
  <2>3. CASE ~Think
    <3>1. full' = full /\ freed' = freed
      BY <2>3, Zenon DEF AgentNext, Plan, Act, Observe, Reflect, Report, Stop, memoryVars, agentVars
    <3> QED BY <2>1, <3>1, Zenon
  <2> QED BY <2>2, <2>3
<1>5. DOMAIN messages' = 1..Len(messages')
  BY <1>2 DEF InOrder
<1> QED BY <1>2, <1>3, <1>4, <1>5 DEF MessagesTypeOK, InOrder

(* The inductive invariant of the memory, beside the types of the loop. *)
LEMMA MemoryInvariant == AgentSpec => []MemoryInv
<1> DEFINE Inv == MessagesTypeOK /\ AnswersInv /\ QuotedInv /\ QuotesInv
<1>1. AgentInit => Inv
  BY MemoryInitInv DEF MemoryInv
<1>2. GraphTypeOK /\ GraphTypeOK' /\ Inv /\ [AgentNext]_agentVars => Inv'
  <2> SUFFICES ASSUME GraphTypeOK, GraphTypeOK', Inv, [AgentNext]_agentVars PROVE Inv'
    OBVIOUS
  <2>1. InOrder(messages) /\ scratchpad \in Seq(Message)
    BY DEF MessagesTypeOK, InOrder
  <2> QED BY <2>1, MessagesTypeStep, AnswersStep, QuotedStep, QuotesStep
<1>3. AgentSpec => []GraphTypeOK
  BY AgentImplementsGraph, GraphTyped, PTL
<1>4. GraphTypeOK /\ Inv => MemoryInv
  BY DEF MemoryInv
<1> HIDE DEF Inv
<1> QED BY <1>1, <1>2, <1>3, <1>4, PTL DEF AgentSpec

(* The list holds each message once, in the order of their creation: what a *)
(* summarising thought returns of the old messages is not added again.      *)
THEOREM MessagesTyped == AgentSpec => []MessagesTypeOK
BY MemoryInvariant, PTL DEF MemoryInv

(* Whenever the model is asked again, each call it made has its answers     *)
(* right behind it, however often the list was summarised.                  *)
THEOREM CallsAreAnswered == AgentSpec => []AnswersFollowCalls
<1>1. MemoryInv => AnswersFollowCalls
  BY DEF MemoryInv, AnswersInv, AnswersFollowCalls, Answered, MessagesTypeOK
<1> QED BY <1>1, MemoryInvariant, PTL

(* Once the run has passed OBSERVE the scratchpad quotes every result among *)
(* the last five of its answer, and none more than three times.             *)
THEOREM ResultsAreObserved == AgentSpec => []ResultsObserved
<1>1. ASSUME MemoryInv PROVE ResultsObserved
  <2>1. DOMAIN messages = 1..Len(messages)
    BY <1>1 DEF MemoryInv, MessagesTypeOK
  <2>2. ASSUME node \in {"think", "reflect"}, NEW i \in DOMAIN messages,
               NEW j \in i + 1 .. i + messages[i].calls,
               j > i + messages[i].calls - 5
        PROVE  \E n \in DOMAIN scratchpad : scratchpad[n].id = j
    <3>1. j \in Recent(i)
      BY <2>2 DEF Recent, Window
    <3>2. Quoting(j) # {}
      BY <1>1, <2>1, <2>2, <3>1 DEF MemoryInv, QuotedInv
    <3> QED BY <3>2 DEF Quoting
  <2>3. \A j \in DOMAIN messages :
          Cardinality({n \in DOMAIN scratchpad : scratchpad[n].id = j}) <= 3
    BY <1>1, <2>1 DEF MemoryInv, QuotesInv, Quotes, Quoting
  <2> QED BY <2>2, <2>3 DEF ResultsObserved
<1> QED BY <1>1, MemoryInvariant, PTL

(* Nothing ever leaves the list or is changed in it, so a thought that      *)
(* summarises, whose answer MCAgentSummary shows beside the messages it     *)
(* should replace, never shortens what the model is sent next.              *)
THEOREM HistoryIsKept ==
  AgentSpec => [][\A i \in DOMAIN messages :
                    i \in DOMAIN messages' /\ messages'[i] = messages[i]]_agentVars
<1>1. ASSUME MemoryInv, MemoryInv', [AgentNext]_agentVars
      PROVE  \A i \in DOMAIN messages : i \in DOMAIN messages' /\ messages'[i] = messages[i]
  <2>1. InOrder(messages) /\ calls \in Nat /\ calls' \in Nat
    BY <1>1 DEF MemoryInv, MessagesTypeOK, InOrder, GraphTypeOK
  <2>2. CASE \E k \in Nat : Grew(k)
    BY <2>1, <2>2 DEF Grew, InOrder
  <2>3. CASE Plan \/ Think \/ Act \/ Report
    <3>1. 1 \in Nat /\ 2 \in Nat
      OBVIOUS
    <3>2. \E k \in Nat : Grew(k)
      BY <2>1, <2>3, <3>1, PlanAdds, ThinkAdds, ActAdds, ReportAdds, Zenon
    <3> QED BY <2>2, <3>2
  <2>4. CASE Observe \/ Reflect \/ Stop \/ UNCHANGED agentVars
    BY <2>4 DEF Observe, Reflect, Stop, memoryVars, agentVars
  <2> QED BY <1>1, <2>3, <2>4 DEF AgentNext
<1> QED BY <1>1, MemoryInvariant, PTL DEF AgentSpec
=============================================================================
