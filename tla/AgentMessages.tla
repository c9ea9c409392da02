----------------------------- MODULE AgentMessages -----------------------------
(***************************************************************************)
(* The working memory of the agent loop: the message list of AgentState    *)
(* under LangGraph's add_messages reducer, its summarisation by think_node *)
(* (orchestrator/context.py), and the scratchpad observe_node fills from   *)
(* the last messages.  The control is AgentGraph's; each node here adds    *)
(* what it does to the memory.  A message is known by its id; what it says *)
(* matters only through the size of the list, which is a free choice.      *)
(***************************************************************************)
EXTENDS AgentGraph, Ascending

VARIABLES
  messages,    \* state["messages"]
  scratchpad,  \* state["scratchpad"], as the results it quotes
  full,        \* the list has outgrown the context budget
  freed        \* the last thought summarised: tokens_freed > 0

memoryVars == <<messages, scratchpad, full, freed>>
agentVars == <<maxIter, node, iteration, failures, calls, steps,
               messages, scratchpad, full, freed>>

Kinds == {"system", "human", "ai", "tool"}

(* A message: calls is the number of tool calls an answer of the model makes. *)
Message == [id : Nat, kind : Kinds, calls : Nat]

(* The n-th new message of a node. *)
NewMessage(n, kind, k) == [id |-> Len(messages) + n, kind |-> kind, calls |-> k]

(* Mutant: the reducer appends whatever it is given. *)
AddMessages_NoIds(left, right) == left \o right

(* The reducer: a message with the id of an old one takes its place, which  *)
(* changes nothing as no message is edited; the others are appended.        *)
AddMessages(left, right) ==
  LET unknown == {n \in DOMAIN right : right[n].id \notin {left[i].id : i \in DOMAIN left}}
  IN  left \o Select(right, unknown)

(* summarize_messages: one summary for the older half, unless too short. *)
Summarizable(list) == Len(list) >= 4
Summarize(list, summary) ==
  <<summary>> \o SubSeq(list, Len(list) \div 2 + 1, Len(list))

MemoryInit ==
  /\ messages = <<>>
  /\ scratchpad = <<>>
  /\ full = FALSE
  /\ freed = FALSE

AgentInit == GraphInit /\ MemoryInit

-----------------------------------------------------------------------------
Plan ==
  /\ PlanNode
  /\ messages' = AddMessages(messages,
                   <<NewMessage(1, "system", 0), NewMessage(2, "human", 0)>>)
  /\ UNCHANGED <<scratchpad, full, freed>>

(* needs_summarization counts the tokens of the whole list against a share  *)
(* of the model's window: as nothing ever leaves the list, one that is too  *)
(* long stays too long.                                                     *)
NeedsSummarization == full' \in {full, TRUE}

Think ==
  /\ ThinkNode
  /\ NeedsSummarization
  /\ freed' = (full' /\ Summarizable(messages))
  /\ messages' = AddMessages(messages,
       IF freed'
       THEN Append(Summarize(messages, NewMessage(1, "system", 0)),
                   NewMessage(2, "ai", calls'))
       ELSE <<NewMessage(1, "ai", calls')>>)
  /\ UNCHANGED scratchpad

(* Mutant: the calls after the first are not tried. *)
Act_FirstOnly ==
  /\ ActNode
  /\ messages' = AddMessages(messages, <<NewMessage(1, "tool", 0)>>)
  /\ UNCHANGED <<scratchpad, full, freed>>

(* One tool message per call of the last answer, in order, failed or not. *)
Act ==
  /\ ActNode
  /\ messages' = AddMessages(messages,
                   [n \in 1..calls |-> NewMessage(n, "tool", 0)])
  /\ UNCHANGED <<scratchpad, full, freed>>

(* Mutant: the window is one message short. *)
Window_Four == 4

(* state["messages"][-5:] *)
Window == 5

(* The tool results among the last messages are added to the scratchpad. *)
Observe ==
  /\ ObserveNode
  /\ LET results == {i \in DOMAIN messages :
                       i > Len(messages) - Window /\ messages[i].kind = "tool"}
     IN  scratchpad' = scratchpad \o Select(messages, results)
  /\ UNCHANGED <<messages, full, freed>>

Reflect == ReflectNode /\ UNCHANGED memoryVars

Report ==
  /\ ReportNode
  /\ messages' = AddMessages(messages, <<NewMessage(1, "ai", 0)>>)
  /\ UNCHANGED <<scratchpad, full, freed>>

(* A node that raises or is not run leaves the state it was given. *)
Stop == (NodeRaises \/ LimitReached) /\ UNCHANGED memoryVars

AgentNext ==
  \/ Plan
  \/ Think
  \/ Act
  \/ Observe
  \/ Reflect
  \/ Report
  \/ Stop

AgentSpec == AgentInit /\ [][AgentNext]_agentVars

(* The worker runs the graph to its end. *)
FairAgentSpec == AgentSpec /\ WF_agentVars(AgentNext)

-----------------------------------------------------------------------------
(* Properties *)

(* The list holds each message once, in the order of their creation: the    *)
(* recent messages a summarising thought returns are not added again.       *)
MessagesTypeOK ==
  /\ messages \in Seq(Message)
  /\ \A i \in DOMAIN messages : messages[i].id = i
  /\ scratchpad \in Seq(Message)
  /\ full \in BOOLEAN /\ freed \in BOOLEAN

(* Whenever the model is asked again, each of its tool calls is answered,   *)
(* by the messages right behind it, summarised or not.                      *)
AnswersFollowCalls ==
  node = "think" =>
    \A i \in DOMAIN messages :
      /\ i + messages[i].calls <= Len(messages)
      /\ \A j \in i + 1 .. i + messages[i].calls : messages[j].kind = "tool"

(* A tool result that is among the last five of its answer is quoted by the *)
(* scratchpad once the run has passed OBSERVE.  Later windows reach back    *)
(* over it, but no result is quoted more than three times.                  *)
ResultsObserved ==
  /\ node \in {"think", "reflect"} =>
       \A i \in DOMAIN messages : \A j \in i + 1 .. i + messages[i].calls :
         j > i + messages[i].calls - 5 =>
           \E n \in DOMAIN scratchpad : scratchpad[n].id = j
  /\ \A j \in DOMAIN messages :
       Cardinality({n \in DOMAIN scratchpad : scratchpad[n].id = j}) <= 3

(* "Replace the oldest 50% of messages with one LLM summary SystemMessage": *)
(* after a thought that summarised, none of the older half is left.         *)
SummaryReplacesOldest ==
  [][freed' /\ iteration' # iteration =>
       \A i \in 1 .. Len(messages) \div 2 : \A j \in DOMAIN messages' :
         messages'[j].id # messages[i].id]_agentVars
=============================================================================
