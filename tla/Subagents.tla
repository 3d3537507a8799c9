------------------------------ MODULE Subagents ------------------------------
(* Subagents (subagents/manager.py, types.py, tools/collaboration.py): background
   executions that a tool call, a worker or a monitor starts and then polls, while
   requests and the stop of a turn cancel them.

   An agent is created and set running without an await in between, so PENDING
   is never seen by anybody else.  The model, a tool and the listeners are
   external: a call returns or raises.  Listeners are represented by the last event
   they were told of an agent. *)
EXTENDS Naturals, FiniteSets

CONSTANTS
  Ids,        \* identities of agents (uuid4)
  ToolCalls,  \* create_subagent calls of the turns, one at a time each
  Workers,    \* WorkerAgent objects
  Monitors,   \* MonitorAgent objects
  MaxAgents,  \* SubagentManager.max_agents
  MaxRounds,  \* SubagentManager.max_rounds
  None

ASSUME SubagentsAssumption ==
  /\ IsFiniteSet(Ids)
  /\ None \notin Ids
  /\ Monitors \cap (ToolCalls \cup Workers) = {}
  /\ MaxAgents \in Nat
  /\ MaxRounds \in Nat \ {0}

Callers == ToolCalls \cup Workers \cup Monitors
Final == {"completed", "failed", "cancelled"}
Awaits == {"scheduled", "asking", "tools", "wrapping", "single"}

VARIABLES
  agents,  \* SubagentManager._agents; "told" is the last event of the listeners
  work,    \* the task of _execute: where it is suspended, and its round
  caller   \* where a caller is, the agent it polls, and what it was last told

vars == <<agents, work, caller>>

TypeOK ==
  /\ agents \in [Ids -> [status : {"absent", "running"} \cup Final,
                         told : {"nothing", "started"} \cup Final]]
  /\ work \in [Ids -> [pc : {"none", "over"} \cup Awaits, round : 0..MaxRounds]]
  /\ caller \in [Callers -> [pc : {"idle", "polling", "resting"},
                             agent : Ids \cup {None},
                             told : {"nothing", "running"} \cup Final]]

Init ==
  /\ agents = [a \in Ids |-> [status |-> "absent", told |-> "nothing"]]
  /\ work = [a \in Ids |-> [pc |-> "none", round |-> 0]]
  /\ caller = [c \in Callers |-> [pc |-> "idle", agent |-> None, told |-> "nothing"]]

Known == {a \in Ids : agents[a].status # "absent"}

\* Only agents that have not ended hold a slot.
CreateAmongTheLive(a) ==
  /\ Cardinality({b \in Ids : agents[b].status = "running"}) < MaxAgents
  /\ a \notin Known
  /\ agents' = [agents EXCEPT ![a] = [status |-> "running", told |-> "nothing"]]
  /\ work' = [work EXCEPT ![a].pc = "scheduled"]

\* create_agent and run_agent: the agent is RUNNING, its task has not begun.
Create(a) ==
  /\ Cardinality(Known) < MaxAgents
  /\ a \notin Known
  /\ agents' = [agents EXCEPT ![a] = [status |-> "running", told |-> "nothing"]]
  /\ work' = [work EXCEPT ![a].pc = "scheduled"]

------------------------------------------------------------------------------
(* _execute *)

Ends(a, status) ==
  /\ agents' = [agents EXCEPT ![a] = [status |-> status, told |-> status]]
  /\ work' = [work EXCEPT ![a].pc = "over"]
  /\ UNCHANGED caller

Suspends(a, pc) ==
  /\ work' = [work EXCEPT ![a].pc = pc]
  /\ UNCHANGED <<agents, caller>>

\* With tools and a model that binds them: the tool loop; else a single chat.
ExecutionBegins(a) ==
  /\ work[a].pc = "scheduled"
  /\ \E pc \in {"asking", "single"} : work' = [work EXCEPT ![a].pc = pc]
  /\ agents' = [agents EXCEPT ![a].told = "started"]
  /\ UNCHANGED caller

\* A loop without a limit on its rounds.
NextRoundForever(a) ==
  /\ work' = [work EXCEPT ![a].pc = "asking"]
  /\ UNCHANGED <<agents, caller>>

\* The next pass of the loop, or the forced conclusion.
NextRound(a) ==
  LET r == work[a].round + 1
  IN  /\ work' = [work EXCEPT ![a] =
                    [pc |-> IF r < MaxRounds THEN "asking" ELSE "wrapping", round |-> r]]
      /\ UNCHANGED <<agents, caller>>

\* An answer without calls is the result; calls that the gate refuses all are
\* answered at once.
ModelAnswers(a) ==
  /\ work[a].pc = "asking"
  /\ Ends(a, "completed") \/ Suspends(a, "tools") \/ NextRound(a)

ToolsReturn(a) == work[a].pc = "tools" /\ NextRound(a)

\* The conclusion may fail: what there is so far is the result.
WrapsUp(a) == work[a].pc = "wrapping" /\ Ends(a, "completed")

\* Text that imitates tool calls counts as a failure.
SingleShot(a) ==
  /\ work[a].pc = "single"
  /\ Ends(a, "completed") \/ Ends(a, "failed")

ModelRaises(a) == work[a].pc = "asking" /\ Ends(a, "failed")

Execution(a) ==
  ExecutionBegins(a) \/ ModelAnswers(a) \/ ToolsReturn(a) \/ WrapsUp(a) \/ SingleShot(a)
    \/ ModelRaises(a)

------------------------------------------------------------------------------
(* Callers *)

\* cancel_agent without its test.
CancelledAnyway(a) == [agents EXCEPT ![a] = [status |-> "cancelled", told |-> "cancelled"]]

\* cancel_agent: an agent that has ended keeps its verdict; the task goes on.
Cancelled(a) ==
  IF agents[a].status = "running"
    THEN [agents EXCEPT ![a] = [status |-> "cancelled", told |-> "cancelled"]]
    ELSE agents

\* POST /subagents/{id}/cancel
CancelRequest(a) ==
  /\ a \in Known
  /\ agents' = Cancelled(a)
  /\ UNCHANGED <<work, caller>>

\* A tool call and a worker are told of a refusal at once; a monitor rests.
Delegates(c) ==
  /\ c \in ToolCalls \cup Workers => caller[c].pc = "idle"
  /\ c \in Monitors => caller[c].pc \in {"idle", "resting"}
  /\ \/ \E a \in Ids : Create(a) /\ caller' =
          [caller EXCEPT ![c].pc = "polling", ![c].agent = a]
     \/ /\ Cardinality(Known) >= MaxAgents
        /\ caller' = [caller EXCEPT ![c].pc = IF c \in Monitors THEN "resting" ELSE "idle"]
        /\ UNCHANGED <<agents, work>>

Tells(c, told) ==
  /\ caller' = [caller EXCEPT ![c] =
                  [pc |-> IF c \in Monitors THEN "resting" ELSE "idle", agent |-> None,
                   told |-> told]]
  /\ UNCHANGED <<agents, work>>

PollSeesEnd(c) ==
  /\ caller[c].pc = "polling"
  /\ agents[caller[c].agent].status \in Final
  /\ Tells(c, agents[caller[c].agent].status)

\* The deadline of the tool call, the last of the polls of a worker or a monitor;
\* the monitor keeps the result of an earlier cycle.
PollExpires(c) ==
  /\ caller[c].pc = "polling"
  /\ agents[caller[c].agent].status = "running"
  /\ Tells(c, IF c \in Monitors THEN caller[c].told ELSE "running")

\* The call goes without a word to the manager.
CallDropped(c) ==
  /\ c \in ToolCalls
  /\ caller[c].pc = "polling"
  /\ caller' = [caller EXCEPT ![c] = [pc |-> "idle", agent |-> None, told |-> "nothing"]]
  /\ UNCHANGED <<agents, work>>

\* The turn of the call is stopped: its agent is marked as cancelled.
CallCancelled(c) ==
  /\ c \in ToolCalls
  /\ caller[c].pc = "polling"
  /\ agents' = Cancelled(caller[c].agent)
  /\ caller' = [caller EXCEPT ![c] = [pc |-> "idle", agent |-> None, told |-> "nothing"]]
  /\ UNCHANGED work

\* MonitorAgent.stop cancels the loop and leaves its agent alone.
MonitorStops(c) ==
  /\ c \in Monitors
  /\ caller[c].pc # "idle"
  /\ caller' = [caller EXCEPT ![c].pc = "idle", ![c].agent = None]
  /\ UNCHANGED <<agents, work>>

Caller(c) ==
  Delegates(c) \/ PollSeesEnd(c) \/ PollExpires(c) \/ CallCancelled(c) \/ MonitorStops(c)

Next ==
  \/ \E a \in Ids : Execution(a)
  \/ \E a \in Ids : CancelRequest(a)
  \/ \E c \in Callers : Caller(c)

Spec == Init /\ [][Next]_vars

(* The loop schedules tasks, the model and the tools answer, polls come to an end. *)
Fairness ==
  /\ \A a \in Ids : WF_vars(Execution(a))
  /\ \A c \in Callers : WF_vars(PollSeesEnd(c) \/ PollExpires(c))

FairSpec == Spec /\ Fairness

------------------------------------------------------------------------------
(* Properties *)

Working == {a \in Ids : work[a].pc \in Awaits}

(* However often agents are cancelled, which does not stop their tasks, no more than
   max_agents executions occupy the model at a time (create_agent). *)
WorkIsBounded == Cardinality(Working) <= MaxAgents

(* A COMPLETED or FAILED agent stays that: a cancel that comes late, from a request
   or from the stop of its turn, does not rewrite the outcome (cancel_agent). *)
VerdictStands ==
  [][\A a \in Ids : agents[a].status \in {"completed", "failed"} =>
       agents'[a].status = agents[a].status]_vars

(* A tool call never ends with its agent RUNNING behind its back: the turn was told
   so, or the stop of the turn marked the agent (CreateSubagentTool). *)
NoOrphans ==
  [][\A c \in ToolCalls : caller[c].pc = "polling" /\ caller'[c].pc # "polling" =>
       caller'[c].told = "running" \/ agents'[caller[c].agent].status # "running"]_vars

(* Every execution ends, also when the model asks for tools again and again
   (_run_tool_loop). *)
ExecutionsEnd == \A a \in Ids : work[a].pc = "scheduled" ~> work[a].pc = "over"

(* Not kept: "maximum number of concurrent subagents".  Agents that have ended
   keep their slots, so that at last nobody may delegate. *)
SlotsAreForTheLive == Cardinality(Known) = MaxAgents => Known \cap Working # {}

(* Not kept: a cancelled agent is cancelled for good.  Its task goes on and
   overwrites the status. *)
CancelledStays ==
  [][\A a \in Ids : agents[a].status = "cancelled" => agents'[a].status = "cancelled"]_vars

==============================================================================
