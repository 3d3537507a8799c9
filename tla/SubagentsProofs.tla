--------------------------- MODULE SubagentsProofs ---------------------------
(***************************************************************************)
(* Proofs about Subagents, for any number of agents, tool calls, workers   *)
(* and monitors.                                                           *)
(*                                                                         *)
(* The limit is on the agents that are known (Bounded); that it limits     *)
(* those that work, cancelled or not, takes that whoever works is known,   *)
(* and that a verdict stands takes that whoever has one works no more      *)
(* (Placed).  A poll is of an agent that is known (Polled).                *)
(***************************************************************************)
EXTENDS Subagents, FiniteSetTheorems, TLAPS

\* Who works is known, and who has completed or failed is over.
Placed ==
  \A a \in Ids :
    /\ agents[a].status = "absent" <=> work[a].pc = "none"
    /\ agents[a].status \in {"completed", "failed"} => work[a].pc = "over"
    /\ work[a].pc \in {"none", "scheduled", "asking", "tools"} => work[a].round < MaxRounds

\* A poll is of an agent that is known.
Polled == \A c \in Callers : caller[c].pc = "polling" => caller[c].agent \in Known

Bounded == Cardinality(Known) <= MaxAgents

IInv == TypeOK /\ Placed /\ Polled /\ Bounded

LEMMA InitIInv == Init => IInv
<1> SUFFICES ASSUME Init PROVE IInv
  OBVIOUS
<1>1. TypeOK
  BY SubagentsAssumption DEF Init, TypeOK
<1>2. Placed /\ Polled
  BY SubagentsAssumption DEF Init, Placed, Polled
<1>3. Known = {}
  BY DEF Init, Known
<1>4. Bounded
  BY <1>3, FS_EmptySet, SubagentsAssumption DEF Bounded
<1> QED
  BY <1>1, <1>2, <1>4 DEF IInv

(* What any step does to an agent that is known already: nothing, or one of the
   steps of its task, or the mark that it is cancelled. *)
LEMMA CancelledType ==
  ASSUME TypeOK, NEW a \in Ids
  PROVE  /\ Cancelled(a) \in [Ids -> [status : {"absent", "running"} \cup Final,
                                      told : {"nothing", "started"} \cup Final]]
         /\ \A b \in Ids : Cancelled(a)[b] =
              IF b = a /\ agents[a].status = "running"
                THEN [status |-> "cancelled", told |-> "cancelled"] ELSE agents[b]
BY DEF TypeOK, Cancelled, Final

\* The steps of the task of an agent.
LEMMA ExecutionStep ==
  ASSUME TypeOK, Placed, NEW a \in Ids, Execution(a)
  PROVE  /\ caller' = caller
         /\ agents' \in [Ids -> [status : {"absent", "running"} \cup Final,
                                 told : {"nothing", "started"} \cup Final]]
         /\ work' \in [Ids -> [pc : {"none", "over"} \cup Awaits, round : 0..MaxRounds]]
         /\ \A b \in Ids \ {a} : agents'[b] = agents[b] /\ work'[b] = work[b]
         /\ work[a].pc \in Awaits
         /\ \/ agents'[a].status = agents[a].status /\ work'[a].pc \in Awaits
            \/ agents'[a].status \in {"completed", "failed"} /\ work'[a].pc = "over"
         /\ work'[a].pc # "scheduled"
         /\ work'[a].pc \in {"asking", "tools"} => work'[a].round < MaxRounds
<1> DEFINE Goal == 
         /\ caller' = caller
         /\ agents' \in [Ids -> [status : {"absent", "running"} \cup Final,
                                 told : {"nothing", "started"} \cup Final]]
         /\ work' \in [Ids -> [pc : {"none", "over"} \cup Awaits, round : 0..MaxRounds]]
         /\ \A b \in Ids \ {a} : agents'[b] = agents[b] /\ work'[b] = work[b]
         /\ \/ agents'[a].status = agents[a].status /\ work'[a].pc \in Awaits
            \/ agents'[a].status \in {"completed", "failed"} /\ work'[a].pc = "over"
         /\ work'[a].pc # "scheduled"
         /\ work'[a].pc \in {"asking", "tools"} => work'[a].round < MaxRounds
<1>1. ASSUME NEW s \in {"completed", "failed"}, Ends(a, s) PROVE Goal
  BY <1>1 DEF Ends, TypeOK, Final
<1>2. ASSUME work[a].pc = "asking", Suspends(a, "tools") PROVE Goal
  BY <1>2 DEF Suspends, TypeOK, Placed, Awaits
<1>3. ASSUME NextRound(a), work[a].pc \in {"asking", "tools"} PROVE Goal
  <2>1. work[a].round \in Nat /\ work[a].round + 1 \in 0..MaxRounds
    BY <1>3, SubagentsAssumption DEF TypeOK, Placed
  <2> QED
    BY <1>3, <2>1, SubagentsAssumption DEF NextRound, TypeOK, Awaits
<1>4. CASE ExecutionBegins(a)
  BY <1>4 DEF ExecutionBegins, TypeOK, Awaits, Placed, Final
<1>5. work[a].pc \in Awaits
  BY DEF Execution, ExecutionBegins, ModelAnswers, ToolsReturn, WrapsUp, SingleShot, ModelRaises, Awaits
<1>6. CASE ModelAnswers(a)
  BY <1>1, <1>2, <1>3, <1>6 DEF ModelAnswers, Awaits
<1>7. CASE ToolsReturn(a)
  BY <1>3, <1>5, <1>7 DEF ToolsReturn
<1>8. CASE WrapsUp(a) \/ SingleShot(a) \/ ModelRaises(a)
  BY <1>1, <1>5, <1>8 DEF WrapsUp, SingleShot, ModelRaises
<1> QED
  BY <1>4, <1>5, <1>6, <1>7, <1>8 DEF Execution

\* An agent that is created while there is room.
LEMMA CreateStep ==
  ASSUME IInv, NEW a \in Ids, Create(a)
  PROVE  /\ agents' = [agents EXCEPT ![a] = [status |-> "running", told |-> "nothing"]]
         /\ work' = [work EXCEPT ![a].pc = "scheduled"]
         /\ agents[a].status = "absent" /\ work[a].pc = "none"
         /\ Known' = Known \cup {a}
         /\ Bounded'
<1>1. agents' = [agents EXCEPT ![a] = [status |-> "running", told |-> "nothing"]]
      /\ work' = [work EXCEPT ![a].pc = "scheduled"]
      /\ a \notin Known /\ Cardinality(Known) < MaxAgents
  BY DEF Create
<1>2. Known' = Known \cup {a}
  BY <1>1 DEF Known, IInv, TypeOK
<1>3. IsFiniteSet(Known)
  BY FS_Subset, SubagentsAssumption DEF Known
<1>4. Cardinality(Known') = Cardinality(Known) + 1 /\ Cardinality(Known) \in Nat
  BY <1>1, <1>2, <1>3, FS_AddElement, FS_CardinalityType
<1> QED
  BY <1>1, <1>2, <1>4, SubagentsAssumption DEF Bounded, Known, IInv, Placed

LEMMA StepIInv ==
  ASSUME IInv, [Next]_vars
  PROVE  IInv'
<1>1. TypeOK /\ Placed /\ Polled /\ Bounded
  BY DEF IInv
<1>2. CASE UNCHANGED vars
  BY <1>1, <1>2 DEF vars, IInv, TypeOK, Placed, Polled, Bounded, Known
<1>3. ASSUME TypeOK', NEW a \in Ids,
             \A b \in Ids : (agents'[b].status = "absent") = (agents[b].status = "absent"),
             caller' = caller, Placed'
      PROVE  IInv'
  <2>1. Known' = Known
    BY <1>3 DEF Known
  <2> QED
    BY <1>1, <1>3, <2>1 DEF IInv, Polled, Bounded
<1>4. ASSUME NEW a \in Ids, Execution(a) PROVE IInv'
  <2>1. TypeOK'
    BY <1>1, <1>4, ExecutionStep DEF TypeOK
  <2>2. Placed'
    BY <1>1, <1>4, ExecutionStep DEF Placed, Awaits
  <2>3. \A b \in Ids : (agents'[b].status = "absent") = (agents[b].status = "absent")
    BY <1>1, <1>4, ExecutionStep DEF Placed, Awaits
  <2> QED
    BY <1>3, <1>4, <2>1, <2>2, <2>3, <1>1, ExecutionStep
<1>5. ASSUME NEW a \in Ids, agents' = Cancelled(a), work' = work
      PROVE  /\ agents' \in [Ids -> [status : {"absent", "running"} \cup Final,
                                     told : {"nothing", "started"} \cup Final]]
             /\ Placed' /\ Known' = Known
  <2>1. \A b \in Ids : agents'[b].status =
          IF b = a /\ agents[a].status = "running" THEN "cancelled" ELSE agents[b].status
    BY <1>1, <1>5, CancelledType
  <2>2. Placed'
    BY <1>1, <1>5, <2>1 DEF Placed
  <2>3. Known' = Known
    BY <2>1 DEF Known
  <2> QED
    BY <1>1, <1>5, <2>2, <2>3, CancelledType
<1>6. ASSUME NEW a \in Ids, CancelRequest(a) PROVE IInv'
  BY <1>1, <1>5, <1>6 DEF CancelRequest, IInv, TypeOK, Polled, Bounded
<1>7. ASSUME NEW c \in Callers, agents' = agents, work' = work, caller' = [caller EXCEPT ![c] = caller'[c]],
             caller'[c] \in [pc : {"idle", "resting"}, agent : Ids \cup {None},
                             told : {"nothing", "running"} \cup Final]
      PROVE  IInv'
  <2>1. TypeOK'
    BY <1>1, <1>7 DEF TypeOK
  <2>2. Placed' /\ Known' = Known
    BY <1>1, <1>7 DEF Placed, Known
  <2>3. Polled'
    BY <1>1, <1>7, <2>2 DEF Polled, TypeOK
  <2> QED
    BY <1>1, <2>1, <2>2, <2>3 DEF IInv, Bounded
<1>8. ASSUME NEW c \in Callers, Delegates(c) PROVE IInv'
  <2>1. ASSUME NEW a \in Ids, Create(a), caller' = [caller EXCEPT ![c].pc = "polling", ![c].agent = a]
        PROVE  IInv'
    <3>1. TypeOK'
      <4>1. caller' \in [Callers -> [pc : {"idle", "polling", "resting"}, agent : Ids \cup {None},
                                    told : {"nothing", "running"} \cup Final]]
        BY <1>1, <2>1 DEF TypeOK
      <4>2. work' \in [Ids -> [pc : {"none", "over"} \cup Awaits, round : 0..MaxRounds]]
        BY <1>1, <2>1, CreateStep DEF TypeOK, Awaits
      <4>3. agents' \in [Ids -> [status : {"absent", "running"} \cup Final,
                                told : {"nothing", "started"} \cup Final]]
        BY SMTT(30), <1>1, <2>1, CreateStep DEF TypeOK
      <4> QED
        BY <4>1, <4>2, <4>3 DEF TypeOK
    <3>2. Placed'
      BY <1>1, <2>1, CreateStep DEF Placed, TypeOK, IInv
    <3>3. Known \subseteq Known' /\ a \in Known' /\ Bounded'
      BY <2>1, CreateStep
    <3>4. Polled'
      BY <1>1, <2>1, <3>3 DEF Polled, TypeOK
    <3> QED
      BY <3>1, <3>2, <3>3, <3>4 DEF IInv
  <2>2. ASSUME caller' = [caller EXCEPT ![c].pc = IF c \in Monitors THEN "resting" ELSE "idle"],
               UNCHANGED <<agents, work>>
        PROVE  IInv'
    BY <1>1, <1>7, <2>2 DEF TypeOK
  <2> QED
    BY <1>8, <2>1, <2>2 DEF Delegates
<1>9. ASSUME NEW c \in Callers, NEW told \in {"nothing", "running"} \cup Final, Tells(c, told) PROVE IInv'
  BY <1>1, <1>7, <1>9 DEF Tells, TypeOK
<1>10. ASSUME NEW c \in Callers, PollSeesEnd(c) \/ PollExpires(c) PROVE IInv'
  <2>1. caller[c].told \in {"nothing", "running"} \cup Final
    BY <1>1 DEF TypeOK
  <2> QED
    BY <1>9, <1>10, <2>1 DEF PollSeesEnd, PollExpires
<1>11. ASSUME NEW c \in Callers, CallCancelled(c) PROVE IInv'
  <2>1. caller[c].agent \in Ids
    BY <1>1, <1>11 DEF CallCancelled, Polled, Known
  <2>2. TypeOK'
    BY <1>1, <1>5, <1>11, <2>1 DEF CallCancelled, TypeOK
  <2>3. Placed' /\ Known' = Known
    BY <1>5, <1>11, <2>1 DEF CallCancelled
  <2>4. Polled'
    BY <1>1, <1>11, <2>3 DEF CallCancelled, Polled, TypeOK
  <2> QED
    BY <1>1, <2>2, <2>3, <2>4 DEF IInv, Bounded
<1>12. ASSUME NEW c \in Callers, MonitorStops(c) PROVE IInv'
  BY <1>1, <1>7, <1>12 DEF MonitorStops, TypeOK
<1> QED
  BY <1>2, <1>4, <1>6, <1>8, <1>10, <1>11, <1>12 DEF Next, Caller

------------------------------------------------------------------------------
(* Agents, their tasks and those who wait for them stay in the shape that the proofs
   need. *)
THEOREM IInvAlways == Spec => []IInv
BY InitIInv, StepIInv, PTL DEF Spec

(* Every agent, task and caller stays what it is to be. *)
THEOREM TypeCorrect == Spec => []TypeOK
BY IInvAlways, PTL DEF IInv

(* Cancelled agents go on working and are counted: no more than max_agents executions
   occupy the model at a time. *)
THEOREM WorkIsBoundedHolds == Spec => []WorkIsBounded
<1>1. IInv => WorkIsBounded
  <2> SUFFICES ASSUME IInv PROVE WorkIsBounded
    OBVIOUS
  <2>1. Working \subseteq Known
    BY DEF IInv, Placed, Working, Known, Awaits
  <2>2. IsFiniteSet(Known)
    BY FS_Subset, SubagentsAssumption DEF Known
  <2>3. Cardinality(Working) <= Cardinality(Known)
    BY <2>1, <2>2, FS_Subset
  <2>4. Cardinality(Working) \in Nat /\ Cardinality(Known) \in Nat
    BY <2>1, <2>2, FS_Subset, FS_CardinalityType
  <2> QED
    BY <2>3, <2>4, SubagentsAssumption DEF IInv, Bounded, WorkIsBounded
<1> QED
  BY <1>1, IInvAlways, PTL

(* A verdict of an agent stands, whoever cancels it later. *)
THEOREM VerdictStandsHolds == Spec => VerdictStands
<1>1. ASSUME IInv, [Next]_vars, NEW a \in Ids, agents[a].status \in {"completed", "failed"}
      PROVE  agents'[a].status = agents[a].status
  <2>1. TypeOK /\ Placed /\ Polled
    BY <1>1 DEF IInv
  <2>2. ASSUME NEW b \in Ids, Execution(b) PROVE agents'[a].status = agents[a].status
    BY <1>1, <2>1, <2>2, ExecutionStep DEF Placed, Awaits
  <2>3. ASSUME NEW b \in Ids, agents' = Cancelled(b) PROVE agents'[a].status = agents[a].status
    BY <1>1, <2>1, <2>3, CancelledType
  <2>4. ASSUME NEW b \in Ids, Create(b) PROVE agents'[a].status = agents[a].status
    BY <1>1, <2>1, <2>4, CreateStep DEF TypeOK
  <2>5. ASSUME NEW c \in Callers, CallCancelled(c) PROVE agents'[a].status = agents[a].status
    BY <2>1, <2>3, <2>5 DEF CallCancelled, Polled, Known
  <2> QED
    BY <1>1, <2>2, <2>3, <2>4, <2>5
    DEF Next, Caller, Delegates, PollSeesEnd, PollExpires, Tells, MonitorStops, CancelRequest, vars
<1>2. IInv /\ [Next]_vars =>
        [\A a \in Ids : agents[a].status \in {"completed", "failed"} =>
           agents'[a].status = agents[a].status]_vars
  BY <1>1
<1> QED
  BY <1>2, IInvAlways, PTL DEF Spec, VerdictStands

(* No tool call ends while its agent works on without the turn having been told. *)
THEOREM NoOrphansHolds == Spec => NoOrphans
<1>1. ASSUME IInv, [Next]_vars, NEW c \in ToolCalls, caller[c].pc = "polling", caller'[c].pc # "polling"
      PROVE  caller'[c].told = "running" \/ agents'[caller[c].agent].status # "running"
  <2>1. TypeOK /\ Placed /\ Polled /\ c \in Callers /\ c \notin Monitors
    BY <1>1, SubagentsAssumption DEF IInv, Callers
  <2>2. caller[c].agent \in Ids
    BY <1>1, <2>1 DEF Polled, Known
  <2>3. caller' # caller
    BY <1>1
  <2>4. PICK d \in Callers : Caller(d)
    BY <1>1, <2>1, <2>3, ExecutionStep DEF Next, CancelRequest, vars
  <2>5. d = c
    BY <1>1, <2>1, <2>4 DEF Caller, Delegates, PollSeesEnd, PollExpires, Tells, CallCancelled, MonitorStops, TypeOK
  <2>6. CASE PollSeesEnd(c)
    BY <2>6 DEF PollSeesEnd, Tells, Final
  <2>7. CASE PollExpires(c)
    BY <2>1, <2>7 DEF PollExpires, Tells, TypeOK
  <2>8. CASE CallCancelled(c)
    BY SMTT(30), <2>1, <2>2, <2>8, CancelledType DEF CallCancelled
  <2> QED
    BY <1>1, <2>1, <2>4, <2>5, <2>6, <2>7, <2>8 DEF Caller, Delegates, MonitorStops
<1>2. IInv /\ [Next]_vars =>
        [\A c \in ToolCalls : caller[c].pc = "polling" /\ caller'[c].pc # "polling" =>
           caller'[c].told = "running" \/ agents'[caller[c].agent].status # "running"]_vars
  BY <1>1
<1> QED
  BY <1>2, IInvAlways, PTL DEF Spec, NoOrphans
==============================================================================
