------------------------------ MODULE AgentTurn ------------------------------
(* The turns of one conversation in the agent graph (agent/graph.py): the entry
   node that repairs and compresses the checkpoint, the loop of model and tools
   with the permission gate and its interrupt, and the ways a turn is cut short;
   besides them the requests that compress or clear the checkpoint.

   Turns and requests hold the conversation's lock (ConversationLock).  A node's
   messages reach the checkpoint when the node returns (LangGraph, external): a
   node that is stopped leaves nothing.  The repository's copy of the messages and
   the trajectory are not read by any of this and left out. *)
EXTENDS Permissions, Compression

CONSTANTS
  MaxTurns,       \* bound: turns of the conversation
  MaxCalls,       \* bound: calls in one answer of the model
  MaxRounds,      \* bound: answers with calls in one turn
  TurnModes,      \* the conversation's permission modes tried
  TurnCalls,      \* the calls the model makes
  InUse,          \* configured strategies
  RecursionLimit  \* steps of the graph in one invocation

ASSUME AgentTurnAssumption ==
  /\ MaxTurns \in Nat
  /\ MaxCalls \in Nat
  /\ MaxRounds \in Nat
  /\ TurnModes \subseteq Modes
  /\ TurnCalls \subseteq Calls
  /\ InUse \subseteq Strategies
  /\ RecursionLimit \in Nat \ {0}

VARIABLES
  log,       \* messages in the checkpoint
  turn,      \* the running turn
  calls,     \* the calls of the model's last answer, while the turn handles them
  approved,  \* positions of calls that the user has approved
  ran,       \* positions of calls that have been executed
  manual     \* the compression request: what it read from the checkpoint

vars == <<log, turn, calls, approved, ran, manual>>

Workspace == TRUE
NoRequest == [reading |-> FALSE, read |-> <<>>]

TypeOK ==
  /\ log \in Seq([kind : Kinds, turn : 0..MaxTurns, round : 0..MaxRounds,
                  calls : SUBSET (1..MaxCalls)])
  /\ turn \in [pc : {"idle", "compress", "model", "tools", "approval", "running"},
               number : 0..MaxTurns, mode : Modes, approver : BOOLEAN,
               round : 0..MaxRounds, steps : 0..RecursionLimit]
  /\ calls \in BoundedSeq(TurnCalls, MaxCalls)
  /\ approved \subseteq 1..MaxCalls
  /\ ran \subseteq 1..MaxCalls
  /\ manual.reading \in BOOLEAN /\ manual.read \in {<<>>, log}

Init ==
  /\ log = <<>>
  /\ turn = [pc |-> "idle", number |-> 0, mode |-> "read_only", approver |-> FALSE,
             round |-> 0, steps |-> 0]
  /\ calls = <<>> /\ approved = {} /\ ran = {}
  /\ manual = NoRequest

------------------------------------------------------------------------------
(* Entering the graph *)

\* A slip: a request does not keep turns out.
LockedByTurns == turn.pc # "idle"

Locked == turn.pc # "idle" \/ manual.reading

\* _build_initial_messages: the head of the session on the first turn, also when the
\* lookup of the checkpoint fails; then what was retrieved, then the question.
InitialMessages(n, first, retrieved) ==
  (IF first THEN <<Message("head", n, 0, {})>> ELSE <<>>)
    \o (IF retrieved THEN <<Message("inject", n, 0, {})>> ELSE <<>>)
    \o <<Message("human", n, 0, {})>>

\* run and stream, up to the entry of the graph.  Some turns have an approver.
TurnBegins ==
  /\ ~Locked /\ turn.number < MaxTurns
  /\ \E mode \in TurnModes, approver, retrieved, fails \in BOOLEAN :
       LET n == turn.number + 1
       IN  /\ turn' = [pc |-> "compress", number |-> n, round |-> 0, steps |-> 0,
                       mode |-> EffectiveMode(mode, ~approver, Workspace), approver |-> approver]
           /\ log' = log \o InitialMessages(n, log = <<>> \/ fails, retrieved)
  /\ UNCHANGED <<calls, approved, ran, manual>>

\* _compress_node.
Compress ==
  /\ turn.pc = "compress"
  /\ \E s \in InUse, pressed \in BOOLEAN :
       LET repaired == EnsureToolPairing(log)
       IN  \E kept \in IF pressed THEN Compressed(s, repaired) ELSE {repaired} :
             log' = Replace(log, log, kept)
  /\ turn' = [turn EXCEPT !.pc = "model", !.steps = 1]
  /\ UNCHANGED <<calls, approved, ran, manual>>

------------------------------------------------------------------------------
(* Model and tools *)

Over == turn' = [turn EXCEPT !.pc = "idle", !.round = 0, !.steps = 0]
Forget == calls' = <<>> /\ approved' = {} /\ ran' = {}

\* What _call_model_node sends to the model.
View == EnsureToolPairing(log)

\* The limit is met when another step would have to follow: a fallback reply.
NextStep(pc) ==
  IF turn.steps + 1 >= RecursionLimit THEN Over
  ELSE turn' = [turn EXCEPT !.pc = pc, !.steps = @ + 1,
                            !.round = IF pc = "tools" THEN @ ELSE @ + 1]

\* An answer without calls ends the turn.
ModelAnswers ==
  /\ turn.pc = "model"
  /\ \E cs \in BoundedSeq(TurnCalls, MaxCalls) :
       /\ cs # <<>> => turn.round < MaxRounds
       /\ log' = Append(log, Message("ai", turn.number, turn.round, DOMAIN cs))
       /\ IF cs = <<>> THEN Over /\ calls' = <<>>
          ELSE NextStep("tools") /\ calls' = IF turn'.pc = "idle" THEN <<>> ELSE cs
  /\ UNCHANGED <<approved, ran, manual>>

Verdict(i) == Evaluate(turn.mode, calls[i], Workspace)
With(verdict) == {i \in DOMAIN calls : Verdict(i) = verdict}

\* A slip: whatever the user approves is executed.
ExecutableOnceApproved(yes) == With("allow") \cup yes

\* The calls that are executed: allowed, or confirmed one by one.
Executable(yes) == With("allow") \cup (With("confirm") \cap yes)

\* _permission_gate: without an approver a confirmation is a refusal.
Gate ==
  /\ turn.pc = "tools"
  /\ IF With("confirm") # {} /\ turn.approver
     THEN turn' = [turn EXCEPT !.pc = "approval"] /\ UNCHANGED ran
     ELSE turn' = [turn EXCEPT !.pc = "running"] /\ ran' = Executable({})
  /\ UNCHANGED <<log, calls, approved, manual>>

\* The interrupt is resumed with decisions about any of the calls; the tools node
\* starts again, in an invocation with a limit of its own.
Resume ==
  /\ turn.pc = "approval"
  /\ \E yes \in SUBSET DOMAIN calls : approved' = yes /\ ran' = Executable(yes)
  /\ turn' = [turn EXCEPT !.pc = "running", !.steps = 0]
  /\ UNCHANGED <<log, calls, manual>>

Answer(i) == Message("tool", turn.number, turn.round, {i})

\* Results, errors, timeouts and refusals answer the calls in their order.
ToolsReturn ==
  /\ turn.pc = "running"
  /\ log' = log \o [i \in DOMAIN calls |-> Answer(i)]
  /\ NextStep("model") /\ Forget
  /\ UNCHANGED manual

\* The turn's task is cancelled, or the model raises or times out.
CutShort == turn.pc # "idle" /\ Over /\ Forget /\ UNCHANGED <<log, manual>>

------------------------------------------------------------------------------
(* Requests for the checkpoint *)

\* compress_conversation, with the lock: the checkpoint is read ...
ManualReads ==
  /\ ~Locked /\ Len(log) >= 2
  /\ manual' = [reading |-> TRUE, read |-> log]
  /\ UNCHANGED <<log, turn, calls, approved, ran>>

\* ... and, when the strategy has an answer, written.
ManualWrites ==
  /\ manual.reading
  /\ \E s \in InUse : \E kept \in Compressed(s, manual.read) : log' = Replace(log, manual.read, kept)
  /\ manual' = NoRequest
  /\ UNCHANGED <<turn, calls, approved, ran>>

\* clear_conversation_messages.
Clear == ~Locked /\ log' = <<>> /\ UNCHANGED <<turn, calls, approved, ran, manual>>

Next ==
  \/ TurnBegins \/ Compress \/ ModelAnswers \/ Gate \/ Resume \/ ToolsReturn \/ CutShort
  \/ ManualReads \/ ManualWrites \/ Clear

Spec == Init /\ [][Next]_vars

------------------------------------------------------------------------------
(* However turns were stopped before, and whatever was compressed, each call the
   model is shown is answered once and directly behind it
   (compression/base.py:182-243, graph.py:754-770). *)
ModelSeesPairs == turn.pc = "model" => Paired(View)

(* While a turn runs, its question and the head of the session are among what the
   model sees (sliding_window.py:26-30, full_summary.py:82-85). *)
QuestionStands ==
  turn.pc # "idle" =>
    /\ \E m \in ToSet(log) : m.kind = "head"
    /\ \E m \in ToSet(log) : m.kind = "human" /\ m.turn = turn.number

(* The checkpoint is in the order of the conversation, although a compression reads
   it and writes it back later (conversations.py:417-435, graph.py:177-216). *)
Chronological == \A i, j \in DOMAIN log : i < j => log[i].turn <= log[j].turn

(* What has to be confirmed runs only if an approver confirmed that very call, and
   what is refused runs in no case (graph.py:785-893). *)
RunsByConsent ==
  \A i \in ran :
    /\ calls[i].arg # "dangerous"
    /\ Verdict(i) # "deny"
    /\ Verdict(i) = "confirm" => turn.approver /\ i \in approved

(* A conversation in a higher mode would not be refused, or asked about, what this
   turn's mode grants, whatever the call; and the tool's own review agrees with the
   gate (permissions.py:369-401, :507-566, execution.py:168-190, :255-275). *)
ModesAreOrdered ==
  turn.pc = "tools" => \A call \in Calls :
    /\ \A mode \in Modes : Ladder[turn.mode] <= Ladder[mode] =>
         Severity[Evaluate(turn.mode, call, Workspace)] <= Severity[Evaluate(mode, call, Workspace)]
    /\ Evaluate(turn.mode, call, Workspace) # "deny" => Reviewed(turn.mode, call)

(* summarizer_context.py:121-127 says of the head that summaries are taken out of
   it, for otherwise it would grow each time and a summary would never be summarised
   again.  Refuted: a system message retrieved for the next turn follows the
   summary, which then does not end the head. *)
OneSummary == Cardinality({i \in DOMAIN log : log[i].kind = "summary"}) <= 1

(* graph.py:1694-1695 says that the steps after a resume come out of the same budget.
   Refuted: a resumed invocation counts from zero. *)
OneBudget == 2 * turn.round <= RecursionLimit

(* summarizer_context.py:93-97 says that what precedes the first question forms a
   turn of its own, so that a summary covers it.  Refuted: it is in no turn, neither
   kept nor summarised. *)
NothingUnsaid == Min(Turns(log)) = ProtectedHead(log) + 1
==============================================================================
