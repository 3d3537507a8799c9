----------------------------- MODULE Permissions -----------------------------
(* What the gate decides about a tool call (tools/permissions.py), and what the
   execution tools decide once more before they run (tools/execution.py).

   A call is reduced to what the decision reads: the group its name is in and,
   where the arguments count, the class that the patterns and path rules give
   them.  Regular expressions and path resolution are that classification. *)
EXTENDS Naturals

Modes == {"read_only", "workspace_write", "global_write", "full_access", "auto"}

\* The position of a mode on LADDER.
Ladder ==
  [m \in Modes |->
     CASE m = "read_only" -> 0
       [] m = "workspace_write" -> 1
       [] m = "global_write" -> 2
       [] m = "full_access" -> 3
       [] m = "auto" -> 4]

ShellClasses == {"empty", "dangerous", "absolute_write", "listed", "plain"}
PathKinds == {"protected", "escape", "in_workspace", "unbounded"}

\* READ_ONLY_TOOLS, the tools whose arguments count, the rest of KNOWN_TOOLS, and
\* every other name.
Calls ==
  [tool : {"reads", "known", "unknown"}, arg : {"any"}]
    \cup [tool : {"run_shell"}, arg : ShellClasses]
    \cup [tool : {"write_file"}, arg : PathKinds]
    \cup [tool : {"schedule_task"}, arg : {"prompt", "notify"}]

Verdicts == {"deny", "confirm", "allow"}
Severity == [v \in Verdicts |-> CASE v = "deny" -> 0 [] v = "confirm" -> 1 [] v = "allow" -> 2]

\* Nobody is there to approve: at most workspace_write; auto is exempt.
EffectiveMode(mode, unattended, hasWorkspace) ==
  LET ceiling == IF hasWorkspace THEN "workspace_write" ELSE "read_only"
  IN  IF unattended /\ mode # "auto" /\ Ladder[ceiling] < Ladder[mode] THEN ceiling ELSE mode

\* auto lets through what would have to be confirmed.
Asks(mode) == IF mode = "auto" THEN "allow" ELSE "confirm"

ClassifyShell(class, mode) ==
  CASE class \in {"empty", "dangerous"} -> "deny"
    [] class \in {"absolute_write", "listed"} -> Asks(mode)
    [] class = "plain" -> "allow"

\* A slip: only global_write goes beyond the workspace.
EvaluateWriteInside(kind, mode) ==
  IF kind = "in_workspace" \/ (mode = "global_write" /\ kind # "protected") THEN "allow"
  ELSE IF mode = "global_write" THEN "confirm" ELSE "deny"

EvaluateWrite(kind, mode) ==
  CASE mode = "workspace_write" -> IF kind = "in_workspace" THEN "allow" ELSE "deny"
    [] mode = "global_write" -> IF kind = "protected" THEN "confirm" ELSE "allow"
    [] OTHER -> "allow"

\* The tools of KNOWN_TOOLS above read_only.
EvaluateKnown(mode, call, hasWorkspace) ==
  CASE call.tool \in {"run_shell", "write_file"} /\ mode = "workspace_write" /\ ~hasWorkspace -> "deny"
    [] call.tool = "run_shell" /\ (mode # "workspace_write" \/ hasWorkspace) ->
         ClassifyShell(call.arg, mode)
    [] call.tool = "write_file" /\ (mode # "workspace_write" \/ hasWorkspace) ->
         EvaluateWrite(call.arg, mode)
    [] call.tool = "schedule_task" -> IF call.arg = "prompt" THEN Asks(mode) ELSE "allow"
    [] call.tool \in {"reads", "known"} -> "allow"

\* evaluate_tool_call.
Evaluate(mode, call, hasWorkspace) ==
  CASE mode = "read_only" -> IF call.tool = "reads" THEN "allow" ELSE "deny"
    [] mode # "read_only" /\ call.tool = "unknown" ->
         IF mode = "workspace_write" THEN "deny" ELSE "confirm"
    [] mode # "read_only" /\ call.tool # "unknown" -> EvaluateKnown(mode, call, hasWorkspace)

\* is_tool_available: what is bound to the model.
Offered(mode, call) == mode = "read_only" => call.tool = "reads"

\* security_review of the execution tools: a confirmation is only logged.
Reviewed(mode, call) ==
  CASE call.tool = "run_shell" -> ClassifyShell(call.arg, mode) # "deny"
    [] call.tool = "write_file" -> mode # "read_only" /\ EvaluateWrite(call.arg, mode) # "deny"
    [] OTHER -> TRUE

------------------------------------------------------------------------------
(* A step up the ladder never takes a permission away, the ceiling of unattended
   work never grants one, and the gate lets nothing through that the tool itself
   would reject (permissions.py:369-400, :507-566, execution.py:151-190, :255-275). *)
LadderIsMonotone ==
  \A low, high \in Modes, call \in Calls, ws \in BOOLEAN :
    Ladder[low] <= Ladder[high] =>
      Severity[Evaluate(low, call, ws)] <= Severity[Evaluate(high, call, ws)]

CeilingOnlyLowers ==
  \A mode \in Modes, call \in Calls, unattended, ws \in BOOLEAN :
    Severity[Evaluate(EffectiveMode(mode, unattended, ws), call, ws)]
      <= Severity[Evaluate(mode, call, ws)]

GateAgreesWithReview ==
  \A mode \in Modes, call \in Calls, ws \in BOOLEAN :
    Evaluate(mode, call, ws) # "deny" => Reviewed(mode, call)
==============================================================================
