----------------------------- MODULE AgentTurnMC -----------------------------
(* The agent's turns for TLC: a call that is allowed, one that is refused, and one that has to be
   confirmed in all but one. *)
EXTENDS AgentTurn

CallsTried == {[tool |-> "run_shell", arg |-> a] : a \in {"plain", "listed", "dangerous"}}
==============================================================================
