---------------------------- MODULE TaskLifecycle ----------------------------
(***************************************************************************)
(* What the scheduling service promises of each task, with no poll loop,   *)
(* heartbeat, execution or store in sight: the life cycle of a status, and *)
(* whether somebody is working on the task.                                *)
(*                                                                         *)
(* It is the state diagram of docs/plans/2026-08-30-event-timer-tasks-     *)
(* design.md §4 as the code has it, which is weaker than the diagram in    *)
(* two places: a task that was paused or cancelled after the scan listed   *)
(* it is still launched, and the end of a flight replaces CANCELLED.       *)
(***************************************************************************)
CONSTANTS Tasks, Cron

VARIABLES
  status,  \* of each task
  flying   \* the tasks somebody is working on

Init ==
  /\ status = [t \in Tasks |-> "absent"]
  /\ flying = {}

Stays(t) == t \in flying' <=> t \in flying

Same(t) == status'[t] = status[t] /\ Stays(t)

Moves(t, from, to) == status[t] \in from /\ status'[t] \in to /\ Stays(t)

Admit(t)  == Moves(t, {"absent"}, {"pending"})
Cancel(t) == status[t] # "absent" /\ status'[t] = "cancelled" /\ Stays(t)
Pause(t)  == t \in Cron /\ Moves(t, {"pending"}, {"paused"})
Resume(t) == t \in Cron /\ Moves(t, {"paused"}, {"pending"})
Miss(t)   == t \notin Cron /\ Moves(t, {"pending"}, {"missed"})
Reap(t)   == Moves(t, {"running"}, {"failed"})

\* The task goes into the hands of a delivery or an execution.
Launch(t) ==
  /\ t \notin flying /\ t \in flying'
  /\ status[t] \in {"pending", "paused", "cancelled"}
  /\ status'[t] = "running"

\* It comes back with a verdict, which a FAILED of the reaper outweighs.
Outcomes(t) == IF t \in Cron THEN {"pending"} ELSE {"completed", "failed"}

Land(t) ==
  /\ t \in flying /\ t \notin flying'
  /\ IF status[t] = "failed" THEN status'[t] = "failed"
     ELSE status'[t] \in Outcomes(t)

\* Whoever worked on it is gone, without a verdict.
Drop(t) == t \in flying /\ t \notin flying' /\ status'[t] = status[t]

\* Tasks move independently; one step of the service may move several.
Move ==
  \A t \in Tasks :
    \/ Same(t) \/ Admit(t) \/ Cancel(t) \/ Pause(t) \/ Resume(t) \/ Miss(t)
    \/ Reap(t) \/ Launch(t) \/ Land(t) \/ Drop(t)

\* The process is gone.
Lose ==
  /\ status' = [t \in Tasks |-> "absent"]
  /\ flying' = {}

\* A process starts from the table: nothing is RUNNING, nobody works on anything.
Load ==
  /\ \A t \in Tasks : status[t] = "absent"
  /\ flying = {} /\ flying' = {}
  /\ \A t \in Tasks :
       status'[t] \in {"absent", "pending", "completed", "cancelled", "failed",
                       "paused", "missed"}

Next == Move \/ Lose \/ Load

Spec == Init /\ [][Next]_<<status, flying>>
=============================================================================
