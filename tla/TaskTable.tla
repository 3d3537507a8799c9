------------------------------ MODULE TaskTable ------------------------------
(***************************************************************************)
(* What the task scheduler, its heartbeat and its store all talk about:    *)
(* the tasks, their statuses and the arithmetic of their due times         *)
(* (scheduler/models.py, scheduler/cron.py).                               *)
(*                                                                         *)
(* Time is counted in units of the poll loop's shortest sleep.  A cron     *)
(* expression is abstracted to "every Period units": next_after(t) is the  *)
(* first multiple of Period strictly after t, as croniter's get_next is    *)
(* the first matching minute strictly after its argument.                  *)
(***************************************************************************)
EXTENDS Integers, FiniteSets

CONSTANTS
  Tasks,      \* task ids (uuid4 in the code)
  NoTask,     \* "no task is being handled"
  Cron,       \* the tasks whose trigger is CRON; the others are ONCE
  Prompt,     \* the tasks whose mode is "prompt"; the others are "notify"
  Period,     \* distance between two occurrences of a cron task
  DueTimes    \* the scheduled_time values a ONCE task may be created with

ASSUME TaskTableAssumption ==
  /\ NoTask \notin Tasks
  /\ Cron \subseteq Tasks
  /\ Prompt \subseteq Tasks
  /\ Period \in Nat \ {0}
  /\ DueTimes \subseteq Nat \ {0}

\* TaskStatus; "absent" is an id that is not a key of the dict (or not a row).
Statuses ==
  {"absent", "pending", "running", "completed", "cancelled", "failed",
   "paused", "missed"}

\* A task object.  due is scheduled_time of a ONCE task and next_run of a CRON
\* task (the field the scan compares with now); start is last_run.
TaskRecords == [status : Statuses, due : Nat, start : Nat]

\* A row of scheduled_tasks, reduced to what recover() reads.
Rows == [status : Statuses, due : Nat]

AbsentTask == [status |-> "absent", due |-> 0, start |-> 0]
AbsentRow  == [status |-> "absent", due |-> 0]

\* TaskStore._to_record and _to_model, on the fields above.
RowOf(task)    == [status |-> task.status, due |-> task.due]
TaskOfRow(row) == [status |-> row.status, due |-> row.due, start |-> 0]

\* A slip: the occurrence before t (get_prev for get_next).
PreviousBefore(t) == (t \div Period - 1) * Period

\* CronTrigger.next_after: strictly after t, an occurrence at t is consumed.
NextAfter(t) == (t \div Period + 1) * Period

\* A slip: the scan skips finished tasks only.
IsDueOrRunning(task, now) == task.status \in {"pending", "running"} /\ task.due <= now

\* get_due_tasks' test on one task of the working set.
IsDue(task, now) == task.status = "pending" /\ task.due <= now

\* The ids that are keys of the working set.
Known(tbl) == {t \in Tasks : tbl[t].status # "absent"}
=============================================================================
