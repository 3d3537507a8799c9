----------------------------- MODULE TaskHistory -----------------------------
(***************************************************************************)
(* The scheduling service with a history variable, and the properties that *)
(* need one: which occurrence of a task was fired or declared missed last, *)
(* in this process or an earlier one.  The history never restrains a step. *)
(***************************************************************************)
EXTENDS TaskService

VARIABLE log  \* fired, missed: slots (0 is none); begun: work on the task began

hvars == <<vars, log>>

NoLog == [fired |-> 0, missed |-> 0, begun |-> FALSE]

\* _fire_task starts on t; the slot it will report is t's due time.
Fires(t) == poll'.pc = "firing" /\ poll'.cur = t /\ poll.cur # t

\* task.due is out and t goes on to its delivery, or towards its runner.
Begins(t) ==
  /\ poll.pc = "firing" /\ poll.cur = t
  /\ poll'.pc # "dead" /\ ~(poll'.pc = "firing" /\ poll'.cur = t)

\* The heartbeat emits task.missed for t.
Misses(t) ==
  /\ hb'.pc \in {"once", "cron"} /\ hb'.cur = t
  /\ hb.cur # t \/ hb.pc # hb'.pc

LogStep(t) ==
  IF task[t].status = "absent" /\ task'[t].status = "pending" /\ phase = "up"
    THEN NoLog
    ELSE [fired  |-> IF Fires(t) THEN task[t].due ELSE log[t].fired,
          missed |-> IF Misses(t) THEN task[t].due ELSE log[t].missed,
          begun  |-> log[t].begun \/ Begins(t)]

HInit == Init /\ log = [t \in Tasks |-> NoLog]
HNext == Next /\ log' = [t \in Tasks |-> LogStep(t)]
HSpec == HInit /\ [][HNext]_hvars

HFairSpec == HSpec /\ Fairness

------------------------------------------------------------------------------

(* Work on a ONCE task begins at most once, over crashes and restarts too:
   RUNNING is in the table before the delivery starts, and recover() turns a
   RUNNING row into FAILED instead of firing it again (_fire_task, recover).
   It needs writes that succeed and commit in order. *)
OnceBeginsOnce ==
  [][\A t \in Tasks \ Cron : Begins(t) => ~log[t].begun]_hvars

(* A ONCE task whose row in the table says PENDING and is due comes under way in
   the end: it is fired, declared missed or cancelled, by this process or by the
   next one.  A dead loop is revived; a working set that a crash or a stop emptied
   does not count, for the row is still there to be recovered.  Only a channel
   that leaves the loop waiting for ever excuses it (_poll_loop, _check_poll_loop,
   recover, hydrate). *)
UnderWay == {"running", "completed", "failed", "missed", "cancelled"}

DueOnceIsServed ==
  []<>(poll.pc # "delivering") =>
    \A t \in Tasks \ Cron :
      rows[t].status = "pending" /\ rows[t].due <= clock ~> task[t].status \in UnderWay

------------------------------------------------------------------------------
(* What docs and comments say and the code does not keep: TLC refutes each of
   them, some in a run of the project, the others as the README says. *)

(* "Pause a PENDING cron task; it will not fire until resumed" (pause_task, and
   the route): no firing starts on a paused task. *)
PausedDoesNotFire ==
  [][\A t \in Tasks : Fires(t) => task[t].status # "paused"]_hvars

(* The design's state diagram, "cancel() -> CANCELLED(终态)": while the process
   lives a cancelled task stays cancelled. *)
CancelledIsTerminal ==
  [][\A t \in Tasks :
       task[t].status = "cancelled" /\ phase' # "down" => task'[t].status = "cancelled"]_hvars

(* "the consumed slot is never re-fired" (_fire_task): a cron task that fires
   fires a later slot than the last time. *)
SlotsAreNotRefired ==
  [][\A t \in Cron : Fires(t) => task[t].due > log[t].fired]_hvars

(* "a single summary task.missed per task" (heartbeat check 3): one slot of a
   cron task is declared missed once. *)
OneMissedPerSlot ==
  [][\A t \in Cron : Misses(t) => task[t].due > log[t].missed]_hvars

(* "the Heartbeat's stale-RUNNING reaper skips them so a long LLM call is not
   killed mid-flight" (_inflight): the reaper never fails a task whose runner is
   still in flight. *)
ReaperSparesRunners ==
  [][\A t \in Tasks :
       calls[t] > 0 /\ hb'.pc = "stale" /\ task[t].status = "running" =>
         task'[t].status # "failed"]_hvars

(* "Write a status transition through to the store" (_persist): when every
   write has returned and none failed, each row is what memory holds. *)
RowsFollowMemory ==
  phase = "up" /\ writes = {} /\ used.failures = 0 =>
    \A t \in Tasks : rows[t] = RowOf(task[t])
=============================================================================
