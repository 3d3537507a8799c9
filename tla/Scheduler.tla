------------------------------ MODULE Scheduler ------------------------------
(***************************************************************************)
(* scheduler/scheduler.py: TaskScheduler, with the write-through to        *)
(* TaskStore (scheduler/store.py).                                         *)
(*                                                                         *)
(* Everything runs on one asyncio loop, so the code between two awaits is  *)
(* one atomic step and an action here is exactly such a stretch.  The      *)
(* awaits are: the store write of _persist (a worker thread, started by    *)
(* asyncio.to_thread), the event hooks of _emit, the delivery callback,    *)
(* the prompt runner and the sleep of the poll loop.  _emit always follows *)
(* a _persist with no other statement in between, so one program-counter   *)
(* value stands for "suspended in the write or in the hooks after it".     *)
(*                                                                         *)
(* The worker thread reads the live task object when it starts, not when   *)
(* it was submitted, and commits later: a write in `writes` has row = {}   *)
(* until the thread has read the object, {r} afterwards.                   *)
(*                                                                         *)
(* Left out: condition callbacks (the application passes                   *)
(* check_condition=None), the text of errors and results, and expressions  *)
(* that stop parsing (the routes and the agent tool validate them).        *)
(***************************************************************************)
EXTENDS TaskTable

CONSTANTS
  HasRunner,         \* on_prompt_task is not None
  LongSleep,         \* the 60 s / 30 s cap of the poll loop's sleep
  MaxTime,           \* bound: the clock stops at this horizon
  MaxWriteFailures,  \* bound: store writes that raise
  MaxPreempted,      \* bound: threads preempted between reading and committing
  MaxDeaths          \* bound: times the poll loop dies

ASSUME SchedulerAssumption ==
  /\ HasRunner \in BOOLEAN
  /\ LongSleep \in Nat \ {0}
  /\ MaxTime \in Nat
  /\ MaxWriteFailures \in Nat
  /\ MaxPreempted \in Nat
  /\ MaxDeaths \in Nat

VARIABLES
  clock,     \* datetime.now()
  phase,     \* of the process: "down", "recovered", "up", "stopping"
  task,      \* _tasks, the working set in memory
  rows,      \* the scheduled_tasks table
  writes,    \* upsert_task calls whose thread has not committed
  poll,      \* the poll loop: program counter, due snapshot, task in hand
  calls,     \* prompt runners in flight, per task
  settling,  \* executions in _settle_prompt's write or event
  inflight,  \* _inflight, the ids the reaper must spare
  used       \* how much of each bound is used up

schedVars ==
  <<clock, phase, task, rows, writes, poll, calls, settling, inflight, used>>

Writers == {"poll", "heartbeat", "execution", "api", "orphan"}
Writes  == [by : Writers, task : Tasks, row : SUBSET Rows]

PollPoints == {"dead", "sleeping", "firing", "advancing", "delivering", "saving"}

PollStates ==
  [pc : PollPoints, queue : SUBSET Tasks, cur : Tasks \cup {NoTask}, wake : Nat]

\* The poll loop is between RUNNING and the verdict (or the hand-off) of its task.
PollHolds(t) == poll.cur = t /\ poll.pc \in {"firing", "advancing", "delivering"}

DeadPoll     == [pc |-> "dead", queue |-> {}, cur |-> NoTask, wake |-> 0]
\* Nothing to do before `wake`; a loop just created starts at once.
FreshPoll(wake) == [pc |-> "sleeping", queue |-> {}, cur |-> NoTask, wake |-> wake]

------------------------------------------------------------------------------
(* The store *)

NewWrite(by, t) == [by |-> by, task |-> t, row |-> {}]
Writing(by, t)  == \E w \in writes : w.by = by /\ w.task = t

\* Cancelled to_thread calls: a thread goes on without its caller, unless it had
\* not started yet, when the executor may drop it.
Orphaned(bys) ==
  LET cut     == {w \in writes : w.by \in bys}
      started == {w \in cut : w.row # {}}
  IN  {(writes \ cut) \cup {[w EXCEPT !.by = "orphan"] : w \in kept} :
         kept \in {K \in SUBSET cut : started \subseteq K}}

ThreadReads(w) ==
  /\ w.row = {} /\ Cardinality({v \in writes : v.row # {}}) < MaxPreempted
  /\ writes' = (writes \ {w}) \cup {[w EXCEPT !.row = {RowOf(task[w.task])}]}
  /\ UNCHANGED <<clock, phase, task, rows, poll, calls, settling, inflight, used>>

ThreadCommits(w) ==
  /\ \E r \in w.row : rows' = [rows EXCEPT ![w.task] = r]
  /\ writes' = writes \ {w}
  /\ UNCHANGED <<clock, phase, task, poll, calls, settling, inflight, used>>

\* A thread that is not preempted between the two.
ThreadWrites(w) ==
  /\ w.row = {}
  /\ rows' = [rows EXCEPT ![w.task] = RowOf(task[w.task])]
  /\ writes' = writes \ {w}
  /\ UNCHANGED <<clock, phase, task, poll, calls, settling, inflight, used>>

\* The upsert raises; _persist logs it and the transition stays in memory only.
ThreadFails(w) ==
  /\ used.failures < MaxWriteFailures
  /\ used' = [used EXCEPT !.failures = @ + 1]
  /\ writes' = writes \ {w}
  /\ UNCHANGED <<clock, phase, task, rows, poll, calls, settling, inflight>>

------------------------------------------------------------------------------
(* CRUD: the task routes and the schedule_task tool.  A request changes the
   object, then waits for its write; at most one request per task waits. *)

Request(t, status, due) ==
  /\ phase = "up"
  /\ ~Writing("api", t)
  /\ task' = [task EXCEPT ![t].status = status, ![t].due = due]
  /\ writes' = writes \cup {NewWrite("api", t)}
  /\ UNCHANGED <<clock, phase, rows, poll, calls, settling, inflight, used>>

\* A uuid is never reused: the id is in neither the working set nor the table.
AddTask(t) ==
  /\ task[t].status = "absent" /\ rows[t].status = "absent"
  /\ \E due \in IF t \in Cron THEN {NextAfter(clock)} ELSE DueTimes :
       Request(t, "pending", due)

\* No status is refused: a finished task becomes CANCELLED too.
CancelTask(t) ==
  /\ task[t].status # "absent"
  /\ Request(t, "cancelled", task[t].due)

\* A slip: any cron task can be paused.
PauseAnyTask(t) ==
  /\ t \in Cron /\ task[t].status # "absent"
  /\ Request(t, "paused", task[t].due)

PauseTask(t) ==
  /\ t \in Cron /\ task[t].status = "pending"
  /\ Request(t, "paused", task[t].due)

ResumeTask(t) ==
  /\ t \in Cron /\ task[t].status = "paused"
  /\ Request(t, "pending", NextAfter(clock))

------------------------------------------------------------------------------
(* The poll loop *)

\* When the sleep that starts now ends: at the due time of the nearest pending
\* task, but not before the shortest and not after the longest sleep.
SleepsUntil(tbl, w) ==
  LET pending == {t \in Tasks : tbl[t].status = "pending"}
      busy    == \E t \in Tasks : tbl[t].status = "running"
  IN  IF pending # {}
        THEN /\ w = clock + LongSleep \/ \E t \in pending : tbl[t].due <= w
             /\ w = clock + 1 \/ \A t \in pending : tbl[t].due >= w
        ELSE w = clock + (IF busy \/ Known(tbl) = {} THEN 1 ELSE LongSleep)

\* The loop runs on over the rest q of its due snapshot, the table being tbl and
\* the pending writes ws, up to its next await: the start of _fire_task on some
\* task of the snapshot (the dict's order is left open), or the sleep.  The
\* status of the task is not looked at again.
PollOn(q, tbl, ws) ==
  \/ /\ q = {}
     /\ task' = tbl
     /\ writes' = ws
     /\ \E w \in (clock + 1)..(clock + LongSleep) :
          SleepsUntil(tbl, w) /\ poll' = FreshPoll(w)
  \/ \E t \in q :
     /\ task' = [tbl EXCEPT ![t].status = "running", ![t].start = clock]
     /\ writes' = ws \cup {NewWrite("poll", t)}
     /\ poll' = [pc |-> "firing", queue |-> q \ {t}, cur |-> t, wake |-> 0]

PollScan ==
  /\ poll.pc = "sleeping" /\ phase = "up"
  /\ clock >= poll.wake \/ clock = MaxTime
  /\ PollOn({t \in Tasks : IsDue(task[t], clock)}, task, writes)
  /\ UNCHANGED <<clock, phase, rows, calls, settling, inflight, used>>

\* A slip: the transition is not awaited before the delivery starts.
PollResumesUnsaved(pc) == poll.pc = pc

\* Persist and emit of the step before are over.
PollResumes(pc) == poll.pc = pc /\ ~Writing("poll", poll.cur)

\* RUNNING is persisted and task.due is out; a notify delivery starts.
PollDelivers ==
  /\ PollResumes("firing") /\ poll.cur \notin Prompt
  /\ poll' = [poll EXCEPT !.pc = "delivering"]
  /\ UNCHANGED <<clock, phase, task, rows, writes, calls, settling, inflight, used>>

\* The slot of a prompt-mode cron task is consumed before the runner starts.
PollAdvances ==
  /\ PollResumes("firing") /\ poll.cur \in Prompt \cap Cron
  /\ task' = [task EXCEPT ![poll.cur].due = NextAfter(clock)]
  /\ writes' = writes \cup {NewWrite("poll", poll.cur)}
  /\ poll' = [poll EXCEPT !.pc = "advancing"]
  /\ UNCHANGED <<clock, phase, rows, calls, settling, inflight, used>>

\* The status a delivery leaves: only a ONCE task has a final one.
Verdict(t, ok) ==
  IF t \in Cron THEN "pending" ELSE IF ok THEN "completed" ELSE "failed"

\* A slip: no I2 guard, the reaper's FAILED is overwritten.
PollSettlesAlways(ok, due) ==
  LET t == poll.cur
  IN  /\ task' = [task EXCEPT ![t].status = Verdict(t, ok), ![t].due = due]
      /\ writes' = writes \cup {NewWrite("poll", t)}
      /\ poll' = [poll EXCEPT !.pc = "saving"]

\* A verdict of the poll loop: the task keeps the reaper's FAILED, otherwise it
\* is settled, due again at `due`, and the loop waits for the write.
PollSettles(ok, due) ==
  LET t == poll.cur
  IN  IF task[t].status = "failed"
        THEN PollOn(poll.queue, task, writes)
        ELSE /\ task' = [task EXCEPT ![t].status = Verdict(t, ok), ![t].due = due]
             /\ writes' = writes \cup {NewWrite("poll", t)}
             /\ poll' = [poll EXCEPT !.pc = "saving"]
        
\* on_due_task returned (ok) or raised.
PollDelivered(ok) ==
  LET t == poll.cur
  IN  /\ poll.pc = "delivering"
      /\ PollSettles(ok, IF t \in Cron THEN NextAfter(clock) ELSE task[t].due)
      /\ UNCHANGED <<clock, phase, rows, calls, settling, inflight, used>>

\* A prompt task is handed to a background execution, or, with no runner, failed.
PollHandsOff ==
  LET t == poll.cur
  IN  /\ \/ PollResumes("firing") /\ t \in Prompt \ Cron
         \/ PollResumes("advancing")
      /\ IF HasRunner
           THEN /\ calls' = [calls EXCEPT ![t] = @ + 1]
                /\ inflight' = inflight \cup {t}
                /\ PollOn(poll.queue, task, writes)
           ELSE /\ PollSettles(FALSE, task[t].due)
                /\ UNCHANGED <<calls, inflight>>
      /\ UNCHANGED <<clock, phase, rows, settling, used>>

PollSaved ==
  /\ PollResumes("saving")
  /\ PollOn(poll.queue, task, writes)
  /\ UNCHANGED <<clock, phase, rows, calls, settling, inflight, used>>

\* The poll task ends by an exception: a CancelledError out of a delivery, or an
\* error while the sleep is computed, outside the round's guard.
PollDies ==
  /\ phase = "up" /\ poll.pc # "dead"
  /\ used.deaths < MaxDeaths
  /\ used' = [used EXCEPT !.deaths = @ + 1]
  /\ poll' = DeadPoll
  /\ writes' \in Orphaned({"poll"})
  /\ UNCHANGED <<clock, phase, task, rows, calls, settling, inflight>>

------------------------------------------------------------------------------
(* Prompt executions.  Between the runner's end and the discard of _inflight an
   execution is suspended in its write; at most one per task is. *)

\* The runner returned, raised or hit prompt_timeout_seconds.
ExecutionReturns(t, ok) ==
  /\ calls[t] > 0 /\ t \notin settling
  /\ calls' = [calls EXCEPT ![t] = @ - 1]
  /\ IF task[t].status = "failed"
       THEN /\ inflight' = inflight \ {t}
            /\ UNCHANGED <<task, writes, settling>>
       ELSE /\ task' = [task EXCEPT ![t].status = Verdict(t, ok)]
            /\ writes' = writes \cup {NewWrite("execution", t)}
            /\ settling' = settling \cup {t}
            /\ UNCHANGED inflight
  /\ UNCHANGED <<clock, phase, rows, poll, used>>

\* A slip: the done callback does not drop the handle stop() waits for.
ExecutionLingers(t) ==
  /\ t \in settling /\ ~Writing("execution", t)
  /\ inflight' = inflight \ {t}
  /\ UNCHANGED <<clock, phase, task, rows, writes, poll, calls, settling, used>>

\* The `finally` of _execute_prompt: the id leaves _inflight, whoever put it there.
ExecutionEnds(t) ==
  /\ t \in settling /\ ~Writing("execution", t)
  /\ settling' = settling \ {t}
  /\ inflight' = inflight \ {t}
  /\ UNCHANGED <<clock, phase, task, rows, writes, poll, calls, used>>
=============================================================================
