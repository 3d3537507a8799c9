------------------------------ MODULE Heartbeat ------------------------------
(***************************************************************************)
(* scheduler/heartbeat.py: the periodic inspection that runs beside the    *)
(* poll loop, as an asyncio task of its own, on the scheduler's objects.   *)
(*                                                                         *)
(* A cycle runs the checks in the order of CHECK_NAMES.  A check takes its *)
(* snapshot of the working set (and, for the reaper, of _inflight) once,   *)
(* then visits the tasks; it is suspended only in the persist and emit of  *)
(* a disposition, so everything between two dispositions is one step, even *)
(* across checks.  `now` is read once, at the start of the cycle.          *)
(*                                                                         *)
(* event_prune and the task counts change nothing modelled here.           *)
(***************************************************************************)
EXTENDS Scheduler

CONSTANTS
  Policy,  \* missed_policy
  Grace,   \* missed_grace_minutes
  Stale,   \* stale_running_minutes
  Beat     \* heartbeat_interval_seconds

ASSUME HeartbeatAssumption ==
  /\ Policy \in {"mark", "run"}
  /\ Grace \in Nat /\ Stale \in Nat /\ Beat \in Nat \ {0}

VARIABLE
  hb  \* pc; at: the cycle's `now`, or when asleep the next cycle's time; cur: the
      \* task disposed of; todo: those to visit; spared: the snapshot of _inflight

HbPoints == {"off", "asleep", "once", "stale", "cron"}

HbStates ==
  [pc : HbPoints, at : Nat, cur : Tasks \cup {NoTask}, todo : SUBSET Tasks,
   spared : SUBSET Tasks]

HbOff      == [pc |-> "off", at |-> 0, cur |-> NoTask, todo |-> {}, spared |-> {}]
HbFresh(t) == [pc |-> "asleep", at |-> t, cur |-> NoTask, todo |-> {}, spared |-> {}]

\* What is left to visit after disposing of t: a task whose visit comes later may
\* be acted on, the other tasks of `acting` certainly are still to come.
Unvisited(todo, acting, t) ==
  {rest \in SUBSET (todo \ {t}) : acting \ {t} \subseteq rest}

------------------------------------------------------------------------------
(* The checks, last one first.  Each starts at "visit the tasks in todo" and
   either suspends in a disposition or runs on into the next check. *)

\* cron_next_run: recover rule 4 on a PENDING cron task whose next_run is behind.
CheckCron(todo, now) ==
  LET behind == {t \in todo \cap Cron : IsDue(task[t], now)}
  IN  \/ /\ behind = {}
         /\ hb' = HbFresh(clock + Beat)
         /\ UNCHANGED <<task, writes>>
      \/ \E t \in behind : \E rest \in Unvisited(todo, behind, t) :
           /\ hb' = [pc |-> "cron", at |-> now, cur |-> t, todo |-> rest, spared |-> {}]
           /\ IF Policy = "mark"
                THEN /\ task' = [task EXCEPT ![t].due = NextAfter(now)]
                     /\ writes' = writes \cup {NewWrite("heartbeat", t)}
                ELSE UNCHANGED <<task, writes>>

\* A slip: the difference the wrong way round.
IsStuckReversed(t, spared, now) ==
  /\ task[t].status = "running"
  /\ task[t].start - now > Stale
  /\ t \notin spared

\* stale_running: RUNNING for longer than Stale and not in the _inflight snapshot.
IsStuck(t, spared, now) ==
  /\ task[t].status = "running"
  /\ now - task[t].start > Stale
  /\ t \notin spared

CheckStale(todo, spared, now) ==
  LET stuck == {t \in todo : IsStuck(t, spared, now)}
  IN  \/ stuck = {} /\ CheckCron(Known(task), now)
      \/ \E t \in stuck : \E rest \in Unvisited(todo, stuck, t) :
           /\ hb' = [pc |-> "stale", at |-> now, cur |-> t, todo |-> rest, spared |-> spared]
           /\ task' = [task EXCEPT ![t].status = "failed"]
           /\ writes' = writes \cup {NewWrite("heartbeat", t)}

\* A slip: the dead loop is reported but not re-created.
CheckPollOnly(now) ==
  /\ UNCHANGED poll
  /\ CheckStale(Known(task), inflight, now)

\* poll_loop: _restart_loop re-creates a dead loop, then the reaper's check starts.
CheckPoll(now) ==
  /\ poll' = IF poll.pc = "dead" THEN FreshPoll(clock) ELSE poll
  /\ CheckStale(Known(task), inflight, now)

\* once_overdue, once its gate (the loop is dead) was passed.
IsOverdue(t, now) ==
  /\ t \notin Cron /\ task[t].status = "pending"
  /\ task[t].due <= now - Grace

CheckOnce(todo, now) ==
  LET overdue == {t \in todo : Policy = "mark" /\ IsOverdue(t, now)}
  IN  \/ overdue = {} /\ CheckPoll(now)
      \/ \E t \in overdue : \E rest \in Unvisited(todo, overdue, t) :
           /\ hb' = [pc |-> "once", at |-> now, cur |-> t, todo |-> rest, spared |-> {}]
           /\ task' = [task EXCEPT ![t].status = "missed"]
           /\ writes' = writes \cup {NewWrite("heartbeat", t)}
           /\ UNCHANGED poll

------------------------------------------------------------------------------

\* A slip: once_overdue without its gate.
HbWakesUngated ==
  /\ hb.pc = "asleep"
  /\ clock >= hb.at \/ clock = MaxTime
  /\ CheckOnce(Known(task), clock)
  /\ UNCHANGED <<clock, phase, rows, calls, settling, inflight, used>>

\* A cycle starts; once_overdue applies only while the poll loop is dead.
HbWakes ==
  /\ hb.pc = "asleep"
  /\ clock >= hb.at \/ clock = MaxTime
  /\ IF poll.pc = "dead" THEN CheckOnce(Known(task), clock) ELSE CheckPoll(clock)
  /\ UNCHANGED <<clock, phase, rows, calls, settling, inflight, used>>

HbSaved == ~Writing("heartbeat", hb.cur)

\* A disposition is persisted and its event is out; the check goes on.
HbResumesOnce ==
  /\ hb.pc = "once" /\ HbSaved
  /\ CheckOnce(hb.todo, hb.at)
  /\ UNCHANGED <<clock, phase, rows, calls, settling, inflight, used>>

HbResumesStale ==
  /\ hb.pc = "stale" /\ HbSaved
  /\ CheckStale(hb.todo, hb.spared, hb.at)
  /\ UNCHANGED <<clock, phase, rows, poll, calls, settling, inflight, used>>

HbResumesCron ==
  /\ hb.pc = "cron" /\ HbSaved
  /\ CheckCron(hb.todo, hb.at)
  /\ UNCHANGED <<clock, phase, rows, poll, calls, settling, inflight, used>>
=============================================================================
