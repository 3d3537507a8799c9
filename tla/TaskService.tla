----------------------------- MODULE TaskService -----------------------------
(***************************************************************************)
(* The scheduling service as api/app.py's lifespan assembles it: recover() *)
(* on the rows of the previous process, then the poll loop and the         *)
(* heartbeat, the task routes while both run, and shutdown; or the process *)
(* dies at any point and everything but the table is gone.                 *)
(***************************************************************************)
EXTENDS Heartbeat

CONSTANT MaxHalts  \* bound: shutdowns and crashes

ASSUME TaskServiceAssumption == MaxHalts \in Nat

vars == <<schedVars, hb>>

Init ==
  /\ clock = 0 /\ phase = "down"
  /\ task = [t \in Tasks |-> AbsentTask]
  /\ rows = [t \in Tasks |-> AbsentRow]
  /\ writes = {} /\ poll = DeadPoll /\ hb = HbOff
  /\ calls = [t \in Tasks |-> 0] /\ settling = {} /\ inflight = {}
  /\ used = [failures |-> 0, deaths |-> 0, halts |-> 0]

Tick ==
  /\ clock < MaxTime
  /\ clock' = clock + 1
  /\ UNCHANGED <<phase, task, rows, writes, poll, calls, settling, inflight, used, hb>>

------------------------------------------------------------------------------
(* Startup *)

\* A slip: the rows that are due already are not hydrated.
RecoveredUpcoming(t) ==
  LET kept == TaskOfRow(rows[t])
  IN  IF kept.status = "running"
        THEN [kept EXCEPT !.status = "failed"]
      ELSE IF kept.status = "pending" /\ kept.due <= clock
        THEN AbsentTask
      ELSE kept

\* recover()'s disposition of one hydrated row.
Recovered(t) ==
  LET row == rows[t]
      kept == TaskOfRow(row)
  IN  IF row.status = "running"
        THEN [kept EXCEPT !.status = "failed"]
      ELSE IF row.status = "pending" /\ t \notin Cron
              /\ row.due <= clock - Grace /\ Policy = "mark"
        THEN [kept EXCEPT !.status = "missed"]
      ELSE IF row.status = "pending" /\ t \in Cron /\ row.due <= clock /\ Policy = "mark"
        THEN [kept EXCEPT !.due = NextAfter(clock)]
      ELSE kept

\* Nothing else runs during recover(), so it is one step; the writes of some of
\* its dispositions may fail.  A crash half way leaves what a Crash leaves here.
Recover ==
  /\ phase = "down"
  /\ \E lost \in SUBSET {t \in Tasks : RowOf(Recovered(t)) # rows[t]},
        failures \in used.failures..MaxWriteFailures :
       /\ failures = used.failures + Cardinality(lost)
       /\ used' = [used EXCEPT !.failures = failures]
       /\ rows' = [t \in Tasks |-> IF t \in lost THEN rows[t] ELSE RowOf(Recovered(t))]
  /\ task' = [t \in Tasks |-> Recovered(t)]
  /\ phase' = "recovered"
  /\ UNCHANGED <<clock, writes, poll, calls, settling, inflight, hb>>

\* scheduler.start() and heartbeat.start(), after the channels came up.
Start ==
  /\ phase = "recovered"
  /\ phase' = "up"
  /\ poll' = FreshPoll(clock)
  /\ hb' = HbFresh(clock)
  /\ UNCHANGED <<clock, task, rows, writes, calls, settling, inflight, used>>

------------------------------------------------------------------------------
(* Shutdown *)

\* heartbeat.stop() and scheduler.stop() cancel both loops at their awaits; a
\* notify delivery is cut short and its task stays RUNNING.
Stop ==
  /\ phase = "up" /\ used.halts < MaxHalts
  /\ used' = [used EXCEPT !.halts = @ + 1]
  /\ phase' = "stopping"
  /\ poll' = DeadPoll /\ hb' = HbOff
  /\ writes' \in Orphaned({"poll", "heartbeat"})
  /\ UNCHANGED <<clock, task, rows, calls, settling, inflight>>

\* What a process leaves behind.
Gone ==
  /\ phase' = "down"
  /\ task' = [t \in Tasks |-> AbsentTask]
  /\ poll' = DeadPoll /\ hb' = HbOff
  /\ calls' = [t \in Tasks |-> 0] /\ settling' = {} /\ inflight' = {}
  /\ UNCHANGED <<clock, rows>>

\* The drain is over: every execution has settled and every thread has ended.
Exit ==
  /\ phase = "stopping"
  /\ \A t \in Tasks : calls[t] = 0
  /\ settling = {} /\ writes = {}
  /\ Gone
  /\ UNCHANGED <<writes, used>>

Crash ==
  /\ phase # "down" /\ used.halts < MaxHalts
  /\ used' = [used EXCEPT !.halts = @ + 1]
  /\ writes' = {}
  /\ Gone

------------------------------------------------------------------------------
(* The specification *)

Api == \E t \in Tasks : AddTask(t) \/ CancelTask(t) \/ PauseTask(t) \/ ResumeTask(t)

Store == \E w \in writes : ThreadReads(w) \/ ThreadCommits(w) \/ ThreadWrites(w) \/ ThreadFails(w)

PollStep ==
  PollScan \/ PollDelivers \/ PollAdvances \/ PollHandsOff \/ PollSaved

PollVerdict == \E ok \in BOOLEAN : PollDelivered(ok)

Execution(t) == (\E ok \in BOOLEAN : ExecutionReturns(t, ok)) \/ ExecutionEnds(t)

HbStep == HbWakes \/ HbResumesOnce \/ HbResumesStale \/ HbResumesCron

Next ==
  \/ (Api \/ Store \/ PollStep \/ PollVerdict \/ PollDies \/ \E t \in Tasks : Execution(t))
     /\ UNCHANGED hb
  \/ HbStep
  \/ Tick \/ Recover \/ Start \/ Stop \/ Exit \/ Crash

Spec == Init /\ [][Next]_vars

(* The worker threads of one caller's writes of one task. *)
Thread(by, t) ==
  \E w \in writes : w.by = by /\ w.task = t /\ (ThreadWrites(w) \/ ThreadCommits(w))

(* asyncio runs every task that is ready; worker threads run; the prompt runner
   is under prompt_timeout_seconds; a service that went down is started again.
   A notify delivery is under no timeout: a channel may never answer. *)
Fairness ==
  /\ WF_vars(Tick) /\ WF_vars(Recover) /\ WF_vars(Start) /\ WF_vars(Exit)
  /\ WF_vars(PollStep /\ UNCHANGED hb)
  /\ WF_vars(HbStep)
  /\ \A t \in Tasks : WF_vars(Execution(t) /\ UNCHANGED hb)
  /\ \A by \in Writers, t \in Tasks : WF_vars(Thread(by, t) /\ UNCHANGED hb)

FairSpec == Spec /\ Fairness

------------------------------------------------------------------------------
(* Properties *)

TypeOK ==
  /\ clock \in Nat
  /\ phase \in {"down", "recovered", "up", "stopping"}
  /\ task \in [Tasks -> TaskRecords]
  /\ rows \in [Tasks -> Rows]
  /\ writes \subseteq Writes
  /\ poll \in PollStates
  /\ calls \in [Tasks -> Nat]
  /\ settling \subseteq Tasks
  /\ inflight \subseteq Tasks
  /\ used \in [failures : Nat, deaths : Nat, halts : Nat]
  /\ hb \in HbStates

InFlight(t) == PollHolds(t) \/ calls[t] > 0

(* No task is worked on twice at the same time: not by two prompt executions
   and not by the poll loop and an execution, although the loop fires from a
   snapshot, executions outlive the round that started them and the heartbeat
   may have restarted the loop (_fire_task, _execute_prompt). *)
SingleFlight == \A t \in Tasks : calls[t] + (IF PollHolds(t) THEN 1 ELSE 0) <= 1

(* A RUNNING task is being worked on: unless the loop died, no interleaving of
   rounds, settlements and reaping leaves a RUNNING task that nobody will ever
   settle and that would wait for the reaper (_fire_task, _settle_prompt). *)
RunningIsOwned ==
  phase = "up" /\ used.deaths = 0 =>
    \A t \in Tasks : task[t].status = "running" => InFlight(t)

(* Together: a task is in nobody's or in one pair of hands, a RUNNING one in one
   (_fire_task, _execute_prompt, _settle_prompt). *)
OneWorkerEach == SingleFlight /\ RunningIsOwned

(* COMPLETED, FAILED and MISSED are verdicts: as long as the process lives only
   a user's cancel replaces one, whatever delivery, execution, reaper or stale
   snapshot still refers to the task (the I2 guards of _fire_task and
   _settle_prompt; state diagram of the design, "终态"). *)
VerdictsAreFinal ==
  [][\A t \in Tasks :
       task[t].status \in {"completed", "failed", "missed"} /\ phase' # "down" =>
         task'[t].status \in {task[t].status, "cancelled"}]_vars

(* While the poll loop is alive the backlog is not missed: the heartbeat judges
   a ONCE task overdue only when no loop exists that would still deliver it
   (_check_once_overdue, and its place before the check that revives the loop). *)
BacklogIsNotMissed ==
  [][\A t \in Tasks :
       phase = "up" /\ task'[t].status = "missed" /\ task[t].status # "missed" =>
         poll.pc = "dead" /\ poll'.pc = "dead"]_vars

(* Every task follows the life cycle that module TaskLifecycle states, with the
   poll loop's and the executions' work on it as its flight: one flight at a
   time, launched only from PENDING or from the two statuses a stale snapshot
   lets through, ended by a verdict that respects the reaper's. *)
Lifecycle ==
  INSTANCE TaskLifecycle WITH
    status <- [t \in Tasks |-> task[t].status],
    flying <- {t \in Tasks : InFlight(t)}

ImplementsLifecycle == Lifecycle!Spec

(* A RUNNING task does not stay RUNNING: its delivery or execution settles it, or
   the reaper does, also when a channel never answers or the loop died under it
   (_check_stale_running).  Past the horizon nothing gets stale, hence the bound. *)
RunningEnds ==
  \A t \in Tasks :
    task[t].status = "running" /\ task[t].start + Stale < MaxTime
      ~> task[t].status # "running"

(* Shutdown comes to its end: the drain of the executions is finite (stop). *)
StopEnds == phase = "stopping" ~> phase = "down"
=============================================================================
