-------------------------- MODULE TaskServiceProofs --------------------------
(***************************************************************************)
(* Proofs about TaskService and TaskHistory, for every value of their      *)
(* constants.                                                              *)
(*                                                                         *)
(* Three layers.  Typed is the type invariant with the one fact about the  *)
(* poll loop that makes it inductive.  Owned says who can work on a task   *)
(* in which status, and where the loop and the heartbeat can be in which   *)
(* phase; with Typed it is the inductive invariant IInv, from which the    *)
(* invariants follow.  Moved says what one step does to one task, and from *)
(* IInv every step is shown to be such a move: that gives the action       *)
(* properties and the refinement of TaskLifecycle.  OnceInv adds what the  *)
(* table holds of a ONCE task, for the property of TaskHistory that work   *)
(* on it begins once.                                                      *)
(***************************************************************************)
EXTENDS TaskHistory, TLAPS

(* What the constants are, under one name. *)
Constants ==
  /\ TaskTableAssumption /\ SchedulerAssumption
  /\ HeartbeatAssumption /\ TaskServiceAssumption

LEMMA ConstantsHold == Constants
BY TaskTableAssumption, SchedulerAssumption, HeartbeatAssumption,
   TaskServiceAssumption DEF Constants

(* The next occurrence of a cron task is a time. *)
LEMMA NextAfterNat == ASSUME NEW t \in Nat PROVE NextAfter(t) \in Nat
<1>1. Period \in Nat /\ Period > 0
  BY TaskTableAssumption DEF TaskTableAssumption
<1>2. t \div Period \in Nat
  BY <1>1
<1> QED
  BY <1>1, <1>2 DEF NextAfter

------------------------------------------------------------------------------
(* Types *)

(* The poll loop is on a task wherever it is suspended inside a round. *)
PollHasTask == poll.pc \notin {"dead", "sleeping"} => poll.cur \in Tasks

(* The types, with the one fact about the poll loop they need to be inductive. *)
Typed == TypeOK /\ PollHasTask

(* What PollOn and the checks of the heartbeat leave behind has its type. *)
LEMMA PollOnType ==
  ASSUME TypeOK, NEW q \in SUBSET Tasks, NEW tbl \in [Tasks -> TaskRecords],
         NEW ws \in SUBSET Writes, PollOn(q, tbl, ws)
  PROVE  /\ task' \in [Tasks -> TaskRecords]
         /\ writes' \subseteq Writes
         /\ poll' \in PollStates
<1>1. CASE q = {} /\ task' = tbl /\ writes' = ws /\
           \E w \in (clock + 1)..(clock + LongSleep) : poll' = FreshPoll(w)
  <2>1. PICK w \in (clock + 1)..(clock + LongSleep) : poll' = FreshPoll(w)
    BY <1>1
  <2>2. w \in Nat
    BY SchedulerAssumption DEF SchedulerAssumption, TypeOK
  <2>3. poll' \in PollStates
    BY <2>1, <2>2 DEF FreshPoll, PollStates, PollPoints
  <2> QED
    BY <1>1, <2>3
<1>2. ASSUME NEW t \in q,
             task' = [tbl EXCEPT ![t].status = "running", ![t].start = clock],
             writes' = ws \cup {NewWrite("poll", t)},
             poll' = [pc |-> "firing", queue |-> q \ {t}, cur |-> t, wake |-> 0]
      PROVE  /\ task' \in [Tasks -> TaskRecords]
             /\ writes' \subseteq Writes
             /\ poll' \in PollStates
  <2>1. t \in Tasks /\ clock \in Nat
    BY DEF TypeOK
  <2>2. task' \in [Tasks -> TaskRecords]
    BY <1>2, <2>1 DEF TaskRecords, Statuses
  <2>3. NewWrite("poll", t) \in Writes
    BY <2>1 DEF NewWrite, Writes, Writers
  <2>4. poll' \in PollStates
    BY <1>2, <2>1 DEF PollStates, PollPoints
  <2> QED
    BY <1>2, <2>2, <2>3, <2>4
<1> QED
  BY <1>1, <1>2 DEF PollOn

LEMMA NewWriteType ==
  ASSUME NEW by \in Writers, NEW t \in Tasks
  PROVE  NewWrite(by, t) \in Writes
BY DEF NewWrite, Writes

LEMMA RowOfType == ASSUME NEW r \in TaskRecords PROVE RowOf(r) \in Rows
BY DEF RowOf, TaskRecords, Rows

LEMMA CheckCronType ==
  ASSUME TypeOK, NEW todo \in SUBSET Tasks, NEW now \in Nat, CheckCron(todo, now)
  PROVE  /\ task' \in [Tasks -> TaskRecords]
         /\ writes' \subseteq Writes
         /\ hb' \in HbStates
<1>1. CASE hb' = HbFresh(clock + Beat) /\ UNCHANGED <<task, writes>>
  <2>1. clock + Beat \in Nat
    BY HeartbeatAssumption DEF HeartbeatAssumption, TypeOK
  <2> QED
    BY <1>1, <2>1 DEF HbFresh, HbStates, HbPoints, TypeOK
<1>2. ASSUME NEW t \in todo \cap Cron, NEW rest \in SUBSET todo,
             hb' = [pc |-> "cron", at |-> now, cur |-> t, todo |-> rest, spared |-> {}],
             IF Policy = "mark"
               THEN /\ task' = [task EXCEPT ![t].due = NextAfter(now)]
                    /\ writes' = writes \cup {NewWrite("heartbeat", t)}
               ELSE UNCHANGED <<task, writes>>
      PROVE  /\ task' \in [Tasks -> TaskRecords]
             /\ writes' \subseteq Writes
             /\ hb' \in HbStates
  <2>1. hb' \in HbStates
    BY <1>2 DEF HbStates, HbPoints
  <2>2. NextAfter(now) \in Nat
    BY NextAfterNat
  <2>3. task' \in [Tasks -> TaskRecords]
    BY <1>2, <2>2 DEF TaskRecords, TypeOK
  <2>4. NewWrite("heartbeat", t) \in Writes
    BY NewWriteType DEF Writers
  <2>5. writes' \subseteq Writes
    BY <1>2, <2>4 DEF TypeOK
  <2> QED
    BY <2>1, <2>3, <2>5
<1> QED
  BY <1>1, <1>2 DEF CheckCron, Unvisited

LEMMA CheckStaleType ==
  ASSUME TypeOK, NEW todo \in SUBSET Tasks, NEW spared \in SUBSET Tasks,
         NEW now \in Nat, CheckStale(todo, spared, now)
  PROVE  /\ task' \in [Tasks -> TaskRecords]
         /\ writes' \subseteq Writes
         /\ hb' \in HbStates
<1>1. CASE CheckCron(Known(task), now)
  BY <1>1, CheckCronType DEF Known
<1>2. ASSUME NEW t \in todo, NEW rest \in SUBSET todo,
             hb' = [pc |-> "stale", at |-> now, cur |-> t, todo |-> rest,
                    spared |-> spared],
             task' = [task EXCEPT ![t].status = "failed"],
             writes' = writes \cup {NewWrite("heartbeat", t)}
      PROVE  /\ task' \in [Tasks -> TaskRecords]
             /\ writes' \subseteq Writes
             /\ hb' \in HbStates
  <2>1. hb' \in HbStates
    BY <1>2 DEF HbStates, HbPoints
  <2>2. task' \in [Tasks -> TaskRecords]
    BY <1>2 DEF TaskRecords, Statuses, TypeOK
  <2>3. NewWrite("heartbeat", t) \in Writes
    BY NewWriteType DEF Writers
  <2> QED
    BY <1>2, <2>1, <2>2, <2>3 DEF TypeOK
<1> QED
  BY <1>1, <1>2 DEF CheckStale, Unvisited

LEMMA CheckPollType ==
  ASSUME TypeOK, NEW now \in Nat, CheckPoll(now)
  PROVE  /\ task' \in [Tasks -> TaskRecords]
         /\ writes' \subseteq Writes
         /\ hb' \in HbStates
         /\ poll' \in PollStates
<1>1. poll' \in PollStates
  BY DEF CheckPoll, FreshPoll, PollStates, PollPoints, TypeOK
<1>2. Known(task) \in SUBSET Tasks /\ inflight \in SUBSET Tasks
  BY DEF Known, TypeOK
<1> QED
  BY <1>1, <1>2, CheckStaleType DEF CheckPoll

LEMMA CheckOnceType ==
  ASSUME TypeOK, NEW todo \in SUBSET Tasks, NEW now \in Nat, CheckOnce(todo, now)
  PROVE  /\ task' \in [Tasks -> TaskRecords]
         /\ writes' \subseteq Writes
         /\ hb' \in HbStates
         /\ poll' \in PollStates
<1>1. CASE CheckPoll(now)
  BY <1>1, CheckPollType
<1>2. ASSUME NEW t \in todo, NEW rest \in SUBSET todo,
             hb' = [pc |-> "once", at |-> now, cur |-> t, todo |-> rest, spared |-> {}],
             task' = [task EXCEPT ![t].status = "missed"],
             writes' = writes \cup {NewWrite("heartbeat", t)},
             poll' = poll
      PROVE  /\ task' \in [Tasks -> TaskRecords]
             /\ writes' \subseteq Writes
             /\ hb' \in HbStates
             /\ poll' \in PollStates
  <2>1. hb' \in HbStates
    BY <1>2 DEF HbStates, HbPoints
  <2>2. task' \in [Tasks -> TaskRecords]
    BY <1>2 DEF TaskRecords, Statuses, TypeOK
  <2>3. NewWrite("heartbeat", t) \in Writes
    BY NewWriteType DEF Writers
  <2> QED
    BY <1>2, <2>1, <2>2, <2>3 DEF TypeOK
<1> QED
  BY <1>1, <1>2 DEF CheckOnce, Unvisited

(* A verdict of the poll loop, on a due time that is one. *)
LEMMA PollSettlesType ==
  ASSUME TypeOK, poll.cur \in Tasks, NEW ok \in BOOLEAN, NEW due \in Nat,
         PollSettles(ok, due)
  PROVE  /\ task' \in [Tasks -> TaskRecords]
         /\ writes' \subseteq Writes
         /\ poll' \in PollStates
<1>1. CASE PollOn(poll.queue, task, writes)
  <2>1. poll.queue \in SUBSET Tasks /\ writes \in SUBSET Writes
    BY DEF TypeOK, PollStates
  <2> QED
    BY <1>1, <2>1, PollOnType DEF TypeOK
<1>2. CASE /\ task' = [task EXCEPT ![poll.cur].status = Verdict(poll.cur, ok),
                                   ![poll.cur].due = due]
           /\ writes' = writes \cup {NewWrite("poll", poll.cur)}
           /\ poll' = [poll EXCEPT !.pc = "saving"]
  <2>1. Verdict(poll.cur, ok) \in Statuses
    BY DEF Verdict, Statuses
  <2>2. task' \in [Tasks -> TaskRecords]
    BY <1>2, <2>1 DEF TaskRecords, TypeOK
  <2>3. NewWrite("poll", poll.cur) \in Writes
    BY NewWriteType DEF Writers
  <2>4. poll' \in PollStates
    BY <1>2 DEF TypeOK, PollStates, PollPoints
  <2> QED
    BY <1>2, <2>2, <2>3, <2>4 DEF TypeOK
<1> QED
  BY <1>1, <1>2 DEF PollSettles

LEMMA OrphanedType ==
  ASSUME TypeOK, NEW bys \in SUBSET Writers, writes' \in Orphaned(bys)
  PROVE  writes' \subseteq Writes
BY DEF Orphaned, TypeOK, Writes, Writers

LEMMA RecoveredType ==
  ASSUME TypeOK, NEW t \in Tasks PROVE Recovered(t) \in TaskRecords
<1>1. TaskOfRow(rows[t]) \in TaskRecords
  BY DEF TypeOK, Rows, TaskOfRow, TaskRecords
<1>2. NextAfter(clock) \in Nat
  BY NextAfterNat DEF TypeOK
<1> QED
  BY <1>1, <1>2 DEF Recovered, TaskRecords, Statuses

LEMMA TypeInit == Init => TypeOK
BY TaskTableAssumption
DEF Init, TypeOK, AbsentTask, AbsentRow, TaskRecords, Rows, Statuses, DeadPoll,
    PollStates, PollPoints, HbOff, HbStates, HbPoints

(* Every request leaves a task object and a write behind. *)
LEMMA RequestType ==
  ASSUME TypeOK, NEW t \in Tasks, NEW status \in Statuses, NEW due \in Nat,
         Request(t, status, due), UNCHANGED hb
  PROVE  TypeOK'
<1>1. task' \in [Tasks -> TaskRecords]
  BY DEF Request, TypeOK, TaskRecords
<1>2. NewWrite("api", t) \in Writes
  BY NewWriteType DEF Writers
<1>3. writes' \subseteq Writes
  BY <1>2 DEF Request, TypeOK
<1> QED
  BY <1>1, <1>3 DEF Request, TypeOK

LEMMA TypeStepApi ==
  ASSUME TypeOK, Api, UNCHANGED hb PROVE TypeOK'
<1> PICK t \in Tasks : AddTask(t) \/ CancelTask(t) \/ PauseTask(t) \/ ResumeTask(t)
  BY DEF Api
<1>0. NextAfter(clock) \in Nat /\ task[t].due \in Nat /\ DueTimes \subseteq Nat
  BY NextAfterNat, TaskTableAssumption DEF TypeOK, TaskRecords, TaskTableAssumption
<1>1. CASE AddTask(t)
  BY <1>0, <1>1, RequestType DEF AddTask, Statuses
<1>2. CASE CancelTask(t)
  BY <1>0, <1>2, RequestType DEF CancelTask, Statuses
<1>3. CASE PauseTask(t)
  BY <1>0, <1>3, RequestType DEF PauseTask, Statuses
<1>4. CASE ResumeTask(t)
  BY <1>0, <1>4, RequestType DEF ResumeTask, Statuses
<1> QED
  BY <1>1, <1>2, <1>3, <1>4

LEMMA TypeStepStore ==
  ASSUME TypeOK, Store, UNCHANGED hb PROVE TypeOK'
<1> PICK w \in writes :
      ThreadReads(w) \/ ThreadCommits(w) \/ ThreadWrites(w) \/ ThreadFails(w)
  BY DEF Store
<1>0. w \in Writes /\ RowOf(task[w.task]) \in Rows
  BY RowOfType DEF TypeOK, Writes
<1>1. CASE ThreadReads(w)
  <2>1. [w EXCEPT !.row = {RowOf(task[w.task])}] \in Writes
    BY <1>0 DEF Writes
  <2> QED
    BY <1>1, <2>1 DEF ThreadReads, TypeOK
<1>2. CASE ThreadCommits(w)
  BY <1>0, <1>2 DEF ThreadCommits, TypeOK, Writes
<1>3. CASE ThreadWrites(w)
  BY <1>0, <1>3 DEF ThreadWrites, TypeOK, Writes
<1>4. CASE ThreadFails(w)
  BY <1>4 DEF ThreadFails, TypeOK
<1> QED
  BY <1>1, <1>2, <1>3, <1>4

LEMMA PollOnHasTask ==
  ASSUME NEW q \in SUBSET Tasks, NEW tbl, NEW ws, PollOn(q, tbl, ws)
  PROVE  PollHasTask'
<1>1. ASSUME NEW w, poll' = FreshPoll(w) PROVE PollHasTask'
  BY <1>1 DEF FreshPoll, PollHasTask
<1>2. ASSUME NEW t \in q,
             poll' = [pc |-> "firing", queue |-> q \ {t}, cur |-> t, wake |-> 0]
      PROVE  PollHasTask'
  BY <1>2 DEF PollHasTask
<1> QED
  BY <1>1, <1>2, Zenon DEF PollOn

LEMMA PollSettlesHasTask ==
  ASSUME TypeOK, poll.cur \in Tasks, NEW ok, NEW due, PollSettles(ok, due)
  PROVE  PollHasTask'
<1>1. CASE PollOn(poll.queue, task, writes)
  BY <1>1, PollOnHasTask DEF TypeOK, PollStates
<1>2. CASE poll' = [poll EXCEPT !.pc = "saving"]
  BY <1>2 DEF PollHasTask, TypeOK, PollStates
<1> QED
  BY <1>1, <1>2 DEF PollSettles

LEMMA TypeStepPoll ==
  ASSUME Typed, PollStep \/ PollVerdict, UNCHANGED hb PROVE Typed'
<1> USE DEF Typed
<1>q. poll.queue \in SUBSET Tasks /\ writes \in SUBSET Writes /\ task \in [Tasks -> TaskRecords]
  BY DEF TypeOK, PollStates
<1>1. CASE PollScan
  <2>1. PollOn({t \in Tasks : IsDue(task[t], clock)}, task, writes)
    BY <1>1 DEF PollScan
  <2> HIDE DEF Typed
  <2>2. /\ task' \in [Tasks -> TaskRecords] /\ writes' \subseteq Writes
        /\ poll' \in PollStates
    BY <1>q, <2>1, PollOnType DEF Typed
  <2>3. PollHasTask'
    BY <2>1, PollOnHasTask
  <2> QED
    BY <1>1, <2>2, <2>3 DEF PollScan, TypeOK, Typed
<1>2. CASE PollDelivers
  BY <1>2 DEF PollDelivers, PollResumes, TypeOK, PollStates, PollPoints, PollHasTask
<1>3. CASE PollAdvances
  <2>1. poll.cur \in Tasks
    BY <1>3 DEF PollAdvances, PollResumes, PollHasTask
  <2>2. NextAfter(clock) \in Nat
    BY NextAfterNat DEF TypeOK
  <2>3. task' \in [Tasks -> TaskRecords]
    BY <1>3, <2>1, <2>2 DEF PollAdvances, TypeOK, TaskRecords
  <2>4. writes' \subseteq Writes
    BY <1>3, <2>1, NewWriteType DEF PollAdvances, TypeOK, Writers
  <2>5. poll' \in PollStates /\ PollHasTask'
    BY <1>3, <2>1 DEF PollAdvances, TypeOK, PollStates, PollPoints, PollHasTask
  <2> QED
    BY <1>3, <2>3, <2>4, <2>5 DEF PollAdvances, TypeOK
<1>4. CASE PollHandsOff
  <2>1. poll.cur \in Tasks
    BY <1>4 DEF PollHandsOff, PollResumes, PollHasTask
  <2>2. task[poll.cur].due \in Nat
    BY <2>1 DEF TypeOK, TaskRecords
  <2>3. /\ task' \in [Tasks -> TaskRecords] /\ writes' \subseteq Writes
        /\ poll' \in PollStates /\ PollHasTask'
    <3>1. CASE PollOn(poll.queue, task, writes)
      BY <1>q, <3>1, PollOnType, PollOnHasTask
    <3>2. CASE PollSettles(FALSE, task[poll.cur].due)
      BY <2>1, <2>2, <3>2, PollSettlesType, PollSettlesHasTask
    <3> QED
      BY <1>4, <3>1, <3>2 DEF PollHandsOff
  <2>4. calls' \in [Tasks -> Nat] /\ inflight' \subseteq Tasks
    <3>1. calls[poll.cur] + 1 \in Nat
      BY <2>1 DEF TypeOK
    <3> QED
      BY <1>4, <2>1, <3>1 DEF PollHandsOff, TypeOK
  <2> QED
    BY <1>4, <2>3, <2>4 DEF PollHandsOff, TypeOK
<1>5. CASE PollSaved
  <2>1. PollOn(poll.queue, task, writes)
    BY <1>5 DEF PollSaved
  <2>2. /\ task' \in [Tasks -> TaskRecords] /\ writes' \subseteq Writes
        /\ poll' \in PollStates /\ PollHasTask'
    BY <1>q, <2>1, PollOnType, PollOnHasTask
  <2> QED
    BY <1>5, <2>2 DEF PollSaved, TypeOK
<1>6. ASSUME NEW ok \in BOOLEAN, PollDelivered(ok) PROVE TypeOK' /\ PollHasTask'
  <2>1. poll.cur \in Tasks
    BY <1>6 DEF PollDelivered, PollHasTask
  <2>2. PICK due \in Nat : PollSettles(ok, due)
    <3>1. NextAfter(clock) \in Nat /\ task[poll.cur].due \in Nat
      BY <2>1, NextAfterNat DEF TypeOK, TaskRecords
    <3> QED
      BY <1>6, <3>1 DEF PollDelivered
  <2>3. /\ task' \in [Tasks -> TaskRecords] /\ writes' \subseteq Writes
        /\ poll' \in PollStates /\ PollHasTask'
    BY <2>1, <2>2, PollSettlesType, PollSettlesHasTask
  <2> QED
    BY <1>6, <2>3 DEF PollDelivered, TypeOK
<1> QED
  BY <1>1, <1>2, <1>3, <1>4, <1>5, <1>6 DEF PollStep, PollVerdict

LEMMA TypeStepPollDies ==
  ASSUME Typed, PollDies, UNCHANGED hb PROVE Typed'
<1>1. writes' \subseteq Writes
  BY OrphanedType DEF PollDies, Typed, Writers
<1> QED
  BY <1>1 DEF PollDies, Typed, TypeOK, DeadPoll, PollStates, PollPoints, PollHasTask

LEMMA TypeStepExecution ==
  ASSUME Typed, NEW t \in Tasks, Execution(t), UNCHANGED hb PROVE Typed'
<1>1. PollHasTask'
  BY DEF Execution, ExecutionReturns, ExecutionEnds, Typed, PollHasTask
<1>2. ASSUME NEW ok \in BOOLEAN, ExecutionReturns(t, ok) PROVE TypeOK'
  <2>1. calls' \in [Tasks -> Nat]
    <3>1. calls[t] \in Nat /\ calls[t] > 0
      BY <1>2 DEF ExecutionReturns, Typed, TypeOK
    <3> QED
      BY <1>2, <3>1 DEF ExecutionReturns, Typed, TypeOK
  <2>2. Verdict(t, ok) \in Statuses
    BY DEF Verdict, Statuses
  <2>3. task' \in [Tasks -> TaskRecords]
    BY <1>2, <2>2 DEF ExecutionReturns, Typed, TypeOK, TaskRecords
  <2>4. writes' \subseteq Writes
    BY <1>2, NewWriteType DEF ExecutionReturns, Typed, TypeOK, Writers
  <2>5. settling' \subseteq Tasks /\ inflight' \subseteq Tasks
    BY <1>2 DEF ExecutionReturns, Typed, TypeOK
  <2> QED
    BY <1>2, <2>1, <2>3, <2>4, <2>5 DEF ExecutionReturns, Typed, TypeOK
<1>3. CASE ExecutionEnds(t)
  BY <1>1, <1>3 DEF ExecutionEnds, Typed, TypeOK
<1> QED
  BY <1>1, <1>2, <1>3 DEF Execution, Typed

LEMMA TypeStepHb ==
  ASSUME Typed, HbStep PROVE Typed'
<1> USE DEF Typed
<1>t. hb.todo \in SUBSET Tasks /\ hb.spared \in SUBSET Tasks /\ hb.at \in Nat
  BY DEF TypeOK, HbStates
<1>k. Known(task) \in SUBSET Tasks /\ clock \in Nat
  BY DEF Known, TypeOK
<1>1. CASE \/ CheckStale(hb.todo, hb.spared, hb.at) \/ CheckCron(hb.todo, hb.at)
           /\ UNCHANGED <<clock, phase, rows, poll, calls, settling, inflight, used>>
  <2>1. /\ task' \in [Tasks -> TaskRecords] /\ writes' \subseteq Writes
        /\ hb' \in HbStates
    BY <1>t, <1>1, CheckStaleType, CheckCronType
  <2> QED
    BY <1>1, <2>1 DEF TypeOK, PollHasTask
<1>2. ASSUME NEW todo \in SUBSET Tasks, NEW now \in Nat,
             CheckOnce(todo, now) \/ CheckPoll(now),
             UNCHANGED <<clock, phase, rows, calls, settling, inflight, used>>
      PROVE  TypeOK' /\ PollHasTask'
  <2>1. /\ task' \in [Tasks -> TaskRecords] /\ writes' \subseteq Writes
        /\ hb' \in HbStates /\ poll' \in PollStates
    BY <1>2, CheckOnceType, CheckPollType
  <2>2. poll' = poll \/ poll' = FreshPoll(clock)
    BY <1>2 DEF CheckOnce, CheckPoll
  <2>3. PollHasTask'
    BY <2>2 DEF PollHasTask, FreshPoll
  <2> QED
    BY <1>2, <2>1, <2>3 DEF TypeOK
<1>3. CASE HbWakes
  BY <1>k, <1>2, <1>3 DEF HbWakes
<1>4. CASE HbResumesOnce
  BY <1>t, <1>2, <1>4 DEF HbResumesOnce
<1>5. CASE HbResumesStale
  BY <1>1, <1>5 DEF HbResumesStale
<1>6. CASE HbResumesCron
  BY <1>1, <1>6 DEF HbResumesCron
<1> QED
  BY <1>3, <1>4, <1>5, <1>6 DEF HbStep

LEMMA TypeStepRecover ==
  ASSUME Typed, Recover PROVE Typed'
<1>1. task' \in [Tasks -> TaskRecords]
  BY RecoveredType DEF Recover, Typed
<1>2. \A t \in Tasks : RowOf(Recovered(t)) \in Rows /\ rows[t] \in Rows
  BY RecoveredType, RowOfType DEF Typed, TypeOK
<1>3. PICK lost \in SUBSET Tasks, failures \in used.failures..MaxWriteFailures :
        /\ used' = [used EXCEPT !.failures = failures]
        /\ rows' = [t \in Tasks |-> IF t \in lost THEN rows[t] ELSE RowOf(Recovered(t))]
  BY DEF Recover
<1>4. rows' \in [Tasks -> Rows]
  BY <1>2, <1>3
<1>5. failures \in Nat
  BY <1>3, SchedulerAssumption DEF SchedulerAssumption, Typed, TypeOK
<1>6. used' \in [failures : Nat, deaths : Nat, halts : Nat]
  BY <1>3, <1>5 DEF Typed, TypeOK
<1> QED
  BY <1>1, <1>4, <1>6 DEF Recover, Typed, TypeOK, PollHasTask

LEMMA TypeStepProcess ==
  ASSUME Typed, Start \/ Stop \/ Exit \/ Crash PROVE Typed'
<1> USE DEF Typed
<1>0. /\ DeadPoll \in PollStates /\ HbOff \in HbStates
      /\ FreshPoll(clock) \in PollStates /\ HbFresh(clock) \in HbStates
  BY DEF TypeOK, DeadPoll, FreshPoll, PollStates, PollPoints, HbOff, HbFresh, HbStates,
         HbPoints
<1>1. CASE Start
  BY <1>0, <1>1 DEF Start, TypeOK, PollHasTask, FreshPoll
<1>2. CASE Stop
  <2>1. writes' \subseteq Writes
    BY <1>2, OrphanedType DEF Stop, Writers
  <2>2. used' \in [failures : Nat, deaths : Nat, halts : Nat]
    BY <1>2 DEF Stop, TypeOK
  <2> QED
    BY <1>0, <1>2, <2>1, <2>2 DEF Stop, TypeOK, PollHasTask, DeadPoll
<1>3. ASSUME Gone PROVE PollHasTask'
  BY <1>3 DEF Gone, PollHasTask, DeadPoll
<1>4. AbsentTask \in TaskRecords
  BY DEF AbsentTask, TaskRecords, Statuses
<1>5. CASE Exit
  BY <1>0, <1>3, <1>4, <1>5 DEF Exit, Gone, TypeOK
<1>6. CASE Crash
  BY <1>0, <1>3, <1>4, <1>6 DEF Crash, Gone, TypeOK
<1> QED
  BY <1>1, <1>2, <1>5, <1>6

LEMMA TypedInductive == Typed /\ [Next]_vars => Typed'
<1> SUFFICES ASSUME Typed, [Next]_vars PROVE Typed'
  OBVIOUS
<1>1. CASE Api /\ UNCHANGED hb
  BY <1>1, TypeStepApi DEF Typed, Api, AddTask, CancelTask, PauseTask, ResumeTask,
     Request, PollHasTask
<1>2. CASE Store /\ UNCHANGED hb
  BY <1>2, TypeStepStore DEF Typed, Store, ThreadReads, ThreadCommits, ThreadWrites,
     ThreadFails, PollHasTask
<1>3. CASE (PollStep \/ PollVerdict) /\ UNCHANGED hb
  BY <1>3, TypeStepPoll
<1>4. CASE PollDies /\ UNCHANGED hb
  BY <1>4, TypeStepPollDies
<1>5. ASSUME NEW t \in Tasks, Execution(t), UNCHANGED hb PROVE Typed'
  BY <1>5, TypeStepExecution
<1>6. CASE HbStep
  BY <1>6, TypeStepHb
<1>7. CASE Tick
  BY <1>7 DEF Tick, Typed, TypeOK, PollHasTask
<1>8. CASE Recover
  BY <1>8, TypeStepRecover
<1>9. CASE Start \/ Stop \/ Exit \/ Crash
  BY <1>9, TypeStepProcess
<1>10. CASE UNCHANGED vars
  BY <1>10 DEF vars, schedVars, Typed, TypeOK, PollHasTask
<1> QED
  BY <1>1, <1>2, <1>3, <1>4, <1>5, <1>6, <1>7, <1>8, <1>9, <1>10 DEF Next

LEMMA TypedAlways == Spec => []Typed
<1>1. Init => Typed
  BY TypeInit DEF Init, DeadPoll, Typed, PollHasTask
<1> QED
  BY <1>1, TypedInductive, PTL DEF Spec

(* Every variable keeps its type, for any number of tasks and any bounds. *)
THEOREM TypeCorrect == Spec => []TypeOK
<1>1. Typed => TypeOK
  BY DEF Typed
<1> QED
  BY <1>1, TypedAlways, PTL

------------------------------------------------------------------------------
(* Flights: who works on a task, and in which statuses it can then be found *)

(* The poll loop is in a round, and the heartbeat in a cycle, only while the
   service is up; the working set is filled by recover() and by nothing else. *)
Phased ==
  /\ phase # "up" => poll.pc = "dead" /\ hb.pc = "off"
  /\ poll.pc \in {"dead", "sleeping"} => poll.queue = {}
  /\ hb.pc = "once" => poll.pc = "dead"
  /\ phase = "down" => \A t \in Tasks : task[t].status = "absent"
  /\ phase \in {"down", "recovered"} => \A t \in Tasks : calls[t] = 0
  /\ phase = "recovered" => \A t \in Tasks : task[t].status # "running"

(* A task in the due snapshot can have been paused or cancelled since, no more; a
   task in flight is not in the snapshot, and is RUNNING unless it was cancelled
   or reaped; and it is in one flight only. *)
FlightOK(t) ==
  /\ calls[t] \in {0, 1}
  /\ PollHolds(t) => calls[t] = 0
  /\ t \in poll.queue => task[t].status \in {"pending", "paused", "cancelled"}
  /\ InFlight(t) =>
       t \notin poll.queue /\ task[t].status \in {"running", "cancelled", "failed"}

Flights == \A t \in Tasks : FlightOK(t)

Owned == Phased /\ Flights /\ RunningIsOwned

IInv == Typed /\ Owned

(* What the loop's run to its next await does to statuses and to the snapshot. *)
LEMMA PollOnEffect ==
  ASSUME Typed, NEW q \in SUBSET Tasks, NEW tbl \in [Tasks -> TaskRecords], NEW ws,
         PollOn(q, tbl, ws)
  PROVE  \/ /\ task' = tbl
            /\ poll'.pc = "sleeping" /\ poll'.queue = {}
         \/ \E s \in q :
              /\ poll'.pc = "firing" /\ poll'.cur = s /\ poll'.queue = q \ {s}
              /\ \A t \in Tasks :
                   task'[t].status = IF t = s THEN "running" ELSE tbl[t].status
<1>1. ASSUME NEW w, task' = tbl, poll' = FreshPoll(w)
      PROVE  task' = tbl /\ poll'.pc = "sleeping" /\ poll'.queue = {}
  BY <1>1 DEF FreshPoll
<1>2. ASSUME NEW s \in q,
             task' = [tbl EXCEPT ![s].status = "running", ![s].start = clock],
             poll' = [pc |-> "firing", queue |-> q \ {s}, cur |-> s, wake |-> 0]
      PROVE  /\ poll'.pc = "firing" /\ poll'.cur = s /\ poll'.queue = q \ {s}
             /\ \A t \in Tasks :
                  task'[t].status = IF t = s THEN "running" ELSE tbl[t].status
  BY <1>2 DEF TaskRecords
<1>3. \/ \E w : task' = tbl /\ poll' = FreshPoll(w)
      \/ \E s \in q :
           /\ task' = [tbl EXCEPT ![s].status = "running", ![s].start = clock]
           /\ poll' = [pc |-> "firing", queue |-> q \ {s}, cur |-> s, wake |-> 0]
  BY Zenon DEF PollOn
<1> QED
  BY <1>1, <1>2, <1>3, Zenon

(* The loop runs on over a snapshot whose tasks are in nobody's hands. *)
LEMMA PollOnFlight ==
  ASSUME Typed, NEW q \in SUBSET Tasks, NEW tbl \in [Tasks -> TaskRecords], NEW ws,
         PollOn(q, tbl, ws),
         NEW t \in Tasks, calls'[t] \in {0, 1},
         t \in q => /\ calls'[t] = 0
                   /\ tbl[t].status \in {"pending", "paused", "cancelled"},
         calls'[t] > 0 => tbl[t].status \in {"running", "cancelled", "failed"}
  PROVE  /\ FlightOK(t)'
         /\ task'[t].status = "running" => InFlight(t)' \/ tbl[t].status = "running"
<1>1. CASE task' = tbl /\ poll'.pc = "sleeping" /\ poll'.queue = {}
  BY <1>1 DEF FlightOK, InFlight, PollHolds
<1>2. ASSUME NEW s \in q,
             poll'.pc = "firing", poll'.cur = s, poll'.queue = q \ {s},
             \A u \in Tasks :
               task'[u].status = IF u = s THEN "running" ELSE tbl[u].status
      PROVE  /\ FlightOK(t)'
             /\ task'[t].status = "running" => InFlight(t)' \/ tbl[t].status = "running"
  BY <1>2 DEF FlightOK, InFlight, PollHolds
<1> QED
  BY <1>1, <1>2, PollOnEffect

LEMMA PollOnPhased ==
  ASSUME IInv, NEW q \in SUBSET Tasks, NEW tbl \in [Tasks -> TaskRecords], NEW ws,
         PollOn(q, tbl, ws), phase = "up", phase' = phase, hb' = hb,
         poll.pc # "dead"
  PROVE  Phased'
<1>1. \/ poll'.pc = "sleeping" /\ poll'.queue = {}
      \/ poll'.pc = "firing"
  BY PollOnEffect DEF IInv
<1> QED
  BY <1>1 DEF IInv, Owned, Phased

LEMMA OwnedInit == Init => Owned
BY DEF Init, Owned, Phased, Flights, FlightOK, InFlight, PollHolds, RunningIsOwned,
       DeadPoll, HbOff, AbsentTask

LEMMA OwnedStepApi ==
  ASSUME IInv, Api, UNCHANGED hb PROVE Owned'
<1> PICK t \in Tasks : AddTask(t) \/ CancelTask(t) \/ PauseTask(t) \/ ResumeTask(t)
  BY DEF Api
<1>0. PICK status \in {"pending", "cancelled", "paused"} : \E due :
        /\ Request(t, status, due)
        /\ status = "pending" => task[t].status \in {"absent", "paused"}
        /\ status = "paused" => task[t].status = "pending"
  BY DEF AddTask, CancelTask, PauseTask, ResumeTask
<1>1. PICK due :
        /\ Request(t, status, due)
        /\ status = "pending" => task[t].status \in {"absent", "paused"}
        /\ status = "paused" => task[t].status = "pending"
  BY <1>0
<1>2. \A u \in Tasks : task'[u].status = IF u = t THEN status ELSE task[u].status
  <2>1. task' = [task EXCEPT ![t].status = status, ![t].due = due]
    BY <1>1 DEF Request
  <2> QED
    BY <2>1 DEF IInv, Typed, TypeOK, TaskRecords
<1>3. phase = "up" /\ UNCHANGED <<phase, poll, calls, hb, used>>
  BY <1>1 DEF Request
<1>4. Phased'
  BY <1>2, <1>3 DEF IInv, Owned, Phased
<1>5. ASSUME NEW u \in Tasks PROVE FlightOK(u)'
  <2>1. FlightOK(u)
    BY DEF IInv, Owned, Flights
  <2>2. u = t => task'[u].status = status
    BY <1>2
  <2>3. u # t => task'[u].status = task[u].status
    BY <1>2
  <2> QED
    BY <1>1, <1>3, <2>1, <2>2, <2>3 DEF FlightOK, InFlight, PollHolds
<1>6. RunningIsOwned'
  BY <1>2, <1>3 DEF IInv, Owned, RunningIsOwned, InFlight, PollHolds
<1> QED
  BY <1>4, <1>5, <1>6 DEF Owned, Flights

(* Steps that touch neither a status nor a hand. *)
LEMMA OwnedFrame ==
  ASSUME IInv, UNCHANGED <<task, phase, poll, calls, hb>>,
         used'.deaths = used.deaths
  PROVE  Owned'
BY DEF IInv, Owned, Phased, Flights, FlightOK, InFlight, PollHolds, RunningIsOwned

LEMMA OwnedStepStore ==
  ASSUME IInv, Store, UNCHANGED hb PROVE Owned'
<1>1. UNCHANGED <<task, phase, poll, calls, hb>>
  BY DEF Store, ThreadReads, ThreadCommits, ThreadWrites, ThreadFails
<1>2. used'.deaths = used.deaths
  BY DEF Store, ThreadReads, ThreadCommits, ThreadWrites, ThreadFails, IInv, Typed, TypeOK
<1> QED
  BY <1>1, <1>2, OwnedFrame

(* The loop settles the task in hand and either waits or runs on. *)
LEMMA PollSettlesOwned ==
  ASSUME IInv, phase = "up", poll.pc \in {"firing", "advancing", "delivering"},
         NEW ok \in BOOLEAN, NEW due \in Nat, PollSettles(ok, due),
         UNCHANGED <<phase, calls, hb, used>>
  PROVE  Owned'
<1> DEFINE c == poll.cur
<1>1. /\ c \in Tasks /\ Typed /\ poll.queue \in SUBSET Tasks
      /\ task \in [Tasks -> TaskRecords]
  BY DEF IInv, Typed, TypeOK, PollHasTask, PollStates
<1>2. PollHolds(c) /\ \A t \in Tasks : FlightOK(t) /\ (PollHolds(t) => t = c)
  BY DEF PollHolds, IInv, Owned, Flights
<1>3. CASE task[c].status = "failed" /\ PollOn(poll.queue, task, writes)
  <2>1. Phased'
    BY <1>1, <1>3, PollOnPhased
  <2>2. ASSUME NEW t \in Tasks
        PROVE  /\ FlightOK(t)'
               /\ task'[t].status = "running" => InFlight(t)' \/ task[t].status = "running"
    <3>1. /\ calls'[t] \in {0, 1}
          /\ t \in poll.queue =>
               calls'[t] = 0 /\ task[t].status \in {"pending", "paused", "cancelled"}
          /\ calls'[t] > 0 => task[t].status \in {"running", "cancelled", "failed"}
      BY <1>2 DEF FlightOK, InFlight
    <3> QED
      BY <1>1, <1>3, <3>1, PollOnFlight
  <2>3. RunningIsOwned'
    <3>1. ASSUME NEW t \in Tasks, used.deaths = 0, task'[t].status = "running"
          PROVE  InFlight(t)'
      <4>1. CASE InFlight(t)'
        BY <4>1
      <4>2. CASE task[t].status = "running"
        <5>1. InFlight(t) /\ ~PollHolds(t)
          BY <1>2, <1>3, <3>1, <4>2 DEF IInv, Owned, RunningIsOwned
        <5> QED
          BY <5>1 DEF InFlight
      <4> QED
        BY <2>2, <3>1, <4>1, <4>2
    <3> QED
      BY <3>1 DEF RunningIsOwned
  <2> QED
    BY <2>1, <2>2, <2>3 DEF Owned, Flights
<1>4. CASE /\ task[c].status # "failed"
           /\ task' = [task EXCEPT ![c].status = Verdict(c, ok), ![c].due = due]
           /\ poll' = [poll EXCEPT !.pc = "saving"]
  <2>1. poll'.pc = "saving" /\ poll'.queue = poll.queue /\ poll'.cur = c
    BY <1>4 DEF IInv, Typed, TypeOK, PollStates
  <2>2. \A t \in Tasks :
          task'[t].status = IF t = c THEN Verdict(c, ok) ELSE task[t].status
    BY <1>1, <1>4 DEF TaskRecords
  <2>3. Verdict(c, ok) \in {"pending", "completed", "failed"}
    BY DEF Verdict
  <2>4. Phased'
    BY <2>1 DEF IInv, Owned, Phased
  <2>5. ASSUME NEW t \in Tasks PROVE FlightOK(t)'
    <3>1. CASE t = c
      BY <1>2, <2>1, <2>2, <2>3, <3>1 DEF FlightOK, InFlight, PollHolds
    <3>2. CASE t # c
      BY <1>2, <2>1, <2>2, <3>2 DEF FlightOK, InFlight, PollHolds
    <3> QED
      BY <3>1, <3>2
  <2>6. RunningIsOwned'
    BY <2>1, <2>2, <2>3 DEF IInv, Owned, RunningIsOwned, InFlight, PollHolds
  <2> QED
    BY <2>4, <2>5, <2>6 DEF Owned, Flights
<1> QED
  BY <1>3, <1>4 DEF PollSettles

(* The loop runs on with the hand it had, if any, given up or given to an
   execution. *)
LEMMA PollOnOwned ==
  ASSUME IInv, phase = "up", poll.pc # "dead", UNCHANGED <<phase, hb, used>>,
         NEW q \in SUBSET Tasks, PollOn(q, task, writes),
         \A t \in q : task[t].status \in {"pending", "paused", "cancelled"} /\ calls'[t] = 0,
         \A t \in Tasks : calls'[t] = calls[t] + (IF PollHolds(t) THEN 1 ELSE 0)
  PROVE  Owned'
<1>1. Typed /\ task \in [Tasks -> TaskRecords] /\ \A t \in Tasks : FlightOK(t)
  BY DEF IInv, Typed, TypeOK, Owned, Flights
<1>2. Phased'
  BY <1>1, PollOnPhased
<1>3. ASSUME NEW t \in Tasks
      PROVE  /\ FlightOK(t)'
             /\ task'[t].status = "running" => InFlight(t)' \/ task[t].status = "running"
  BY <1>1, PollOnFlight DEF FlightOK, InFlight
<1>4. ASSUME NEW t \in Tasks, used.deaths = 0, task[t].status = "running"
      PROVE  InFlight(t)'
  BY <1>1, <1>4 DEF IInv, Owned, RunningIsOwned, InFlight, FlightOK
<1>5. RunningIsOwned'
  BY <1>3, <1>4 DEF RunningIsOwned
<1> QED
  BY <1>2, <1>3, <1>5 DEF Owned, Flights

LEMMA OwnedStepPoll ==
  ASSUME IInv, PollStep \/ PollVerdict, UNCHANGED hb PROVE Owned'
<1>q. /\ poll.queue \in SUBSET Tasks /\ poll.cur \in Tasks \cup {NoTask}
      /\ \A t \in Tasks : FlightOK(t)
      /\ poll.pc # "dead" => phase = "up"
      /\ calls \in [Tasks -> Nat]
  BY DEF IInv, Typed, TypeOK, PollStates, Owned, Flights, Phased
<1>1. CASE PollScan
  <2> DEFINE q == {t \in Tasks : IsDue(task[t], clock)}
  <2>1. PollOn(q, task, writes) /\ calls' = calls /\ ~(\E t \in Tasks : PollHolds(t))
    BY <1>1 DEF PollScan, PollHolds
  <2>2. \A t \in q : task[t].status = "pending" /\ calls[t] = 0
    BY <1>q DEF IsDue, FlightOK, InFlight
  <2>3. \A t \in Tasks : calls[t] = calls[t] + (IF PollHolds(t) THEN 1 ELSE 0)
    BY <1>q, <2>1
  <2> QED
    BY <1>1, <2>1, <2>2, <2>3, PollOnOwned DEF PollScan
<1>2. CASE PollDelivers
  <2>1. /\ poll.pc = "firing" /\ poll'.pc = "delivering" /\ poll'.queue = poll.queue
        /\ poll'.cur = poll.cur /\ UNCHANGED <<phase, task, calls, hb, used>>
    BY <1>2 DEF PollDelivers, PollResumes, IInv, Typed, TypeOK, PollStates
  <2> QED
    BY <2>1 DEF IInv, Owned, Phased, Flights, FlightOK, InFlight, PollHolds, RunningIsOwned
<1>3. CASE PollAdvances
  <2>1. /\ poll.pc = "firing" /\ poll'.pc = "advancing" /\ poll'.queue = poll.queue
        /\ poll'.cur = poll.cur /\ UNCHANGED <<phase, calls, hb, used>>
    BY <1>3 DEF PollAdvances, PollResumes, IInv, Typed, TypeOK, PollStates
  <2>2. \A t \in Tasks : task'[t].status = task[t].status
    BY <1>3 DEF PollAdvances, IInv, Typed, TypeOK, TaskRecords
  <2> QED
    BY <2>1, <2>2 DEF IInv, Owned, Phased, Flights, FlightOK, InFlight, PollHolds,
                      RunningIsOwned
<1>4. CASE PollHandsOff
  <2> DEFINE c == poll.cur
  <2>1. poll.pc \in {"firing", "advancing"} /\ phase = "up" /\ c \in Tasks
    BY <1>4, <1>q DEF PollHandsOff, PollResumes, IInv, Typed, PollHasTask
  <2>2. CASE HasRunner
    <3>1. /\ PollOn(poll.queue, task, writes) /\ calls' = [calls EXCEPT ![c] = @ + 1]
          /\ UNCHANGED <<phase, hb, used>>
      BY <1>4, <2>2 DEF PollHandsOff
    <3>2. \A t \in Tasks : calls'[t] = calls[t] + (IF PollHolds(t) THEN 1 ELSE 0)
      BY <1>q, <2>1, <3>1 DEF PollHolds
    <3>3. \A t \in poll.queue :
            task[t].status \in {"pending", "paused", "cancelled"} /\ calls'[t] = 0
      BY <1>q, <3>2 DEF FlightOK, InFlight
    <3> QED
      BY <1>q, <2>1, <3>1, <3>2, <3>3, PollOnOwned
  <2>3. CASE ~HasRunner
    <3>1. /\ PollSettles(FALSE, task[c].due) /\ UNCHANGED <<phase, calls, hb, used>>
      BY <1>4, <2>3 DEF PollHandsOff
    <3>2. task[c].due \in Nat
      BY <2>1 DEF IInv, Typed, TypeOK, TaskRecords
    <3> QED
      BY <2>1, <3>1, <3>2, PollSettlesOwned
  <2> QED
    BY <2>2, <2>3
<1>5. CASE PollSaved
  <2>1. /\ PollOn(poll.queue, task, writes) /\ UNCHANGED <<phase, calls, hb, used>>
        /\ poll.pc = "saving"
    BY <1>5 DEF PollSaved, PollResumes
  <2>2. \A t \in Tasks : calls'[t] = calls[t] + (IF PollHolds(t) THEN 1 ELSE 0)
    BY <1>q, <2>1 DEF PollHolds
  <2>3. \A t \in poll.queue :
          task[t].status \in {"pending", "paused", "cancelled"} /\ calls'[t] = 0
    BY <1>q, <2>1 DEF FlightOK, InFlight
  <2> QED
    BY <1>q, <2>1, <2>2, <2>3, PollOnOwned
<1>6. ASSUME NEW ok \in BOOLEAN, PollDelivered(ok) PROVE Owned'
  <2>1. /\ poll.pc = "delivering" /\ phase = "up" /\ poll.cur \in Tasks
        /\ UNCHANGED <<phase, calls, hb, used>>
    BY <1>6, <1>q DEF PollDelivered, IInv, Typed, PollHasTask
  <2>2. PICK due \in Nat : PollSettles(ok, due)
    <3>1. NextAfter(clock) \in Nat /\ task[poll.cur].due \in Nat
      BY <2>1, NextAfterNat DEF IInv, Typed, TypeOK, TaskRecords
    <3> QED
      BY <1>6, <3>1 DEF PollDelivered
  <2> QED
    BY <2>1, <2>2, PollSettlesOwned
<1> QED
  BY <1>1, <1>2, <1>3, <1>4, <1>5, <1>6 DEF PollStep, PollVerdict

LEMMA OwnedStepPollDies ==
  ASSUME IInv, PollDies, UNCHANGED hb PROVE Owned'
<1>1. /\ poll'.pc = "dead" /\ poll'.queue = {} /\ phase = "up"
      /\ UNCHANGED <<phase, task, calls, hb>> /\ used'.deaths # 0
  BY DEF PollDies, DeadPoll, IInv, Typed, TypeOK
<1> QED
  BY <1>1 DEF IInv, Owned, Phased, Flights, FlightOK, InFlight, PollHolds, RunningIsOwned

LEMMA OwnedStepExecution ==
  ASSUME IInv, NEW t \in Tasks, Execution(t), UNCHANGED hb PROVE Owned'
<1>1. ASSUME NEW ok \in BOOLEAN, ExecutionReturns(t, ok) PROVE Owned'
  <2>1. /\ calls[t] = 1 /\ ~PollHolds(t) /\ t \notin poll.queue
        /\ task[t].status \in {"running", "cancelled", "failed"}
        /\ phase \in {"up", "stopping"}
    BY <1>1 DEF ExecutionReturns, IInv, Owned, Phased, Flights, FlightOK, InFlight, Typed,
                TypeOK
  <2>2. \A u \in Tasks : calls'[u] = IF u = t THEN 0 ELSE calls[u]
    BY <1>1, <2>1 DEF ExecutionReturns, IInv, Typed, TypeOK
  <2>3. Verdict(t, ok) \in {"pending", "completed", "failed"}
    BY DEF Verdict
  <2>4. \A u \in Tasks :
          IF u = t THEN task'[u].status \in {"pending", "completed", "failed"}
                   ELSE task'[u].status = task[u].status
    BY <1>1, <2>3 DEF ExecutionReturns, IInv, Typed, TypeOK, TaskRecords
  <2>5. UNCHANGED <<phase, poll, hb, used>>
    BY <1>1 DEF ExecutionReturns
  <2>6. Phased'
    BY <2>1, <2>2, <2>4, <2>5 DEF IInv, Owned, Phased
  <2>7. ASSUME NEW u \in Tasks PROVE FlightOK(u)'
    BY <2>1, <2>2, <2>4, <2>5 DEF IInv, Owned, Flights, FlightOK, InFlight, PollHolds
  <2>8. RunningIsOwned'
    BY <2>2, <2>4, <2>5 DEF IInv, Owned, RunningIsOwned, InFlight, PollHolds
  <2> QED
    BY <2>6, <2>7, <2>8 DEF Owned, Flights
<1>2. CASE ExecutionEnds(t)
  BY <1>2, OwnedFrame DEF ExecutionEnds
<1> QED
  BY <1>1, <1>2 DEF Execution

(* A step of the heartbeat reaps RUNNING tasks, after which it may revive the
   loop, or misses PENDING tasks while the loop is dead. *)
HbReaps ==
  /\ \A t \in Tasks :
       \/ task'[t].status = task[t].status
       \/ task[t].status = "running" /\ task'[t].status = "failed"
  /\ hb'.pc \in {"asleep", "cron", "stale"}
  /\ poll' = poll \/ (poll.pc = "dead" /\ poll' = FreshPoll(clock))

HbMisses ==
  /\ \A t \in Tasks :
       \/ task'[t].status = task[t].status
       \/ t \notin Cron /\ task[t].status = "pending" /\ task'[t].status = "missed"
  /\ hb'.pc = "once" /\ poll' = poll

LEMMA CheckCronEffect ==
  ASSUME TypeOK, NEW todo \in SUBSET Tasks, NEW now, CheckCron(todo, now)
  PROVE  /\ \A t \in Tasks : task'[t].status = task[t].status
         /\ hb'.pc \in {"asleep", "cron"}
<1>1. CASE hb' = HbFresh(clock + Beat) /\ task' = task
  BY <1>1 DEF HbFresh
<1>2. ASSUME NEW t \in todo, NEW rest,
             hb' = [pc |-> "cron", at |-> now, cur |-> t, todo |-> rest, spared |-> {}],
             task' = task \/ task' = [task EXCEPT ![t].due = NextAfter(now)]
      PROVE  /\ \A u \in Tasks : task'[u].status = task[u].status
             /\ hb'.pc \in {"asleep", "cron"}
  BY <1>2 DEF TypeOK, TaskRecords
<1> QED
  BY <1>1, <1>2 DEF CheckCron

LEMMA CheckStaleEffect ==
  ASSUME TypeOK, NEW todo \in SUBSET Tasks, NEW spared, NEW now,
         CheckStale(todo, spared, now),
         poll' = poll \/ (poll.pc = "dead" /\ poll' = FreshPoll(clock))
  PROVE  HbReaps
<1>1. CASE CheckCron(Known(task), now)
  BY <1>1, CheckCronEffect DEF HbReaps, Known
<1>2. ASSUME NEW t \in todo, NEW rest, IsStuck(t, spared, now),
             hb' = [pc |-> "stale", at |-> now, cur |-> t, todo |-> rest,
                    spared |-> spared],
             task' = [task EXCEPT ![t].status = "failed"]
      PROVE  HbReaps
  BY <1>2 DEF HbReaps, IsStuck, TypeOK, TaskRecords
<1> QED
  BY <1>1, <1>2 DEF CheckStale

LEMMA CheckPollEffect ==
  ASSUME TypeOK, NEW now, CheckPoll(now) PROVE HbReaps
<1>1. /\ poll' = poll \/ (poll.pc = "dead" /\ poll' = FreshPoll(clock))
      /\ CheckStale(Known(task), inflight, now)
  BY DEF CheckPoll
<1>2. Known(task) \in SUBSET Tasks
  BY DEF Known
<1> QED
  BY <1>1, <1>2, CheckStaleEffect

LEMMA CheckOnceEffect ==
  ASSUME TypeOK, NEW todo \in SUBSET Tasks, NEW now, CheckOnce(todo, now)
  PROVE  HbReaps \/ HbMisses
<1>1. CASE CheckPoll(now)
  BY <1>1, CheckPollEffect
<1>2. ASSUME NEW t \in todo, NEW rest, IsOverdue(t, now),
             hb' = [pc |-> "once", at |-> now, cur |-> t, todo |-> rest, spared |-> {}],
             task' = [task EXCEPT ![t].status = "missed"], poll' = poll
      PROVE  HbMisses
  BY <1>2 DEF HbMisses, IsOverdue, TypeOK, TaskRecords
<1> QED
  BY <1>1, <1>2 DEF CheckOnce

LEMMA HbEffect ==
  ASSUME TypeOK, HbStep
  PROVE  /\ HbReaps \/ (HbMisses /\ (hb.pc = "once" \/ poll.pc = "dead"))
         /\ UNCHANGED <<phase, calls, used>> /\ hb.pc # "off"
<1>1. hb.todo \in SUBSET Tasks /\ Known(task) \in SUBSET Tasks
  BY DEF TypeOK, HbStates, Known
<1>2. CASE HbWakes
  <2>1. CASE poll.pc = "dead" /\ CheckOnce(Known(task), clock)
    BY <1>1, <1>2, <2>1, CheckOnceEffect DEF HbWakes
  <2>2. CASE CheckPoll(clock)
    BY <1>2, <2>2, CheckPollEffect DEF HbWakes
  <2> QED
    BY <1>2, <2>1, <2>2 DEF HbWakes
<1>3. CASE HbResumesOnce
  BY <1>1, <1>3, CheckOnceEffect DEF HbResumesOnce
<1>4. CASE HbResumesStale
  BY <1>1, <1>4, CheckStaleEffect DEF HbResumesStale
<1>5. CASE HbResumesCron
  BY <1>1, <1>5, CheckCronEffect DEF HbResumesCron, HbReaps
<1> QED
  BY <1>2, <1>3, <1>4, <1>5 DEF HbStep

LEMMA OwnedStepHb ==
  ASSUME IInv, HbStep PROVE Owned'
<1>1. /\ HbReaps \/ (HbMisses /\ (hb.pc = "once" \/ poll.pc = "dead"))
      /\ UNCHANGED <<phase, calls, used>> /\ hb.pc # "off"
  BY HbEffect DEF IInv, Typed
<1>2. phase = "up" /\ \A t \in Tasks : FlightOK(t)
  BY <1>1 DEF IInv, Owned, Phased, Flights
<1>3. CASE HbReaps
  <2>1. \/ poll' = poll
        \/ /\ poll.pc = "dead" /\ poll.queue = {}
           /\ poll'.pc = "sleeping" /\ poll'.queue = {}
    BY <1>3 DEF HbReaps, FreshPoll, IInv, Owned, Phased
  <2>2. \A t \in Tasks : PollHolds(t)' <=> PollHolds(t)
    BY <2>1 DEF PollHolds
  <2>3. poll'.queue = poll.queue
    BY <2>1
  <2>4. Phased'
    BY <1>1, <1>2, <1>3, <2>1 DEF HbReaps, IInv, Owned, Phased
  <2>5. ASSUME NEW t \in Tasks PROVE FlightOK(t)'
    BY <1>1, <1>2, <1>3, <2>2, <2>3 DEF HbReaps, FlightOK, InFlight
  <2>6. RunningIsOwned'
    BY <1>1, <1>3, <2>2 DEF HbReaps, IInv, Owned, RunningIsOwned, InFlight
  <2> QED
    BY <2>4, <2>5, <2>6 DEF Owned, Flights
<1>4. CASE HbMisses /\ (hb.pc = "once" \/ poll.pc = "dead")
  <2>1. poll.pc = "dead" /\ poll.queue = {} /\ poll' = poll
    BY <1>4 DEF HbMisses, IInv, Owned, Phased
  <2>2. Phased'
    BY <1>1, <1>2, <1>4, <2>1 DEF HbMisses, IInv, Owned, Phased
  <2>3. ASSUME NEW t \in Tasks PROVE FlightOK(t)'
    BY <1>1, <1>2, <1>4, <2>1 DEF HbMisses, FlightOK, InFlight, PollHolds
  <2>4. RunningIsOwned'
    BY <1>1, <1>4, <2>1 DEF HbMisses, IInv, Owned, RunningIsOwned, InFlight, PollHolds
  <2> QED
    BY <2>2, <2>3, <2>4 DEF Owned, Flights
<1> QED
  BY <1>1, <1>3, <1>4

LEMMA OwnedStepProcess ==
  ASSUME IInv, Recover \/ Start \/ Stop \/ Exit \/ Crash PROVE Owned'
<1> USE DEF PollHolds, InFlight, FlightOK, Flights
<1>1. CASE Recover
  <2>1. ASSUME NEW t \in Tasks PROVE Recovered(t).status # "running"
    BY DEF Recovered, TaskOfRow, IInv, Typed, TypeOK, Rows
  <2>2. /\ phase = "down" /\ phase' = "recovered" /\ UNCHANGED <<poll, calls, hb>>
        /\ \A t \in Tasks : task'[t].status # "running"
    BY <1>1, <2>1 DEF Recover
  <2>3. /\ poll.pc = "dead" /\ poll.queue = {} /\ hb.pc = "off"
        /\ \A t \in Tasks : calls[t] = 0
    BY <2>2 DEF IInv, Owned, Phased
  <2> QED
    BY <2>2, <2>3 DEF Owned, Phased, RunningIsOwned
<1>2. CASE Start
  <2>1. /\ phase = "recovered" /\ phase' = "up" /\ UNCHANGED <<task, calls>>
        /\ poll'.pc = "sleeping" /\ poll'.queue = {} /\ hb'.pc = "asleep"
    BY <1>2 DEF Start, FreshPoll, HbFresh
  <2> QED
    BY <2>1 DEF IInv, Owned, Phased, RunningIsOwned
<1>3. CASE Stop
  <2>1. /\ phase = "up" /\ phase' = "stopping" /\ UNCHANGED <<task, calls>>
        /\ poll'.pc = "dead" /\ poll'.queue = {} /\ hb'.pc = "off"
    BY <1>3 DEF Stop, DeadPoll, HbOff
  <2> QED
    BY <2>1 DEF IInv, Owned, Phased, RunningIsOwned
<1>4. CASE Exit \/ Crash
  <2>1. /\ phase' = "down" /\ poll'.pc = "dead" /\ poll'.queue = {} /\ hb'.pc = "off"
        /\ \A t \in Tasks : task'[t].status = "absent" /\ calls'[t] = 0
    BY <1>4 DEF Exit, Crash, Gone, DeadPoll, HbOff, AbsentTask
  <2> QED
    BY <2>1 DEF Owned, Phased, RunningIsOwned
<1> QED
  BY <1>1, <1>2, <1>3, <1>4

LEMMA IInvInductive == IInv /\ [Next]_vars => IInv'
<1> SUFFICES ASSUME IInv, [Next]_vars PROVE Owned'
  BY TypedInductive DEF IInv
<1>1. CASE Api /\ UNCHANGED hb
  BY <1>1, OwnedStepApi
<1>2. CASE Store /\ UNCHANGED hb
  BY <1>2, OwnedStepStore
<1>3. CASE (PollStep \/ PollVerdict) /\ UNCHANGED hb
  BY <1>3, OwnedStepPoll
<1>4. CASE PollDies /\ UNCHANGED hb
  BY <1>4, OwnedStepPollDies
<1>5. ASSUME NEW t \in Tasks, Execution(t), UNCHANGED hb PROVE Owned'
  BY <1>5, OwnedStepExecution
<1>6. CASE HbStep
  BY <1>6, OwnedStepHb
<1>7. CASE Tick \/ UNCHANGED vars
  BY <1>7, OwnedFrame DEF Tick, vars, schedVars
<1>8. CASE Recover \/ Start \/ Stop \/ Exit \/ Crash
  BY <1>8, OwnedStepProcess
<1> QED
  BY <1>1, <1>2, <1>3, <1>4, <1>5, <1>6, <1>7, <1>8 DEF Next

LEMMA IInvAlways == Spec => []IInv
<1>1. Init => IInv
  BY TypeInit, OwnedInit DEF Init, DeadPoll, IInv, Typed, PollHasTask
<1> QED
  BY <1>1, IInvInductive, PTL DEF Spec

(* No task is ever in two flights at a time. *)
THEOREM SingleFlightHolds == Spec => []SingleFlight
<1>1. IInv => SingleFlight
  BY DEF IInv, Owned, Flights, FlightOK, SingleFlight
<1> QED
  BY <1>1, IInvAlways, PTL

(* Unless the poll loop died, no task is RUNNING with nobody at work on it. *)
THEOREM RunningIsOwnedHolds == Spec => []RunningIsOwned
<1>1. IInv => RunningIsOwned
  BY DEF IInv, Owned
<1> QED
  BY <1>1, IInvAlways, PTL

(* A task has at most one worker, and a RUNNING one has one. *)
THEOREM OneWorkerEachHolds == Spec => []OneWorkerEach
<1>1. SingleFlight /\ RunningIsOwned => OneWorkerEach
  BY DEF OneWorkerEach
<1> QED
  BY <1>1, SingleFlightHolds, RunningIsOwnedHolds, PTL

------------------------------------------------------------------------------
(* The life cycle: what one step of the service does to one task *)

Kept(t) == InFlight(t)' <=> InFlight(t)
St(t) == task[t].status

(* The moves of TaskLifecycle, read through the refinement mapping. *)
LEMMA LifecycleAt ==
  ASSUME NEW t \in Tasks
  PROVE  /\ Lifecycle!Same(t) <=> St(t)' = St(t) /\ Kept(t)
         /\ Lifecycle!Admit(t) <=> St(t) = "absent" /\ St(t)' = "pending" /\ Kept(t)
         /\ Lifecycle!Cancel(t) <=> St(t) # "absent" /\ St(t)' = "cancelled" /\ Kept(t)
         /\ Lifecycle!Pause(t) <=>
              t \in Cron /\ St(t) = "pending" /\ St(t)' = "paused" /\ Kept(t)
         /\ Lifecycle!Resume(t) <=>
              t \in Cron /\ St(t) = "paused" /\ St(t)' = "pending" /\ Kept(t)
         /\ Lifecycle!Miss(t) <=>
              t \notin Cron /\ St(t) = "pending" /\ St(t)' = "missed" /\ Kept(t)
         /\ Lifecycle!Reap(t) <=> St(t) = "running" /\ St(t)' = "failed" /\ Kept(t)
         /\ Lifecycle!Launch(t) <=>
              /\ ~InFlight(t) /\ InFlight(t)'
              /\ St(t) \in {"pending", "paused", "cancelled"} /\ St(t)' = "running"
         /\ Lifecycle!Land(t) <=>
              /\ InFlight(t) /\ ~InFlight(t)'
              /\ IF St(t) = "failed" THEN St(t)' = "failed"
                 ELSE St(t)' \in Lifecycle!Outcomes(t)
         /\ Lifecycle!Drop(t) <=> InFlight(t) /\ ~InFlight(t)' /\ St(t)' = St(t)
<1>1. Lifecycle!Stays(t) <=> Kept(t)
  BY DEF Lifecycle!Stays, Kept
<1>2. Lifecycle!Same(t) <=> St(t)' = St(t) /\ Kept(t)
  BY <1>1 DEF Lifecycle!Same, St
<1>3. \A from, to :
        Lifecycle!Moves(t, from, to) <=> St(t) \in from /\ St(t)' \in to /\ Kept(t)
  BY <1>1 DEF Lifecycle!Moves, St
<1>4. Lifecycle!Cancel(t) <=> St(t) # "absent" /\ St(t)' = "cancelled" /\ Kept(t)
  BY <1>1 DEF Lifecycle!Cancel, St
<1>5. Lifecycle!Launch(t) <=>
        /\ ~InFlight(t) /\ InFlight(t)'
        /\ St(t) \in {"pending", "paused", "cancelled"} /\ St(t)' = "running"
  BY DEF Lifecycle!Launch, St
<1>6. Lifecycle!Land(t) <=>
        /\ InFlight(t) /\ ~InFlight(t)'
        /\ IF St(t) = "failed" THEN St(t)' = "failed"
           ELSE St(t)' \in Lifecycle!Outcomes(t)
  BY DEF Lifecycle!Land, St
<1>7. Lifecycle!Drop(t) <=> InFlight(t) /\ ~InFlight(t)' /\ St(t)' = St(t)
  BY DEF Lifecycle!Drop, St
<1> QED
  BY <1>2, <1>3, <1>4, <1>5, <1>6, <1>7
  DEF Lifecycle!Admit, Lifecycle!Pause, Lifecycle!Resume, Lifecycle!Miss, Lifecycle!Reap

Moved(t) ==
  \/ Lifecycle!Same(t) \/ Lifecycle!Admit(t) \/ Lifecycle!Cancel(t)
  \/ Lifecycle!Pause(t) \/ Lifecycle!Resume(t) \/ Lifecycle!Miss(t)
  \/ Lifecycle!Reap(t) \/ Lifecycle!Launch(t) \/ Lifecycle!Land(t) \/ Lifecycle!Drop(t)

LEMMA MovedFrame ==
  ASSUME UNCHANGED <<task, poll, calls>>, NEW t \in Tasks PROVE Moved(t)
<1>1. St(t)' = St(t) /\ Kept(t)
  BY DEF St, Kept, InFlight, PollHolds
<1> QED
  BY <1>1, LifecycleAt DEF Moved

LEMMA MovedApi ==
  ASSUME IInv, Api, NEW u \in Tasks PROVE Moved(u)
<1> PICK t \in Tasks : AddTask(t) \/ CancelTask(t) \/ PauseTask(t) \/ ResumeTask(t)
  BY DEF Api
<1>1. ASSUME NEW status, NEW due, Request(t, status, due)
      PROVE  /\ \A v \in Tasks : Kept(v)
             /\ \A v \in Tasks : St(v)' = IF v = t THEN status ELSE St(v)
  <2>1. UNCHANGED <<poll, calls>> /\ task' = [task EXCEPT ![t].status = status, ![t].due = due]
    BY <1>1 DEF Request
  <2> QED
    BY <2>1 DEF Kept, InFlight, PollHolds, St, IInv, Typed, TypeOK, TaskRecords
<1>2. CASE u # t
  <2>1. St(u)' = St(u) /\ Kept(u)
    BY <1>1, <1>2 DEF AddTask, CancelTask, PauseTask, ResumeTask
  <2> QED
    BY <2>1, LifecycleAt DEF Moved
<1>3. CASE u = t /\ AddTask(t)
  <2>1. PICK due : Request(t, "pending", due)
    BY <1>3, Zenon DEF AddTask
  <2>2. St(u) = "absent" /\ St(u)' = "pending" /\ Kept(u)
    BY <1>1, <1>3, <2>1 DEF AddTask, St
  <2> QED
    BY <2>2, LifecycleAt DEF Moved
<1>4. CASE u = t /\ CancelTask(t)
  <2>1. St(u) # "absent" /\ St(u)' = "cancelled" /\ Kept(u)
    BY <1>1, <1>4 DEF CancelTask, St
  <2> QED
    BY <2>1, LifecycleAt DEF Moved
<1>5. CASE u = t /\ PauseTask(t)
  <2>1. t \in Cron /\ St(u) = "pending" /\ St(u)' = "paused" /\ Kept(u)
    BY <1>1, <1>5 DEF PauseTask, St
  <2> QED
    BY <1>5, <2>1, LifecycleAt DEF Moved
<1>6. CASE u = t /\ ResumeTask(t)
  <2>1. t \in Cron /\ St(u) = "paused" /\ St(u)' = "pending" /\ Kept(u)
    BY <1>1, <1>6 DEF ResumeTask, St
  <2> QED
    BY <1>6, <2>1, LifecycleAt DEF Moved
<1> QED
  BY <1>2, <1>3, <1>4, <1>5, <1>6

(* The loop runs on: it launches at most one task of the snapshot. *)
LEMMA MovedPollOn ==
  ASSUME IInv, NEW q \in SUBSET Tasks, PollOn(q, task, writes),
         \A t \in q : St(t) \in {"pending", "paused", "cancelled"} /\ ~InFlight(t),
         NEW u \in Tasks,
         calls'[u] = calls[u] + (IF PollHolds(u) THEN 1 ELSE 0)
                  \/ (calls'[u] = calls[u] /\ PollHolds(u) /\ St(u) = "failed")
  PROVE  Moved(u)
<1>1. /\ calls[u] \in Nat /\ (PollHolds(u) => calls[u] = 0)
      /\ Typed /\ task \in [Tasks -> TaskRecords]
  BY DEF IInv, Typed, TypeOK, Owned, Flights, FlightOK
<1>2. CASE poll'.pc = "firing" /\ poll'.cur = u /\ u \in q /\ St(u)' = "running"
  <2>1. InFlight(u)' /\ ~InFlight(u) /\ St(u) \in {"pending", "paused", "cancelled"}
    BY <1>2 DEF InFlight, PollHolds
  <2> QED
    BY <1>2, <2>1, LifecycleAt DEF Moved
<1>3. CASE ~PollHolds(u)' /\ St(u)' = St(u)
  <2>1. InFlight(u)' <=> calls'[u] > 0
    BY <1>3 DEF InFlight
  <2>2. Kept(u) \/ (InFlight(u) /\ ~InFlight(u)' /\ St(u) = "failed")
    BY <1>1, <2>1 DEF Kept, InFlight
  <2> QED
    BY <1>3, <2>2, LifecycleAt DEF Moved
<1>4. \/ poll'.pc = "firing" /\ poll'.cur = u /\ u \in q /\ St(u)' = "running"
      \/ ~PollHolds(u)' /\ St(u)' = St(u)
  BY <1>1, PollOnEffect DEF PollHolds, St
<1> QED
  BY <1>2, <1>3, <1>4

LEMMA VerdictOutcome ==
  ASSUME NEW t \in Tasks, NEW ok PROVE Verdict(t, ok) \in Lifecycle!Outcomes(t)
BY DEF Verdict, Lifecycle!Outcomes

LEMMA MovedPollSettles ==
  ASSUME IInv, poll.pc \in {"firing", "advancing", "delivering"},
         NEW ok \in BOOLEAN, NEW due \in Nat, PollSettles(ok, due), UNCHANGED calls,
         NEW u \in Tasks
  PROVE  Moved(u)
<1> DEFINE c == poll.cur
<1>1. /\ c \in Tasks /\ poll.queue \in SUBSET Tasks /\ task \in [Tasks -> TaskRecords]
      /\ calls \in [Tasks -> Nat] /\ \A t \in Tasks : FlightOK(t)
      /\ \A t \in Tasks : PollHolds(t) <=> t = c
  BY DEF IInv, Typed, TypeOK, PollHasTask, PollStates, Owned, Flights, PollHolds
<1>2. CASE task[c].status = "failed" /\ PollOn(poll.queue, task, writes)
  <2>1. \A t \in poll.queue : St(t) \in {"pending", "paused", "cancelled"} /\ ~InFlight(t)
    BY <1>1 DEF FlightOK, St
  <2>2. calls'[u] = calls[u] + (IF PollHolds(u) THEN 1 ELSE 0)
         \/ (calls'[u] = calls[u] /\ PollHolds(u) /\ St(u) = "failed")
    BY <1>1, <1>2 DEF St
  <2> QED
    BY <1>1, <1>2, <2>1, <2>2, MovedPollOn
<1>3. CASE /\ task[c].status # "failed"
           /\ task' = [task EXCEPT ![c].status = Verdict(c, ok), ![c].due = due]
           /\ poll' = [poll EXCEPT !.pc = "saving"]
  <2>1. ~PollHolds(u)'
    BY <1>3 DEF PollHolds, IInv, Typed, TypeOK, PollStates
  <2>2. St(u)' = IF u = c THEN Verdict(c, ok) ELSE St(u)
    BY <1>1, <1>3 DEF TaskRecords, St
  <2>3. CASE u = c
    <3>1. InFlight(u) /\ ~InFlight(u)' /\ St(u) # "failed"
      BY <1>1, <1>3, <2>1, <2>3 DEF InFlight, FlightOK, St
    <3> QED
      BY <2>2, <2>3, <3>1, VerdictOutcome, LifecycleAt DEF Moved
  <2>4. CASE u # c
    <3>1. Kept(u)
      BY <1>1, <2>1, <2>4 DEF InFlight, Kept
    <3> QED
      BY <2>2, <2>4, <3>1, LifecycleAt DEF Moved
  <2> QED
    BY <2>3, <2>4
<1> QED
  BY <1>2, <1>3 DEF PollSettles

LEMMA MovedPoll ==
  ASSUME IInv, PollStep \/ PollVerdict, NEW u \in Tasks PROVE Moved(u)
<1>q. /\ poll.queue \in SUBSET Tasks /\ \A t \in Tasks : FlightOK(t)
      /\ calls \in [Tasks -> Nat]
      /\ \A t \in poll.queue : St(t) \in {"pending", "paused", "cancelled"} /\ ~InFlight(t)
  BY DEF IInv, Typed, TypeOK, PollStates, Owned, Flights, FlightOK, St
<1>1. CASE PollScan
  <2> DEFINE q == {t \in Tasks : IsDue(task[t], clock)}
  <2>1. PollOn(q, task, writes) /\ calls' = calls /\ ~PollHolds(u)
    BY <1>1 DEF PollScan, PollHolds
  <2>2. \A t \in q : St(t) \in {"pending", "paused", "cancelled"} /\ ~InFlight(t)
    BY <1>q DEF IsDue, FlightOK, St
  <2>3. calls'[u] = calls[u] + (IF PollHolds(u) THEN 1 ELSE 0)
    BY <1>q, <2>1
  <2> QED
    BY <2>1, <2>2, <2>3, MovedPollOn
<1>2. CASE PollDelivers \/ PollAdvances
  <2>1. PollHolds(u)' <=> PollHolds(u)
    BY <1>2 DEF PollDelivers, PollAdvances, PollResumes, PollHolds, IInv, Typed, TypeOK,
                PollStates
  <2>2. St(u)' = St(u) /\ calls' = calls
    BY <1>2 DEF PollDelivers, PollAdvances, St, IInv, Typed, TypeOK, TaskRecords
  <2> QED
    BY <2>1, <2>2, LifecycleAt DEF Moved, Kept, InFlight
<1>3. CASE PollHandsOff
  <2> DEFINE c == poll.cur
  <2>1. poll.pc \in {"firing", "advancing"} /\ c \in Tasks
    BY <1>3 DEF PollHandsOff, PollResumes, IInv, Typed, PollHasTask
  <2>2. CASE HasRunner
    <3>1. PollOn(poll.queue, task, writes) /\ calls' = [calls EXCEPT ![c] = @ + 1]
      BY <1>3, <2>2 DEF PollHandsOff
    <3>2. calls'[u] = calls[u] + (IF PollHolds(u) THEN 1 ELSE 0)
      BY <1>q, <2>1, <3>1 DEF PollHolds
    <3> QED
      BY <1>q, <3>1, <3>2, MovedPollOn
  <2>3. CASE ~HasRunner
    <3>1. PollSettles(FALSE, task[c].due) /\ UNCHANGED calls /\ task[c].due \in Nat
      BY <1>3, <2>1, <2>3 DEF PollHandsOff, IInv, Typed, TypeOK, TaskRecords
    <3> QED
      BY <2>1, <3>1, MovedPollSettles
  <2> QED
    BY <2>2, <2>3
<1>4. CASE PollSaved
  <2>1. PollOn(poll.queue, task, writes) /\ calls' = calls /\ ~PollHolds(u)
    BY <1>4 DEF PollSaved, PollResumes, PollHolds
  <2>2. calls'[u] = calls[u] + (IF PollHolds(u) THEN 1 ELSE 0)
    BY <1>q, <2>1
  <2> QED
    BY <1>q, <2>1, <2>2, MovedPollOn
<1>5. ASSUME NEW ok \in BOOLEAN, PollDelivered(ok) PROVE Moved(u)
  <2>1. poll.pc = "delivering" /\ poll.cur \in Tasks /\ UNCHANGED calls
    BY <1>5 DEF PollDelivered, IInv, Typed, PollHasTask
  <2>2. PICK due \in Nat : PollSettles(ok, due)
    <3>1. NextAfter(clock) \in Nat /\ task[poll.cur].due \in Nat
      BY <2>1, NextAfterNat DEF IInv, Typed, TypeOK, TaskRecords
    <3> QED
      BY <1>5, <3>1 DEF PollDelivered
  <2> QED
    BY <2>1, <2>2, MovedPollSettles
<1> QED
  BY <1>1, <1>2, <1>3, <1>4, <1>5 DEF PollStep, PollVerdict

(* Whoever lets go of a task without a verdict drops it. *)
LEMMA MovedDrop ==
  ASSUME UNCHANGED <<task, calls>>, poll'.pc = "dead", NEW u \in Tasks PROVE Moved(u)
<1>1. St(u)' = St(u) /\ (InFlight(u)' => InFlight(u))
  BY DEF St, InFlight, PollHolds
<1> QED
  BY <1>1, LifecycleAt DEF Moved, Kept

LEMMA MovedExecution ==
  ASSUME IInv, NEW t \in Tasks, Execution(t), NEW u \in Tasks PROVE Moved(u)
<1>1. ASSUME NEW ok \in BOOLEAN, ExecutionReturns(t, ok) PROVE Moved(u)
  <2>1. calls[t] = 1 /\ ~PollHolds(t) /\ UNCHANGED poll /\ calls \in [Tasks -> Nat]
    BY <1>1 DEF ExecutionReturns, IInv, Owned, Flights, FlightOK, InFlight, Typed, TypeOK
  <2>2. CASE u = t
    <3>1. InFlight(u) /\ ~InFlight(u)'
      BY <1>1, <2>1, <2>2 DEF ExecutionReturns, InFlight, PollHolds
    <3>2. IF St(u) = "failed" THEN St(u)' = "failed" ELSE St(u)' = Verdict(u, ok)
      BY <1>1, <2>2 DEF ExecutionReturns, St, IInv, Typed, TypeOK, TaskRecords
    <3> QED
      BY <3>1, <3>2, VerdictOutcome, LifecycleAt DEF Moved
  <2>3. CASE u # t
    <3>1. St(u)' = St(u)
      BY <1>1, <2>3 DEF ExecutionReturns, St, IInv, Typed, TypeOK, TaskRecords
    <3>2. Kept(u)
      BY <1>1, <2>1, <2>3 DEF ExecutionReturns, Kept, InFlight, PollHolds
    <3> QED
      BY <3>1, <3>2, LifecycleAt DEF Moved
  <2> QED
    BY <2>2, <2>3
<1>2. CASE ExecutionEnds(t)
  BY <1>2, MovedFrame DEF ExecutionEnds
<1> QED
  BY <1>1, <1>2 DEF Execution

LEMMA MovedHb ==
  ASSUME IInv, HbStep, NEW u \in Tasks PROVE Moved(u)
<1>1. (HbReaps \/ HbMisses) /\ UNCHANGED calls
  BY HbEffect DEF IInv, Typed
<1>2. Kept(u)
  BY <1>1 DEF HbReaps, HbMisses, FreshPoll, Kept, InFlight, PollHolds
<1>3. \/ St(u)' = St(u)
      \/ St(u) = "running" /\ St(u)' = "failed"
      \/ u \notin Cron /\ St(u) = "pending" /\ St(u)' = "missed"
  BY <1>1 DEF HbReaps, HbMisses, St
<1> QED
  BY <1>2, <1>3, LifecycleAt DEF Moved

(* Every step made while a process lives moves each task along its life cycle. *)
LEMMA MovedAlive ==
  ASSUME IInv, [Next]_vars, ~(Recover \/ Exit \/ Crash), NEW u \in Tasks PROVE Moved(u)
<1>1. CASE Api
  BY <1>1, MovedApi
<1>2. CASE Store \/ Tick \/ UNCHANGED vars
  BY <1>2, MovedFrame DEF Store, ThreadReads, ThreadCommits, ThreadWrites, ThreadFails,
                          Tick, vars, schedVars
<1>3. CASE PollStep \/ PollVerdict
  BY <1>3, MovedPoll
<1>4. CASE PollDies \/ Stop
  BY <1>4, MovedDrop DEF PollDies, Stop, DeadPoll
<1>5. ASSUME NEW t \in Tasks, Execution(t) PROVE Moved(u)
  BY <1>5, MovedExecution
<1>6. CASE HbStep
  BY <1>6, MovedHb
<1>7. CASE Start
  <2>1. /\ UNCHANGED <<task, calls>> /\ ~PollHolds(u)' /\ ~PollHolds(u)
    BY <1>7 DEF Start, FreshPoll, PollHolds, IInv, Owned, Phased
  <2>2. St(u)' = St(u) /\ Kept(u)
    BY <2>1 DEF St, Kept, InFlight
  <2> QED
    BY <2>2, LifecycleAt DEF Moved
<1> QED
  BY <1>1, <1>2, <1>3, <1>4, <1>5, <1>6, <1>7 DEF Next

(* COMPLETED, FAILED and MISSED are final while the process lives. *)
THEOREM VerdictsAreFinalHolds == Spec => VerdictsAreFinal
<1>1. ASSUME IInv, [Next]_vars, NEW t \in Tasks,
             task[t].status \in {"completed", "failed", "missed"}, phase' # "down"
      PROVE  task'[t].status \in {task[t].status, "cancelled"}
  <2>1. ~(Recover \/ Exit \/ Crash)
    BY <1>1 DEF Recover, Exit, Crash, Gone, IInv, Owned, Phased
  <2>2. Moved(t) /\ FlightOK(t)
    BY <1>1, <2>1, MovedAlive DEF IInv, Owned, Flights
  <2> QED
    BY <1>1, <2>2, LifecycleAt DEF Moved, FlightOK, St
<1>2. IInv /\ [Next]_vars =>
        [\A t \in Tasks :
           task[t].status \in {"completed", "failed", "missed"} /\ phase' # "down" =>
             task'[t].status \in {task[t].status, "cancelled"}]_vars
  BY <1>1
<1> QED
  BY <1>2, IInvAlways, PTL DEF Spec, VerdictsAreFinal

(* Nobody but the heartbeat declares a task missed while the service is up. *)
LEMMA NobodyElseMisses ==
  ASSUME IInv, [Next]_vars, ~HbStep, phase = "up", NEW t \in Tasks,
         task'[t].status = "missed"
  PROVE  task[t].status = "missed"
<1>t. Typed /\ task \in [Tasks -> TaskRecords] /\ poll.queue \in SUBSET Tasks
      /\ \A u \in Tasks, ok \in BOOLEAN : Verdict(u, ok) # "missed"
  BY DEF IInv, Typed, TypeOK, PollStates, Verdict
<1>p. ASSUME NEW q \in SUBSET Tasks, PollOn(q, task, writes)
      PROVE  task[t].status = "missed"
  <2>1. task' = task \/ task'[t].status \in {"running", task[t].status}
    BY <1>t, <1>p, PollOnEffect
  <2> QED
    BY <2>1
<1>s. ASSUME NEW ok \in BOOLEAN, NEW due, PollSettles(ok, due), poll.cur \in Tasks
      PROVE  task[t].status = "missed"
  BY <1>t, <1>p, <1>s DEF PollSettles, TaskRecords
<1>1. CASE Api
  <2>1. PICK u \in Tasks : AddTask(u) \/ CancelTask(u) \/ PauseTask(u) \/ ResumeTask(u)
    BY <1>1 DEF Api
  <2>2. ASSUME NEW status \in {"pending", "cancelled", "paused"}, NEW due,
               Request(u, status, due)
        PROVE  task[t].status = "missed"
    BY <1>t, <2>2 DEF Request, TaskRecords
  <2> QED
    BY <2>1, <2>2 DEF AddTask, CancelTask, PauseTask, ResumeTask
<1>2. CASE PollScan \/ PollSaved
  BY <1>t, <1>p, <1>2 DEF PollScan, PollSaved
<1>3. CASE PollHandsOff
  <2>1. poll.cur \in Tasks
    BY <1>t, <1>3 DEF PollHandsOff, PollResumes, Typed, PollHasTask
  <2> QED
    BY <1>t, <1>p, <1>s, <1>3, <2>1 DEF PollHandsOff
<1>4. ASSUME NEW ok \in BOOLEAN, PollDelivered(ok) PROVE task[t].status = "missed"
  <2>1. poll.cur \in Tasks
    BY <1>t, <1>4 DEF PollDelivered, Typed, PollHasTask
  <2> QED
    BY <1>s, <1>4, <2>1 DEF PollDelivered
<1>5. CASE PollDelivers \/ PollAdvances
  BY <1>t, <1>5 DEF PollDelivers, PollAdvances, TaskRecords
<1>6. ASSUME NEW u \in Tasks, Execution(u) PROVE task[t].status = "missed"
  <2>1. ASSUME NEW ok \in BOOLEAN, ExecutionReturns(u, ok)
        PROVE  task[t].status = "missed"
    BY <1>t, <2>1 DEF ExecutionReturns, TaskRecords
  <2>2. CASE ExecutionEnds(u)
    BY <2>2 DEF ExecutionEnds
  <2> QED
    BY <1>6, <2>1, <2>2 DEF Execution
<1>7. CASE Exit \/ Crash
  BY <1>7 DEF Exit, Crash, Gone, AbsentTask
<1>8. CASE Store \/ PollDies \/ Tick \/ Start \/ Stop \/ Recover \/ UNCHANGED vars
  <2>1. task' = task
    BY <1>8 DEF Store, ThreadReads, ThreadCommits, ThreadWrites, ThreadFails, PollDies,
       Tick, Start, Stop, Recover, vars, schedVars
  <2> QED
    BY <2>1
<1> QED
  BY <1>1, <1>2, <1>3, <1>4, <1>5, <1>6, <1>7, <1>8 DEF Next, PollStep, PollVerdict

(* A task is declared missed only while there is no poll loop to deliver it. *)
THEOREM BacklogIsNotMissedHolds == Spec => BacklogIsNotMissed
<1>1. ASSUME IInv, [Next]_vars, NEW t \in Tasks, phase = "up",
             task'[t].status = "missed", task[t].status # "missed"
      PROVE  poll.pc = "dead" /\ poll'.pc = "dead"
  <2>1. HbStep
    BY <1>1, NobodyElseMisses
  <2>2. HbMisses /\ (hb.pc = "once" \/ poll.pc = "dead")
    BY <1>1, <2>1, HbEffect DEF HbReaps, IInv, Typed
  <2> QED
    BY <1>1, <2>2 DEF HbMisses, IInv, Owned, Phased
<1>2. IInv /\ [Next]_vars =>
        [\A t \in Tasks :
           phase = "up" /\ task'[t].status = "missed" /\ task[t].status # "missed" =>
             poll.pc = "dead" /\ poll'.pc = "dead"]_vars
  BY <1>1
<1> QED
  BY <1>2, IInvAlways, PTL DEF Spec, BacklogIsNotMissed

(* The service, with its loops, executions, threads and restarts, implements the
   life cycle of TaskLifecycle. *)
THEOREM Refinement == Spec => ImplementsLifecycle
<1>1. Init => Lifecycle!Init
  <2> SUFFICES ASSUME Init PROVE Lifecycle!Init
    OBVIOUS
  <2>1. \A t \in Tasks : ~InFlight(t) /\ task[t].status = "absent"
    BY DEF Init, InFlight, PollHolds, DeadPoll, AbsentTask
  <2> QED
    BY <2>1 DEF Lifecycle!Init
<1>2. ASSUME IInv, [Next]_vars PROVE Lifecycle!Next
  <2>1. CASE Recover
    <3>1. \A t \in Tasks : task[t].status = "absent" /\ ~InFlight(t) /\ ~InFlight(t)'
      BY <1>2, <2>1 DEF Recover, InFlight, PollHolds, IInv, Owned, Phased
    <3>2. ASSUME NEW t \in Tasks PROVE Recovered(t).status \in Statuses \ {"running"}
      BY <1>2, RecoveredType DEF Recovered, TaskOfRow, TaskRecords, Statuses, IInv, Typed,
         TypeOK, Rows
    <3>3. \A t \in Tasks : task'[t].status \in Statuses \ {"running"}
      BY <2>1, <3>2 DEF Recover
    <3>4. Lifecycle!Load
      BY <3>1, <3>3 DEF Lifecycle!Load, Statuses
    <3> QED
      BY <3>4 DEF Lifecycle!Next
  <2>2. CASE Exit \/ Crash
    <3>1. \A t \in Tasks : task'[t].status = "absent" /\ ~InFlight(t)'
      BY <2>2 DEF Exit, Crash, Gone, AbsentTask, InFlight, PollHolds, DeadPoll
    <3>2. Lifecycle!Lose
      BY <3>1 DEF Lifecycle!Lose
    <3> QED
      BY <3>2 DEF Lifecycle!Next
  <2>3. CASE ~(Recover \/ Exit \/ Crash)
    <3>1. \A t \in Tasks : Moved(t)
      BY <1>2, <2>3, MovedAlive
    <3> QED
      BY <3>1 DEF Moved, Lifecycle!Move, Lifecycle!Next
  <2> QED
    BY <2>1, <2>2, <2>3
<1> QED
  BY <1>1, <1>2, IInvAlways, PTL DEF Spec, ImplementsLifecycle, Lifecycle!Spec
------------------------------------------------------------------------------
(* The history: work on a ONCE task begins once *)

(* What a ONCE task becomes when it is fired, judged or cancelled, for good. *)
Settled(status) == status \notin {"absent", "pending"}

(* No write failed, and none is preempted between reading and committing. *)
WritesInOrder == used.failures = 0 /\ \A w \in writes : w.row = {}

(* Of a ONCE task t.  Memory is never behind the table; a firing has put RUNNING into
   memory, and into the table once its write is over; and a task on which work has
   begun is settled in the table and in no snapshot of the loop. *)
OnceAt(t) ==
  /\ phase # "down" /\ Settled(rows[t].status) => Settled(task[t].status)
  /\ poll.pc = "firing" /\ poll.cur = t =>
       /\ Settled(task[t].status) /\ ~log[t].begun
       /\ Writing("poll", t) \/ Settled(rows[t].status)
  /\ log[t].begun => Settled(rows[t].status) /\ t \notin poll.queue

OnceInv == (phase = "down" => writes = {}) /\ \A t \in Tasks \ Cron : OnceAt(t)

(* While the process lives, a settled task stays settled. *)
LEMMA SettledStays ==
  ASSUME IInv, [Next]_vars, phase # "down", phase' # "down",
         NEW t \in Tasks \ Cron, Settled(task[t].status)
  PROVE  Settled(task'[t].status)
<1>1. ~(Recover \/ Exit \/ Crash)
  BY DEF Recover, Exit, Crash, Gone
<1>2. Moved(t) /\ FlightOK(t)
  BY <1>1, MovedAlive DEF IInv, Owned, Flights
<1>3. St(t) = task[t].status /\ St(t)' = task'[t].status
  BY DEF St
<1>4. Lifecycle!Outcomes(t) = {"completed", "failed"}
  BY DEF Lifecycle!Outcomes
<1> QED
  BY <1>2, <1>3, <1>4, LifecycleAt DEF Moved, Settled

(* A process that is down writes nothing. *)
LEMMA DownIsQuiet ==
  ASSUME IInv, phase = "down" => writes = {}, [Next]_vars
  PROVE  /\ phase' = "down" => writes' = {}
         /\ phase = "down" => Recover \/ (rows' = rows /\ phase' = "down")
<1>1. CASE phase = "down"
  <2>1. poll.pc = "dead" /\ hb.pc = "off" /\ \A t \in Tasks : calls[t] = 0
    BY <1>1 DEF IInv, Owned, Phased
  <2>2. ~Api /\ ~Store
    BY <1>1 DEF Api, AddTask, CancelTask, PauseTask, ResumeTask, Request, Store
  <2>3. ~PollStep /\ ~PollVerdict /\ ~PollDies
    BY <1>1, <2>1 DEF PollStep, PollVerdict, PollDies, PollScan, PollDelivers, PollAdvances,
                      PollHandsOff, PollSaved, PollDelivered, PollResumes
  <2>4. ~HbStep
    BY <2>1 DEF HbStep, HbWakes, HbResumesOnce, HbResumesStale, HbResumesCron
  <2>5. ASSUME NEW t \in Tasks, Execution(t) PROVE UNCHANGED <<phase, writes, rows>>
    BY <2>1, <2>5 DEF Execution, ExecutionReturns, ExecutionEnds, IInv, Typed, TypeOK
  <2>6. ~Start /\ ~Stop /\ ~Exit /\ ~Crash
    BY <1>1 DEF Start, Stop, Exit, Crash
  <2>7. CASE Recover
    <3>1. phase' # "down"
      BY <2>7 DEF Recover
    <3> QED
      BY <2>7, <3>1
  <2>8. CASE Tick \/ UNCHANGED vars
    BY <1>1, <2>8 DEF Tick, vars, schedVars
  <2> QED
    BY <1>1, <2>2, <2>3, <2>4, <2>5, <2>6, <2>7, <2>8 DEF Next
<1>2. CASE phase # "down"
  <2>1. CASE Exit \/ Crash
    BY <1>2, <2>1 DEF Exit, Crash
  <2>2. CASE phase' # "down"
    BY <1>2, <2>2
  <2>3. CASE UNCHANGED phase
    BY <1>2, <2>3
  <2>4. CASE HbStep
    BY <2>3, <2>4, HbEffect DEF IInv, Typed
  <2>5. ASSUME NEW t \in Tasks, Execution(t) PROVE UNCHANGED phase
    BY <2>5 DEF Execution, ExecutionReturns, ExecutionEnds
  <2>6. CASE Api
    BY <2>3, <2>6 DEF Api, AddTask, CancelTask, PauseTask, ResumeTask, Request
  <2>7. CASE Store
    BY <2>3, <2>7 DEF Store, ThreadReads, ThreadCommits, ThreadWrites, ThreadFails
  <2>8. CASE PollStep \/ PollVerdict \/ PollDies
    BY <2>3, <2>8 DEF PollStep, PollVerdict, PollDies, PollScan, PollDelivers, PollAdvances,
                      PollHandsOff, PollSaved, PollDelivered
  <2>9. CASE Recover \/ Start \/ Stop
    BY <1>2, <2>9 DEF Recover, Start, Stop
  <2>10. CASE Tick \/ UNCHANGED vars
    BY <2>3, <2>10 DEF Tick, vars, schedVars
  <2> QED
    BY <2>1, <2>3, <2>4, <2>5, <2>6, <2>7, <2>8, <2>9, <2>10 DEF Next
<1> QED
  BY <1>1, <1>2

(* Only a thread touches the table while the process lives, and writes what memory
   holds at that moment. *)
LEMMA RowWritten ==
  ASSUME IInv, [Next]_vars, WritesInOrder, WritesInOrder', ~Recover, NEW t \in Tasks
  PROVE  \/ rows' = rows
         \/ /\ writes # {} /\ task' = task /\ phase' = phase
            /\ rows'[t].status \in {rows[t].status, task[t].status}
<1>1. CASE Store
  <2>1. PICK w \in writes : ThreadReads(w) \/ ThreadCommits(w) \/ ThreadWrites(w) \/ ThreadFails(w)
    BY <1>1 DEF Store
  <2>2. CASE ThreadWrites(w)
    <3>1. rows' = [rows EXCEPT ![w.task] = RowOf(task[w.task])] /\ UNCHANGED <<task, phase>>
      BY <2>2 DEF ThreadWrites
    <3>2. rows'[t] \in {rows[t], RowOf(task[t])}
      BY <3>1 DEF IInv, Typed, TypeOK
    <3> QED
      BY <2>1, <3>1, <3>2 DEF RowOf
  <2>3. CASE ThreadReads(w) \/ ThreadFails(w)
    BY <2>3 DEF ThreadReads, ThreadFails
  <2>4. ~ThreadCommits(w)
    BY DEF ThreadCommits, WritesInOrder
  <2> QED
    BY <2>1, <2>2, <2>3, <2>4
<1>2. CASE Api
  BY <1>2 DEF Api, AddTask, CancelTask, PauseTask, ResumeTask, Request
<1>3. CASE PollStep \/ PollVerdict \/ PollDies
  BY <1>3 DEF PollStep, PollVerdict, PollDies, PollScan, PollDelivers, PollAdvances,
              PollHandsOff, PollSaved, PollDelivered
<1>4. ASSUME NEW u \in Tasks, Execution(u) PROVE rows' = rows
  BY <1>4 DEF Execution, ExecutionReturns, ExecutionEnds
<1>5. CASE HbStep
  BY <1>5 DEF HbStep, HbWakes, HbResumesOnce, HbResumesStale, HbResumesCron
<1>6. CASE Start \/ Stop \/ Exit \/ Crash \/ Tick \/ UNCHANGED vars
  BY <1>6 DEF Start, Stop, Exit, Crash, Gone, Tick, vars, schedVars
<1> QED
  BY <1>1, <1>2, <1>3, <1>4, <1>5, <1>6 DEF Next

(* Nor is memory behind the table after a step, and what the table has settled stays. *)
LEMMA RowFollows ==
  ASSUME IInv, OnceInv, [Next]_vars, WritesInOrder, WritesInOrder', NEW t \in Tasks \ Cron
  PROVE  /\ Settled(rows[t].status) => Settled(rows'[t].status)
         /\ phase' # "down" /\ Settled(rows'[t].status) => Settled(task'[t].status)
<1>1. CASE Recover
  <2>1. /\ rows'[t] \in {rows[t], RowOf(Recovered(t))} /\ task'[t] = Recovered(t)
    BY <1>1 DEF Recover
  <2>2. Recovered(t).status \in {rows[t].status, "failed", "missed"}
    BY DEF Recovered, TaskOfRow
  <2>3. Settled(rows[t].status) => Settled(Recovered(t).status)
    BY <2>2 DEF Settled
  <2> QED
    BY <2>1, <2>3 DEF RowOf
<1>2. CASE ~Recover
  <2>1. \/ rows' = rows
        \/ /\ writes # {} /\ task' = task /\ phase' = phase
           /\ rows'[t].status \in {rows[t].status, task[t].status}
    BY <1>2, RowWritten
  <2>2. OnceAt(t) /\ (phase = "down" => writes = {})
    BY DEF OnceInv
  <2>3. phase = "down" => rows' = rows /\ phase' = "down"
    BY <1>2, <2>2, DownIsQuiet
  <2>4. phase # "down" /\ phase' # "down" /\ Settled(task[t].status) => Settled(task'[t].status)
    BY SettledStays
  <2>5. phase # "down" /\ Settled(rows[t].status) => Settled(task[t].status)
    BY <2>2 DEF OnceAt
  <2>6. CASE rows' = rows
    BY <2>3, <2>4, <2>5, <2>6
  <2>7. CASE rows' # rows
    BY <2>1, <2>2, <2>5, <2>7
  <2> QED
    BY <2>6, <2>7
<1> QED
  BY <1>1, <1>2

(* The task that the loop takes up next, and the snapshot it goes on with, are from
   the snapshot it had or from the tasks that are due. *)
PollGoesOn(q) ==
  /\ poll'.queue \subseteq q
  /\ poll'.pc = "firing" =>
       /\ poll'.cur \in q /\ task'[poll'.cur].status = "running"
       /\ NewWrite("poll", poll'.cur) \in writes'

LEMMA PollOnGoesOn ==
  ASSUME Typed, NEW q \in SUBSET Tasks, NEW ws, PollOn(q, task, ws)
  PROVE  PollGoesOn(q)
<1>1. ASSUME NEW w, poll' = FreshPoll(w) PROVE PollGoesOn(q)
  BY <1>1 DEF FreshPoll, PollGoesOn
<1>2. ASSUME NEW s \in q,
             task' = [task EXCEPT ![s].status = "running", ![s].start = clock],
             writes' = ws \cup {NewWrite("poll", s)},
             poll' = [pc |-> "firing", queue |-> q \ {s}, cur |-> s, wake |-> 0]
      PROVE  PollGoesOn(q)
  BY <1>2 DEF PollGoesOn, Typed, TypeOK, TaskRecords
<1>3. \/ \E w : poll' = FreshPoll(w)
      \/ \E s \in q :
           /\ task' = [task EXCEPT ![s].status = "running", ![s].start = clock]
           /\ writes' = ws \cup {NewWrite("poll", s)}
           /\ poll' = [pc |-> "firing", queue |-> q \ {s}, cur |-> s, wake |-> 0]
  BY Zenon DEF PollOn
<1> QED
  BY <1>1, <1>2, <1>3, Zenon

LEMMA PollSettlesGoesOn ==
  ASSUME Typed, NEW ok, NEW due, PollSettles(ok, due)
  PROVE  PollGoesOn(poll.queue)
<1>1. poll.queue \in SUBSET Tasks /\ poll \in PollStates
  BY DEF Typed, TypeOK, PollStates
<1>2. CASE PollOn(poll.queue, task, writes)
  BY <1>1, <1>2, PollOnGoesOn
<1>3. CASE poll' = [poll EXCEPT !.pc = "saving"]
  BY <1>1, <1>3 DEF PollGoesOn, PollStates
<1> QED
  BY <1>2, <1>3 DEF PollSettles

LEMMA PollEffect ==
  ASSUME IInv, [Next]_vars
  PROVE  \/ poll' = poll
         \/ poll'.pc = "dead" /\ poll'.queue = {}
         \/ poll.pc # "firing" /\ phase = "up"
              /\ \E q \in SUBSET {t \in Tasks : task[t].status = "pending"} : PollGoesOn(q)
         \/ (poll.pc = "firing" => PollResumes("firing")) /\ PollGoesOn(poll.queue)
<1>0. Typed /\ poll \in PollStates /\ poll.queue \in SUBSET Tasks
  BY DEF IInv, Typed, TypeOK, PollStates
<1>1. CASE PollScan
  <2> DEFINE q == {t \in Tasks : IsDue(task[t], clock)}
  <2>1. PollOn(q, task, writes) /\ poll.pc = "sleeping" /\ phase = "up"
    BY <1>1 DEF PollScan
  <2>2. q \in SUBSET {t \in Tasks : task[t].status = "pending"} /\ q \in SUBSET Tasks
    BY DEF IsDue
  <2> HIDE DEF q
  <2>3. PollGoesOn(q)
    BY <1>0, <2>1, <2>2, PollOnGoesOn
  <2> QED
    BY <2>1, <2>2, <2>3
<1>2. CASE PollDelivers \/ PollAdvances
  <2>1. PollResumes("firing") /\ \E pc \in {"delivering", "advancing"} : poll' = [poll EXCEPT !.pc = pc]
    BY <1>2 DEF PollDelivers, PollAdvances
  <2>2. PollGoesOn(poll.queue)
    BY <1>0, <2>1 DEF PollGoesOn, PollStates
  <2> QED
    BY <2>1, <2>2
<1>3. CASE PollHandsOff
  <2>1. PollResumes("firing") \/ poll.pc = "advancing"
    BY <1>3 DEF PollHandsOff, PollResumes
  <2>2. PollGoesOn(poll.queue)
    BY <1>0, <1>3, PollOnGoesOn, PollSettlesGoesOn DEF PollHandsOff
  <2> QED
    BY <2>1, <2>2
<1>4. CASE PollSaved
  BY <1>0, <1>4, PollOnGoesOn DEF PollSaved, PollResumes
<1>5. ASSUME NEW ok \in BOOLEAN, PollDelivered(ok)
      PROVE  poll.pc # "firing" /\ PollGoesOn(poll.queue)
  BY <1>0, <1>5, PollSettlesGoesOn DEF PollDelivered
<1>6. CASE PollDies \/ Stop \/ Exit \/ Crash
  BY <1>6 DEF PollDies, Stop, Exit, Crash, Gone, DeadPoll
<1>7. CASE Start \/ HbStep
  <2>1. poll' = poll \/ (poll.pc = "dead" /\ \E w : poll' = FreshPoll(w))
    <3>1. CASE Start
      BY <3>1 DEF Start, IInv, Owned, Phased
    <3>2. CASE HbStep
      <4>1. HbReaps \/ HbMisses
        BY <3>2, HbEffect DEF IInv, Typed
      <4> QED
        BY <4>1 DEF HbReaps, HbMisses
    <3> QED
      BY <1>7, <3>1, <3>2
  <2>2. CASE poll.pc = "dead" /\ \E w : poll' = FreshPoll(w)
    BY <2>2 DEF FreshPoll, PollGoesOn
  <2> QED
    BY <2>1, <2>2
<1>8. CASE Api
  BY <1>8 DEF Api, AddTask, CancelTask, PauseTask, ResumeTask, Request
<1>9. CASE Store
  BY <1>9 DEF Store, ThreadReads, ThreadCommits, ThreadWrites, ThreadFails
<1>10. ASSUME NEW t \in Tasks, Execution(t) PROVE poll' = poll
  BY <1>10 DEF Execution, ExecutionReturns, ExecutionEnds
<1>11. CASE Recover \/ Tick \/ UNCHANGED vars
  BY <1>11 DEF Recover, Tick, vars, schedVars
<1> QED
  BY <1>1, <1>2, <1>3, <1>4, <1>5, <1>6, <1>7, <1>8, <1>9, <1>10, <1>11
  DEF Next, PollStep, PollVerdict
(* Work begins on a task that is being fired, and only once the write that says
   RUNNING is over. *)
LEMMA BeginsSaved ==
  ASSUME IInv, [Next]_vars, NEW t \in Tasks, Begins(t)
  PROVE  poll.cur = t /\ PollResumes("firing") /\ PollGoesOn(poll.queue)
<1>1. /\ poll.pc = "firing" /\ poll.cur = t /\ poll'.pc # "dead"
      /\ ~(poll'.pc = "firing" /\ poll'.cur = t)
  BY DEF Begins
<1>2. poll' # poll
  BY <1>1
<1> QED
  BY <1>1, <1>2, PollEffect

(* A write under way is over only by a row in the table, unless the loop is gone. *)
LEMMA WriteStands ==
  ASSUME IInv, [Next]_vars, WritesInOrder, WritesInOrder', poll.pc = "firing", poll' = poll,
         NEW t \in Tasks, Writing("poll", t)
  PROVE  Writing("poll", t)' \/ rows'[t].status = task[t].status
<1>1. PICK w \in writes : w.by = "poll" /\ w.task = t
  BY DEF Writing
<1>2. CASE w \in writes'
  BY <1>1, <1>2 DEF Writing
<1>3. CASE Store
  <2>1. PICK v \in writes : ThreadReads(v) \/ ThreadCommits(v) \/ ThreadWrites(v) \/ ThreadFails(v)
    BY <1>3 DEF Store
  <2>2. ~ThreadCommits(v)
    BY DEF ThreadCommits, WritesInOrder
  <2>3. ~ThreadFails(v)
    BY DEF ThreadFails, WritesInOrder, IInv, Typed, TypeOK
  <2>4. CASE ThreadReads(v)
    <3>1. writes' = (writes \ {v}) \cup {[v EXCEPT !.row = {RowOf(task[v.task])}]}
      BY <2>4 DEF ThreadReads
    <3>2. v \in Writes
      BY <2>1 DEF IInv, Typed, TypeOK
    <3>3. [v EXCEPT !.row = {RowOf(task[v.task])}].row # {}
      BY <3>2 DEF Writes
    <3> QED
      BY <3>1, <3>3 DEF WritesInOrder
  <2>5. CASE ThreadWrites(v) /\ v = w
    BY <1>1, <2>5 DEF ThreadWrites, RowOf, IInv, Typed, TypeOK
  <2>6. CASE ThreadWrites(v) /\ v # w
    BY <1>2, <2>6 DEF ThreadWrites
  <2> QED
    BY <2>1, <2>2, <2>3, <2>4, <2>5, <2>6
<1>4. CASE Api
  BY <1>2, <1>4 DEF Api, AddTask, CancelTask, PauseTask, ResumeTask, Request
<1>5. CASE PollDies \/ Stop \/ Exit \/ Crash
  BY <1>5 DEF PollDies, Stop, Exit, Crash, Gone, DeadPoll
<1>6. ASSUME NEW u \in Tasks, Execution(u) PROVE w \in writes'
  BY <1>1, <1>6 DEF Execution, ExecutionReturns, ExecutionEnds
<1>7. CASE HbStep
  <2>1. writes \subseteq writes'
    BY <1>7 DEF HbStep, HbWakes, HbResumesOnce, HbResumesStale, HbResumesCron, CheckOnce, CheckPoll,
                CheckStale, CheckCron
  <2> QED
    BY <1>1, <1>2, <2>1
<1>8. CASE PollStep \/ PollVerdict
  <2>1. CASE PollDelivers \/ PollAdvances
    BY <2>1 DEF PollDelivers, PollAdvances, IInv, Typed, TypeOK, PollStates
  <2>2. CASE PollHandsOff
    <3>1. PollResumes("firing") \/ PollResumes("advancing")
      BY <2>2 DEF PollHandsOff
    <3>2. poll.cur = t => FALSE
      BY <3>1 DEF PollResumes
    <3>3. PollGoesOn(poll.queue)
      BY <2>2, PollOnGoesOn, PollSettlesGoesOn DEF PollHandsOff, IInv, Typed, TypeOK, PollStates
    <3>4. poll.cur \notin poll.queue
      BY DEF IInv, Typed, PollHasTask, Owned, Flights, FlightOK, InFlight, PollHolds
    <3> QED
      BY <3>3, <3>4 DEF PollGoesOn
  <2> QED
    BY <1>8, <2>1, <2>2 DEF PollStep, PollVerdict, PollScan, PollSaved, PollDelivered, PollResumes
<1>9. CASE Recover \/ Start \/ Tick \/ UNCHANGED vars
  BY <1>2, <1>1, <1>9 DEF Recover, Start, Tick, vars, schedVars
<1> QED
  BY <1>2, <1>3, <1>4, <1>5, <1>6, <1>7, <1>8, <1>9 DEF Next

LEMMA OnceStep ==
  ASSUME IInv, IInv', OnceInv, HNext \/ UNCHANGED hvars, WritesInOrder, WritesInOrder'
  PROVE  OnceInv'
<1>1. [Next]_vars
  BY DEF HNext, hvars
<1>2. (phase = "down" => writes = {})' /\ (phase = "down" => writes = {})
  BY <1>1, DownIsQuiet DEF OnceInv
<1> SUFFICES ASSUME NEW t \in Tasks \ Cron PROVE OnceAt(t)'
  BY <1>2 DEF OnceInv
<1>3. /\ Settled(rows[t].status) => Settled(rows'[t].status)
      /\ phase' # "down" /\ Settled(rows'[t].status) => Settled(task'[t].status)
  BY <1>1, RowFollows
<1>4. OnceAt(t) /\ FlightOK(t) /\ Phased /\ Phased'
  BY DEF OnceInv, IInv, Owned, Flights
<1>5. log'[t].begun => log[t].begun \/ Begins(t)
  <2>1. CASE UNCHANGED hvars
    BY <2>1 DEF hvars
  <2>2. CASE HNext
    <3> DEFINE step == [fired  |-> IF Fires(t) THEN task[t].due ELSE log[t].fired,
                        missed |-> IF Misses(t) THEN task[t].due ELSE log[t].missed,
                        begun  |-> log[t].begun \/ Begins(t)]
    <3>1. log'[t] = LogStep(t)
      BY <2>2, Zenon DEF HNext
    <3>2. log'[t] = NoLog \/ log'[t] = step
      BY <3>1, Zenon DEF LogStep
    <3>3. ~NoLog.begun
      BY DEF NoLog
    <3>4. step.begun = (log[t].begun \/ Begins(t))
      BY Zenon
    <3> HIDE DEF step
    <3> QED
      BY <3>2, <3>3, <3>4, Zenon
  <2> QED
    BY <2>1, <2>2
<1>6. Begins(t) => /\ poll.pc = "firing" /\ poll.cur = t /\ ~Writing("poll", t)
                   /\ PollGoesOn(poll.queue) /\ t \notin poll.queue
  <2> SUFFICES ASSUME Begins(t)
               PROVE  /\ poll.pc = "firing" /\ poll.cur = t /\ ~Writing("poll", t)
                      /\ PollGoesOn(poll.queue) /\ t \notin poll.queue
    OBVIOUS
  <2>1. poll.cur = t /\ PollResumes("firing") /\ PollGoesOn(poll.queue)
    BY <1>1, BeginsSaved
  <2>2. InFlight(t)
    BY <2>1 DEF PollResumes, InFlight, PollHolds
  <2> QED
    BY <1>4, <2>1, <2>2 DEF PollResumes, FlightOK
<1>7. Begins(t) => Settled(rows[t].status)
  BY <1>4, <1>6 DEF OnceAt
<1>8. log'[t].begun => Settled(rows[t].status)
  BY <1>4, <1>5, <1>7 DEF OnceAt
<1>9. task[t].status = "pending" /\ phase = "up" => ~Settled(rows[t].status)
  BY <1>4 DEF OnceAt, Settled
<1>10. poll'.pc = "firing" => phase' = "up"
  BY <1>4 DEF Phased
<1>11. CASE poll' = poll
  <2>1. log'[t].begun => t \notin poll'.queue
    BY <1>4, <1>5, <1>6, <1>11 DEF OnceAt
  <2>2. ASSUME poll'.pc = "firing", poll'.cur = t
        PROVE  /\ Settled(task'[t].status) /\ ~log'[t].begun
               /\ Writing("poll", t)' \/ Settled(rows'[t].status)
    <3>1. ~Begins(t)
      BY <2>2 DEF Begins
    <3>2. poll.pc = "firing" /\ poll.cur = t /\ phase = "up" /\ phase' = "up"
      BY <1>4, <1>10, <1>11, <2>2 DEF Phased
    <3>3. /\ Settled(task[t].status) /\ ~log[t].begun
          /\ Writing("poll", t) \/ Settled(rows[t].status)
      BY <1>4, <3>2 DEF OnceAt
    <3>4. Settled(task'[t].status)
      BY <1>1, <3>2, <3>3, SettledStays
    <3>5. Writing("poll", t)' \/ Settled(rows'[t].status)
      BY <1>1, <1>3, <1>11, <3>2, <3>3, WriteStands
    <3> QED
      BY <1>5, <3>1, <3>3, <3>4, <3>5
  <2> QED
    BY <1>3, <1>8, <2>1, <2>2 DEF OnceAt
<1>12. CASE poll'.pc = "dead" /\ poll'.queue = {}
  BY <1>3, <1>8, <1>12 DEF OnceAt
<1>13. ASSUME NEW q, PollGoesOn(q), log'[t].begun => t \notin q PROVE OnceAt(t)'
  <2>1. log'[t].begun => t \notin poll'.queue
    BY <1>13 DEF PollGoesOn
  <2>2. ASSUME poll'.pc = "firing", poll'.cur = t
        PROVE  Settled(task'[t].status) /\ ~log'[t].begun /\ Writing("poll", t)'
    <3>1. t \in q /\ task'[t].status = "running" /\ NewWrite("poll", t) \in writes'
      BY <1>13, <2>2 DEF PollGoesOn
    <3> QED
      BY <1>13, <3>1 DEF Settled, Writing, NewWrite
  <2> QED
    BY <1>3, <1>8, <2>1, <2>2 DEF OnceAt
<1>14. ASSUME poll.pc # "firing", phase = "up",
              NEW q \in SUBSET {u \in Tasks : task[u].status = "pending"}, PollGoesOn(q)
       PROVE  OnceAt(t)'
  <2>1. log'[t].begun => t \notin q
    BY <1>8, <1>9, <1>14
  <2> QED
    BY <1>13, <1>14, <2>1
<1>15. CASE PollGoesOn(poll.queue)
  <2>1. log'[t].begun => t \notin poll.queue
    BY <1>4, <1>5, <1>6 DEF OnceAt
  <2> QED
    BY <1>13, <1>15, <2>1
<1> QED
  BY <1>1, <1>11, <1>12, <1>14, <1>15, PollEffect

(* Work on a ONCE task begins at most once, through crashes and restarts of the
   process and deaths of the loop, as long as no write fails and the writes of a
   task commit in the order they were made (_fire_task, recover). *)
THEOREM OnceBeginsOnceHolds == HSpec /\ []WritesInOrder => OnceBeginsOnce
<1>1. HInit => Init /\ OnceInv
  <2> SUFFICES ASSUME HInit PROVE OnceInv
    BY DEF HInit
  <2> QED
    BY DEF HInit, Init, OnceInv, OnceAt, NoLog, DeadPoll
<1>2. [HNext]_hvars => [Next]_vars
  BY DEF HNext, hvars
<1>3. HSpec => Spec
  BY <1>1, <1>2, PTL DEF HSpec, Spec
<1>4. IInv /\ IInv' /\ OnceInv /\ WritesInOrder /\ WritesInOrder' /\ [HNext]_hvars => OnceInv'
  BY OnceStep
<1>5. OnceInv => [\A t \in Tasks \ Cron : Begins(t) => ~log[t].begun]_hvars
  BY DEF OnceInv, OnceAt, Begins
<1> QED
  BY <1>1, <1>3, <1>4, <1>5, IInvAlways, PTL DEF HSpec, OnceBeginsOnce
=============================================================================
