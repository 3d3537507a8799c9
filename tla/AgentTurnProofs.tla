---------------------------- MODULE AgentTurnProofs ----------------------------
(* Proofs about Permissions, Compression and AgentTurn, for every mode and every call and for any
   number of turns, calls and rounds: the rules of the gate, what they mean for the calls of a
   turn, what the repair and the strategies make of a log, and what the model is shown.

   The rules are a finite table; the proofs go through it tool by tool.  That a turn runs nothing
   without consent rests on where it is: nothing has been executed outside "running", the gate
   asks only somebody who is there, and a turn's mode does not change while it runs.

   The log is handled through one property, Good: in the order of its turns and of the model's
   rounds, answers behind the call they are for and none twice, the head first.  Calls may lack
   answers, as after a turn that was stopped.  Each operator of Compression keeps it, and the
   first and the last message; the repair gives every call its answers.  What an operator that is
   built with FlattenSeq yields is shown from the least position where it would go wrong. *)
EXTENDS AgentTurn, FiniteSetTheorems, WellFoundedInduction, NaturalsInduction, SequenceTheorems,
        TLAPS

------------------------------------------------------------------------------
(* The rules of the gate *)

LEMMA CallIs ==
  ASSUME NEW call \in Calls
  PROVE  \/ call.tool \in {"reads", "known", "unknown"} /\ call.arg = "any"
         \/ call.tool = "run_shell" /\ call.arg \in ShellClasses
         \/ call.tool = "write_file" /\ call.arg \in PathKinds
         \/ call.tool = "schedule_task" /\ call.arg \in {"prompt", "notify"}
BY DEF Calls

LEMMA SeverityIs == Severity["deny"] = 0 /\ Severity["confirm"] = 1 /\ Severity["allow"] = 2
BY DEF Severity, Verdicts

LEMMA LadderIs ==
  /\ Ladder["read_only"] = 0 /\ Ladder["workspace_write"] = 1 /\ Ladder["global_write"] = 2
  /\ Ladder["full_access"] = 3 /\ Ladder["auto"] = 4
BY DEF Ladder, Modes

\* The verdicts, tool by tool.
LEMMA ReadOnlyVerdict ==
  ASSUME NEW call \in Calls, NEW ws \in BOOLEAN
  PROVE  Evaluate("read_only", call, ws) = IF call.tool = "reads" THEN "allow" ELSE "deny"
BY DEF Evaluate

LEMMA UnknownVerdict ==
  ASSUME NEW mode \in Modes \ {"read_only"}, NEW call \in Calls, call.tool = "unknown",
         NEW ws \in BOOLEAN
  PROVE  Evaluate(mode, call, ws) = IF mode = "workspace_write" THEN "deny" ELSE "confirm"
BY DEF Evaluate

LEMMA KnownVerdict ==
  ASSUME NEW mode \in Modes \ {"read_only"}, NEW call \in Calls, call.tool \in {"reads", "known"},
         NEW ws \in BOOLEAN
  PROVE  Evaluate(mode, call, ws) = "allow"
BY DEF Evaluate, EvaluateKnown

LEMMA ScheduleVerdict ==
  ASSUME NEW mode \in Modes \ {"read_only"}, NEW call \in Calls, call.tool = "schedule_task",
         NEW ws \in BOOLEAN
  PROVE  Evaluate(mode, call, ws) = IF call.arg = "prompt" /\ mode # "auto" THEN "confirm" ELSE "allow"
BY DEF Evaluate, EvaluateKnown, Asks

LEMMA ShellVerdict ==
  ASSUME NEW mode \in Modes \ {"read_only"}, NEW call \in Calls, call.tool = "run_shell",
         NEW ws \in BOOLEAN
  PROVE  Evaluate(mode, call, ws) =
           IF (mode = "workspace_write" /\ ~ws) \/ call.arg \in {"empty", "dangerous"} THEN "deny"
           ELSE IF call.arg = "plain" \/ mode = "auto" THEN "allow" ELSE "confirm"
<1>1. call.arg \in ShellClasses
  BY CallIs
<1>2. Evaluate(mode, call, ws) = EvaluateKnown(mode, call, ws)
  BY DEF Evaluate
<1>3. CASE mode = "workspace_write" /\ ~ws
  BY <1>2, <1>3 DEF EvaluateKnown
<1>4. CASE mode # "workspace_write" \/ ws
  <2>1. Evaluate(mode, call, ws) = ClassifyShell(call.arg, mode)
    BY <1>2, <1>4 DEF EvaluateKnown
  <2> QED BY <1>1, <1>4, <2>1 DEF ClassifyShell, Asks, ShellClasses
<1> QED BY <1>3, <1>4

LEMMA WriteVerdict ==
  ASSUME NEW mode \in Modes \ {"read_only"}, NEW call \in Calls, call.tool = "write_file",
         NEW ws \in BOOLEAN
  PROVE  Evaluate(mode, call, ws) =
           IF mode = "workspace_write" /\ (~ws \/ call.arg # "in_workspace") THEN "deny"
           ELSE IF mode = "global_write" /\ call.arg = "protected" THEN "confirm" ELSE "allow"
<1>1. Evaluate(mode, call, ws) = EvaluateKnown(mode, call, ws)
  BY DEF Evaluate
<1>2. CASE mode = "workspace_write" /\ ~ws
  BY <1>1, <1>2 DEF EvaluateKnown
<1>3. CASE mode # "workspace_write" \/ ws
  <2>1. Evaluate(mode, call, ws) = EvaluateWrite(call.arg, mode)
    BY <1>1, <1>3 DEF EvaluateKnown
  <2> QED BY <1>3, <2>1 DEF EvaluateWrite
<1> QED BY <1>2, <1>3

LEMMA VerdictIs ==
  ASSUME NEW mode \in Modes, NEW call \in Calls, NEW ws \in BOOLEAN
  PROVE  Evaluate(mode, call, ws) \in Verdicts
<1>1. CASE mode = "read_only"
  BY <1>1, ReadOnlyVerdict DEF Verdicts
<1>2. CASE mode # "read_only"
  BY <1>2, CallIs, UnknownVerdict, KnownVerdict, ScheduleVerdict, ShellVerdict, WriteVerdict DEF Verdicts
<1> QED BY <1>1, <1>2

\* LADDER of permissions.py: a step up never takes a permission away, whatever the call.
THEOREM LadderIsMonotoneHolds == LadderIsMonotone
<1> SUFFICES ASSUME NEW low \in Modes, NEW high \in Modes, NEW call \in Calls, NEW ws \in BOOLEAN,
                    Ladder[low] <= Ladder[high]
             PROVE  Severity[Evaluate(low, call, ws)] <= Severity[Evaluate(high, call, ws)]
  BY DEF LadderIsMonotone
<1>1. /\ Evaluate(low, call, ws) \in Verdicts /\ Evaluate(high, call, ws) \in Verdicts
      /\ high = "read_only" => low = "read_only"
      /\ high = "workspace_write" => low \in {"read_only", "workspace_write"}
      /\ high = "global_write" => low \in {"read_only", "workspace_write", "global_write"}
      /\ low = "auto" => high = "auto"
  BY VerdictIs, LadderIs DEF Modes
<1>2. CASE low = "read_only"
  <2>1. CASE call.tool # "reads"
    BY <1>1, <1>2, <2>1, ReadOnlyVerdict, SeverityIs DEF Verdicts
  <2>2. CASE call.tool = "reads"
    <3>1. Evaluate(low, call, ws) = "allow" /\ Evaluate(high, call, ws) = "allow"
      BY <1>2, <2>2, ReadOnlyVerdict, KnownVerdict
    <3> QED BY <3>1, SeverityIs
  <2> QED BY <2>1, <2>2
<1>3. CASE low # "read_only"
  <2>1. high # "read_only"
    BY <1>1, <1>3
  <2>2. CASE call.tool \in {"reads", "known"}
    BY <1>3, <2>1, <2>2, KnownVerdict, SeverityIs
  <2>3. CASE call.tool = "unknown"
    BY <1>1, <1>3, <2>1, <2>3, UnknownVerdict, SeverityIs
  <2>4. CASE call.tool = "schedule_task"
    BY <1>1, <1>3, <2>1, <2>4, ScheduleVerdict, SeverityIs
  <2>5. CASE call.tool = "run_shell"
    BY <1>1, <1>3, <2>1, <2>5, ShellVerdict, SeverityIs
  <2>6. CASE call.tool = "write_file"
    BY <1>1, <1>3, <2>1, <2>6, WriteVerdict, SeverityIs
  <2> QED BY <2>2, <2>3, <2>4, <2>5, <2>6, CallIs
<1> QED BY <1>2, <1>3

\* effective_permission_mode: the ceiling of unattended work grants nothing that the mode does not.
THEOREM CeilingOnlyLowersHolds == CeilingOnlyLowers
<1> SUFFICES ASSUME NEW mode \in Modes, NEW call \in Calls,
                    NEW unattended \in BOOLEAN, NEW ws \in BOOLEAN
             PROVE  Severity[Evaluate(EffectiveMode(mode, unattended, ws), call, ws)]
                      <= Severity[Evaluate(mode, call, ws)]
  BY DEF CeilingOnlyLowers
<1>1. /\ EffectiveMode(mode, unattended, ws) \in Modes
      /\ Ladder[EffectiveMode(mode, unattended, ws)] <= Ladder[mode]
  BY LadderIs DEF EffectiveMode, Modes
<1> QED BY <1>1, LadderIsMonotoneHolds DEF LadderIsMonotone

\* permissions.py and execution.py: what the gate lets through the tool's own review does not reject.
THEOREM GateAgreesWithReviewHolds == GateAgreesWithReview
<1> SUFFICES ASSUME NEW mode \in Modes, NEW call \in Calls, NEW ws \in BOOLEAN,
                    Evaluate(mode, call, ws) # "deny"
             PROVE  Reviewed(mode, call)
  BY DEF GateAgreesWithReview
<1>1. mode = "read_only" => call.tool = "reads"
  BY ReadOnlyVerdict
<1>2. CASE call.tool = "run_shell"
  <2>1. mode # "read_only" /\ call.arg \in ShellClasses \ {"empty", "dangerous"}
    BY <1>1, <1>2, ShellVerdict, CallIs
  <2> QED BY <1>2, <2>1 DEF Reviewed, ClassifyShell, Asks, ShellClasses
<1>3. CASE call.tool = "write_file"
  <2>1. mode # "read_only" /\ (mode = "workspace_write" => call.arg = "in_workspace")
    BY <1>1, <1>3, WriteVerdict
  <2> QED BY <1>3, <2>1 DEF Reviewed, EvaluateWrite
<1>4. CASE call.tool \notin {"run_shell", "write_file"}
  BY <1>4 DEF Reviewed
<1> QED BY <1>2, <1>3, <1>4

------------------------------------------------------------------------------
(* The turns *)

Places == {"idle", "compress", "model", "tools", "approval", "running"}

\* Everything but the log.
Typed ==
  /\ turn \in [pc : Places, number : Nat, mode : Modes, approver : BOOLEAN, round : Nat, steps : Nat]
  /\ calls \in BoundedSeq(TurnCalls, MaxCalls)
  /\ approved \subseteq Nat /\ ran \subseteq DOMAIN calls

IInv ==
  /\ Typed
  /\ turn.pc # "running" => ran = {}
  /\ turn.pc = "approval" => turn.approver
  /\ RunsByConsent

LEMMA CallsAre ==
  /\ <<>> \in BoundedSeq(TurnCalls, MaxCalls) /\ DOMAIN <<>> = {}
  /\ \A cs \in BoundedSeq(TurnCalls, MaxCalls) : \A i \in DOMAIN cs : cs[i] \in Calls
<1>1. 0 \in 0..MaxCalls /\ TurnCalls \subseteq Calls
  BY AgentTurnAssumption DEF AgentTurnAssumption
<1>2. <<>> \in [1..0 -> TurnCalls] /\ DOMAIN <<>> = {}
  OBVIOUS
<1>3. <<>> \in BoundedSeq(TurnCalls, MaxCalls)
  BY <1>1, <1>2 DEF BoundedSeq, SeqOf
<1>4. ASSUME NEW cs \in BoundedSeq(TurnCalls, MaxCalls), NEW i \in DOMAIN cs
      PROVE  cs[i] \in Calls
  <2>1. PICK m \in 0..MaxCalls : cs \in [1..m -> TurnCalls]
    BY DEF BoundedSeq, SeqOf
  <2> QED BY <1>1, <2>1
<1> QED BY <1>2, <1>3, <1>4

\* Where a turn goes when it goes on.
LEMMA NextStepIs ==
  ASSUME Typed, NEW pc \in Places, NextStep(pc)
  PROVE  /\ turn' \in [pc : Places, number : Nat, mode : Modes, approver : BOOLEAN, round : Nat,
                       steps : Nat]
         /\ turn'.pc \in {pc, "idle"} /\ turn'.mode = turn.mode /\ turn'.approver = turn.approver
<1>1. CASE turn.steps + 1 >= RecursionLimit
  <2>1. turn' = [turn EXCEPT !.pc = "idle", !.round = 0, !.steps = 0]
    BY <1>1 DEF NextStep, Over
  <2> QED BY <2>1 DEF Typed, Places
<1>2. CASE ~(turn.steps + 1 >= RecursionLimit)
  <2> DEFINE next == IF pc = "tools" THEN turn.round ELSE turn.round + 1
  <2>1. next \in Nat /\ turn.steps + 1 \in Nat
    BY DEF Typed
  <2>2. turn' = [turn EXCEPT !.pc = pc, !.steps = turn.steps + 1, !.round = next]
    BY <1>2 DEF NextStep
  <2> HIDE DEF next
  <2> QED BY <2>1, <2>2 DEF Typed
<1> QED BY <1>1, <1>2

\* A step that leaves nothing executed.
LEMMA NothingRan ==
  ASSUME Typed', ran' = {}, turn'.pc = "approval" => turn'.approver
  PROVE  IInv'
BY DEF IInv, RunsByConsent

\* What the gate lets run: the verdict is allow, or confirm and the user has said so.
LEMMA GateIsKept ==
  ASSUME Typed, NEW yes, NEW i \in Executable(yes)
  PROVE  /\ i \in DOMAIN calls /\ calls[i].arg # "dangerous" /\ Verdict(i) # "deny"
         /\ Verdict(i) = "confirm" => i \in yes
<1>1. i \in DOMAIN calls /\ Verdict(i) \in {"allow", "confirm"}
      /\ (Verdict(i) = "confirm" => i \in yes)
  BY DEF Executable, With
<1>2. calls[i] \in Calls /\ turn.mode \in Modes
  BY <1>1, CallsAre DEF Typed
<1>3. calls[i].arg # "dangerous"
  <2> SUFFICES ASSUME calls[i].arg = "dangerous"  PROVE  FALSE
    OBVIOUS
  <2>1. calls[i].tool = "run_shell"
    BY <1>2, CallIs DEF ShellClasses, PathKinds
  <2>2. Verdict(i) = "deny"
    BY <1>2, <2>1, ReadOnlyVerdict, ShellVerdict DEF Verdict, Workspace
  <2> QED BY <1>1, <2>2
<1> QED BY <1>1, <1>3

LEMMA InitHolds == Init => IInv
BY CallsAre DEF Init, IInv, Typed, Places, Modes, RunsByConsent

LEMMA StepHolds == IInv /\ [Next]_vars => IInv'
<1> SUFFICES ASSUME IInv, [Next]_vars  PROVE  IInv'
  OBVIOUS
<1>1. /\ Typed
      /\ turn.pc # "running" => ran = {}
      /\ turn.pc = "approval" => turn.approver
  BY DEF IInv
<1>2. CASE TurnBegins
  <2>1. PICK mode \in TurnModes, approver \in BOOLEAN :
          turn' = [pc |-> "compress", number |-> turn.number + 1, round |-> 0, steps |-> 0,
                   mode |-> EffectiveMode(mode, ~approver, Workspace), approver |-> approver]
    BY <1>2 DEF TurnBegins
  <2>2. EffectiveMode(mode, ~approver, Workspace) \in Modes
    BY AgentTurnAssumption DEF AgentTurnAssumption, EffectiveMode, Modes, Workspace
  <2>3. UNCHANGED <<calls, approved, ran>> /\ turn.pc = "idle"
    BY <1>2 DEF TurnBegins, Locked
  <2>4. Typed'
    BY <1>1, <2>1, <2>2, <2>3 DEF Typed, Places
  <2> QED BY <1>1, <2>1, <2>3, <2>4, NothingRan
<1>3. CASE Compress
  <2>1. Typed' /\ turn'.pc = "model" /\ ran' = {}
    BY <1>1, <1>3 DEF Compress, Typed, Places
  <2> QED BY <2>1, NothingRan
<1>4. CASE ModelAnswers
  <2>1. PICK cs \in BoundedSeq(TurnCalls, MaxCalls) :
          \/ cs = <<>> /\ Over /\ calls' = <<>>
          \/ cs # <<>> /\ NextStep("tools") /\ calls' = IF turn'.pc = "idle" THEN <<>> ELSE cs
    BY <1>4 DEF ModelAnswers
  <2>2. ran = {} /\ UNCHANGED <<approved, ran>>
    BY <1>1, <1>4 DEF ModelAnswers
  <2>3. CASE cs = <<>> /\ Over /\ calls' = <<>>
    <3>1. Typed' /\ turn'.pc = "idle"
      BY <1>1, <2>2, <2>3, CallsAre DEF Typed, Over, Places
    <3> QED BY <2>2, <3>1, NothingRan
  <2>4. CASE NextStep("tools") /\ calls' = IF turn'.pc = "idle" THEN <<>> ELSE cs
    <3>1. turn'.pc \in {"tools", "idle"} /\ Typed'
      BY <1>1, <2>2, <2>4, CallsAre, NextStepIs DEF Typed, Places
    <3> QED BY <2>2, <3>1, NothingRan
  <2> QED BY <2>1, <2>3, <2>4
<1>5. CASE Gate
  <2>1. turn.pc = "tools" /\ ran = {} /\ UNCHANGED <<calls, approved>>
    BY <1>1, <1>5 DEF Gate
  <2>2. CASE With("confirm") # {} /\ turn.approver
    <3>1. turn' = [turn EXCEPT !.pc = "approval"] /\ ran' = {}
      BY <1>5, <2>1, <2>2 DEF Gate
    <3>2. Typed' /\ turn'.approver
      BY <1>1, <2>1, <2>2, <3>1 DEF Typed, Places
    <3> QED BY <3>1, <3>2, NothingRan
  <2>3. CASE ~(With("confirm") # {} /\ turn.approver)
    <3>1. turn' = [turn EXCEPT !.pc = "running"] /\ ran' = Executable({})
      BY <1>5, <2>1, <2>3 DEF Gate
    <3>2. turn'.mode = turn.mode /\ turn'.pc = "running"
      BY <1>1, <3>1 DEF Typed
    <3>3. \A i \in Executable({}) : /\ i \in DOMAIN calls /\ calls[i].arg # "dangerous"
                                    /\ Verdict(i) # "deny" /\ Verdict(i) # "confirm"
      BY <1>1, GateIsKept
    <3>4. Typed'
      BY <1>1, <2>1, <3>1, <3>3 DEF Typed, Places
    <3>5. \A i : Verdict(i)' = Verdict(i)
      BY <2>1, <3>2 DEF Verdict
    <3>6. RunsByConsent'
      BY <2>1, <3>1, <3>3, <3>5 DEF RunsByConsent
    <3> QED BY <3>2, <3>4, <3>6 DEF IInv
  <2> QED BY <2>2, <2>3
<1>6. CASE Resume
  <2>1. PICK yes \in SUBSET DOMAIN calls : approved' = yes /\ ran' = Executable(yes)
    BY <1>6 DEF Resume
  <2>2. /\ turn' = [turn EXCEPT !.pc = "running", !.steps = 0] /\ UNCHANGED calls
        /\ turn.approver
    BY <1>1, <1>6 DEF Resume
  <2>3. turn'.mode = turn.mode /\ turn'.pc = "running" /\ turn'.approver
    BY <1>1, <2>2 DEF Typed
  <2>4. \A i \in Executable(yes) : /\ i \in DOMAIN calls /\ calls[i].arg # "dangerous"
                                   /\ Verdict(i) # "deny" /\ (Verdict(i) = "confirm" => i \in yes)
    BY <1>1, GateIsKept
  <2>5. DOMAIN calls \subseteq Nat
    <3>1. PICK m \in 0..MaxCalls : calls \in [1..m -> TurnCalls]
      BY <1>1 DEF Typed, BoundedSeq, SeqOf
    <3> QED BY <3>1
  <2>6. Typed'
    BY <1>1, <2>1, <2>2, <2>4, <2>5 DEF Typed, Places
  <2>7. \A i : Verdict(i)' = Verdict(i)
    BY <2>2, <2>3 DEF Verdict
  <2>8. RunsByConsent'
    BY <2>1, <2>2, <2>3, <2>4, <2>7 DEF RunsByConsent
  <2> QED BY <2>3, <2>6, <2>8 DEF IInv
<1>7. CASE ToolsReturn
  <2>1. turn'.pc \in {"model", "idle"} /\ Typed' /\ ran' = {}
    BY <1>1, <1>7, CallsAre, NextStepIs DEF ToolsReturn, Forget, Typed, Places
  <2> QED BY <2>1, NothingRan
<1>8. CASE CutShort
  <2>1. turn'.pc = "idle" /\ Typed' /\ ran' = {}
    BY <1>1, <1>8, CallsAre DEF CutShort, Over, Forget, Typed, Places
  <2> QED BY <2>1, NothingRan
<1>9. CASE ManualReads \/ ManualWrites \/ Clear \/ UNCHANGED vars
  <2>1. UNCHANGED <<turn, calls, approved, ran>>
    BY <1>9 DEF ManualReads, ManualWrites, Clear, vars
  <2>2. \A i : Verdict(i)' = Verdict(i)
    BY <2>1 DEF Verdict
  <2> QED BY <2>1, <2>2 DEF IInv, Typed, RunsByConsent
<1> QED BY <1>2, <1>3, <1>4, <1>5, <1>6, <1>7, <1>8, <1>9 DEF Next

THEOREM IInvAlways == Spec => []IInv
BY InitHolds, StepHolds, PTL DEF Spec

\* graph.py: the turn, the calls of the model's last answer, what was approved and what was run
\* keep their types, however turns are cut short and whatever is done to the checkpoint.
THEOREM TypeCorrect == Spec => []Typed
<1>1. IInv => Typed
  BY DEF IInv
<1> QED BY <1>1, IInvAlways, PTL

\* _permission_gate and the interrupt of graph.py: a call that has to be confirmed runs only if
\* somebody was there to ask and confirmed that very call, a refused or dangerous one never.
THEOREM RunsByConsentHolds == Spec => []RunsByConsent
<1>1. IInv => RunsByConsent
  BY DEF IInv
<1> QED BY <1>1, IInvAlways, PTL

\* permissions.py and execution.py at the gate: no call is refused, or asked about, in a
\* conversation of a higher mode that this turn's mode grants, and the tool's own review agrees.
THEOREM ModesAreOrderedHolds == Spec => []ModesAreOrdered
<1>1. IInv => ModesAreOrdered
  <2> SUFFICES ASSUME Typed  PROVE  ModesAreOrdered
    BY DEF IInv
  <2>1. turn.mode \in Modes /\ Workspace \in BOOLEAN
    BY DEF Typed, Workspace
  <2> QED BY <2>1, LadderIsMonotoneHolds, GateAgreesWithReviewHolds
          DEF ModesAreOrdered, LadderIsMonotone, GateAgreesWithReview
<1> QED BY <1>1, IInvAlways, PTL

------------------------------------------------------------------------------
(* Sequences of sequences, one behind the other *)

\* Of a set of numbers one is the least.
LEMMA LeastOf ==
  ASSUME NEW B, B \subseteq Nat, B # {}
  PROVE  \E m \in B : \A n \in B : m <= n
<1>1. IsWellFoundedOn(OpToRel(<, Nat), Nat)
  BY NatLessThanWellFounded
<1>2. PICK m \in B : \A n \in B : ~(<<n, m>> \in OpToRel(<, Nat))
  BY <1>1, WFMin
<1>3. \A n \in B : ~(n < m)
  BY <1>2 DEF OpToRel
<1>4. ASSUME NEW n \in B PROVE m <= n
  <2>1. ~(n < m) /\ n \in Nat /\ m \in Nat
    BY <1>3
  <2> QED
    BY <2>1
<1> QED
  BY <1>4

\* f is the sequences of ss up to n, one behind the other: o says which of them a place of f is
\* in, and k where.
Laid(f, ss, n, o, k) ==
  /\ o \in [DOMAIN f -> 1..n] /\ k \in [DOMAIN f -> Nat]
  /\ \A p \in DOMAIN f : k[p] \in DOMAIN ss[o[p]] /\ f[p] = ss[o[p]][k[p]]
  /\ \A p, q \in DOMAIN f : p < q => o[p] < o[q] \/ (o[p] = o[q] /\ k[p] < k[q])
  /\ \A i \in 1..n : \A j \in DOMAIN ss[i] : \E p \in DOMAIN f : o[p] = i /\ k[p] = j

\* One more of the sequences.
LEMMA LaidOn ==
  ASSUME NEW M, NEW ss \in Seq(Seq(M)), NEW n \in 1..Len(ss), NEW f \in Seq(M),
         NEW o, NEW k, Laid(f, ss, n - 1, o, k)
  PROVE  \E oo, kk : Laid(f \o ss[n], ss, n, oo, kk)
<1> DEFINE g == f \o ss[n]
           oo == [p \in DOMAIN g |-> IF p <= Len(f) THEN o[p] ELSE n]
           kk == [p \in DOMAIN g |-> IF p <= Len(f) THEN k[p] ELSE p - Len(f)]
<1>1. /\ ss[n] \in Seq(M) /\ Len(f) \in Nat /\ Len(ss[n]) \in Nat
      /\ DOMAIN f = 1..Len(f) /\ DOMAIN ss[n] = 1..Len(ss[n]) /\ DOMAIN g = 1..(Len(f) + Len(ss[n]))
      /\ \A p \in 1..Len(f) : g[p] = f[p]
      /\ \A p \in DOMAIN g : p > Len(f) => p - Len(f) \in DOMAIN ss[n] /\ g[p] = ss[n][p - Len(f)]
  OBVIOUS
<1>2. n \in Nat /\ n - 1 \in Nat
  OBVIOUS
<1> HIDE DEF g
<1>3. /\ \A p \in DOMAIN g : p <= Len(f) => p \in DOMAIN f /\ oo[p] = o[p] /\ kk[p] = k[p]
      /\ \A p \in DOMAIN g : p > Len(f) => oo[p] = n /\ kk[p] = p - Len(f)
  BY <1>1
<1> HIDE DEF oo, kk
<1>4. oo \in [DOMAIN g -> 1..n] /\ kk \in [DOMAIN g -> Nat]
  <2> SUFFICES ASSUME NEW p \in DOMAIN g PROVE oo[p] \in 1..n /\ kk[p] \in Nat
    BY DEF oo, kk
  <2>1. CASE p <= Len(f)
    <3>1. o[p] \in 1..(n - 1) /\ k[p] \in Nat
      BY <1>1, <1>3, <2>1 DEF Laid
    <3> QED BY <1>2, <1>3, <2>1, <3>1
  <2>2. CASE p > Len(f)
    BY <1>1, <1>2, <1>3, <2>2
  <2> QED BY <1>1, <2>1, <2>2
<1>5. ASSUME NEW p \in DOMAIN g
      PROVE  kk[p] \in DOMAIN ss[oo[p]] /\ g[p] = ss[oo[p]][kk[p]]
  <2>1. CASE p <= Len(f)
    <3>1. p \in DOMAIN f /\ g[p] = f[p]
      BY <1>1, <2>1
    <3>2. k[p] \in DOMAIN ss[o[p]] /\ f[p] = ss[o[p]][k[p]]
      BY <3>1 DEF Laid
    <3> QED BY <1>3, <2>1, <3>1, <3>2
  <2>2. CASE p > Len(f)
    BY <1>1, <1>3, <2>2
  <2> QED BY <1>1, <2>1, <2>2
<1>6. ASSUME NEW p \in DOMAIN g, NEW q \in DOMAIN g, p < q
      PROVE  oo[p] < oo[q] \/ (oo[p] = oo[q] /\ kk[p] < kk[q])
  <2>1. CASE q <= Len(f)
    <3>1. p <= Len(f) /\ p \in DOMAIN f /\ q \in DOMAIN f
      BY <1>1, <1>6, <2>1
    <3>2. o[p] < o[q] \/ (o[p] = o[q] /\ k[p] < k[q])
      BY <1>6, <3>1 DEF Laid
    <3> QED BY <1>3, <2>1, <3>1, <3>2
  <2>2. CASE p <= Len(f) /\ q > Len(f)
    <3>1. oo[p] \in 1..(n - 1) /\ oo[q] = n
      BY <1>3, <2>2 DEF Laid
    <3> QED BY <1>2, <3>1
  <2>3. CASE p > Len(f)
    <3>1. q > Len(f) /\ p \in Nat /\ q \in Nat /\ Len(f) \in Nat
      BY <1>1, <1>6, <2>3
    <3>2. oo[p] = n /\ kk[p] = p - Len(f) /\ oo[q] = n /\ kk[q] = q - Len(f)
      BY <1>3, <2>3, <3>1
    <3>3. p - Len(f) < q - Len(f)
      BY <1>6, <3>1
    <3> QED BY <3>2, <3>3
  <2> QED BY <1>1, <2>1, <2>2, <2>3
<1>7. ASSUME NEW i \in 1..n, NEW j \in DOMAIN ss[i]
      PROVE  \E p \in DOMAIN g : oo[p] = i /\ kk[p] = j
  <2>1. CASE i = n
    <3>1. Len(f) + j \in DOMAIN g /\ Len(f) + j > Len(f) /\ (Len(f) + j) - Len(f) = j
      BY <1>1, <2>1
    <3> QED BY <1>3, <2>1, <3>1
  <2>2. CASE i # n
    <3>1. i \in 1..(n - 1)
      BY <1>2, <2>2
    <3>2. PICK p \in DOMAIN f : o[p] = i /\ k[p] = j
      BY <3>1 DEF Laid
    <3>3. p \in DOMAIN g /\ p <= Len(f)
      BY <1>1
    <3> QED BY <1>3, <3>2, <3>3
  <2> QED BY <2>1, <2>2
<1>8. Laid(g, ss, n, oo, kk)
  BY <1>4, <1>5, <1>6, <1>7 DEF Laid
<1> QED BY <1>8 DEF g

\* What FlattenSeq computes on the way.
\* g[i] is the first i of the sequences, one behind the other, as FlattenSeq builds it up.
Grown(g, ss, n) == g = [i \in 1..n |-> IF i = 1 THEN ss[i] ELSE g[i - 1] \o ss[i]]

\* The least place where it went wrong would follow one where it did not.
LEMMA GrownIs ==
  ASSUME NEW M, NEW ss \in Seq(Seq(M)), NEW n \in 1..Len(ss), NEW g, Grown(g, ss, n)
  PROVE  \A i \in 1..n : g[i] \in Seq(M) /\ \E o, k : Laid(g[i], ss, i, o, k)
<1> DEFINE Bad == {i \in 1..n : ~(g[i] \in Seq(M) /\ \E o, k : Laid(g[i], ss, i, o, k))}
<1> SUFFICES ASSUME Bad # {} PROVE FALSE
  OBVIOUS
<1>1. PICK m \in Bad : \A i \in Bad : m <= i
  <2>1. Bad \subseteq Nat
    OBVIOUS
  <2> HIDE DEF Bad
  <2> QED BY <2>1, LeastOf
<1>2. m \in 1..n /\ m \in 1..Len(ss) /\ ss[m] \in Seq(M) /\ n \in Nat /\ Len(ss) \in Nat
  <2>1. m \in 1..n
    BY <1>1
  <2> QED BY <2>1
<1>3. g[m] = IF m = 1 THEN ss[m] ELSE g[m - 1] \o ss[m]
  BY <1>2 DEF Grown
<1>4. CASE m = 1
  <2>1. <<>> \in Seq(M) /\ m - 1 = 0 /\ DOMAIN <<>> = {} /\ <<>> \o ss[m] = ss[m]
    BY <1>2, <1>4
  <2>2. <<>> \in [{} -> 1..0] /\ <<>> \in [{} -> Nat] /\ 1..0 = {}
    OBVIOUS
  <2>3. Laid(<<>>, ss, m - 1, <<>>, <<>>)
    BY <2>1, <2>2 DEF Laid
  <2>4. \E o, k : Laid(<<>> \o ss[m], ss, m, o, k)
    BY <1>2, <2>1, <2>3, LaidOn
  <2>5. g[m] = ss[m]
    BY <1>3, <1>4
  <2> QED BY <1>1, <1>2, <2>1, <2>4, <2>5
<1>5. CASE m # 1
  <2>1. m - 1 \in 1..n /\ ~(m <= m - 1)
    BY <1>2, <1>5
  <2>a. m - 1 \notin Bad
    <3> HIDE DEF Bad
    <3> QED BY <1>1, <2>1
  <2>2. g[m - 1] \in Seq(M) /\ \E o, k : Laid(g[m - 1], ss, m - 1, o, k)
    BY <2>1, <2>a
  <2>3. \E o, k : Laid(g[m - 1] \o ss[m], ss, m, o, k)
    BY <1>2, <2>2, LaidOn
  <2>4. g[m] = g[m - 1] \o ss[m]
    BY <1>3, <1>5
  <2>b. g[m] \in Seq(M)
    BY <1>2, <2>2, <2>4
  <2>5. g[m] \in Seq(M) /\ \E o, k : Laid(g[m], ss, m, o, k)
    BY <2>3, <2>4, <2>b
  <2> QED BY <1>1, <2>5
<1> QED BY <1>4, <1>5

LEMMA GrownExists ==
  ASSUME NEW M, NEW ss \in Seq(Seq(M)), NEW n \in 1..Len(ss)
  PROVE  \E g : Grown(g, ss, n)
<1> DEFINE Bad == {i \in 1..Len(ss) : ~\E g : Grown(g, ss, i)}
<1> SUFFICES ASSUME Bad # {} PROVE FALSE
  OBVIOUS
<1>1. PICK m \in Bad : \A i \in Bad : m <= i
  <2>1. Bad \subseteq Nat
    OBVIOUS
  <2> HIDE DEF Bad
  <2> QED BY <2>1, LeastOf
<1>2. m \in 1..Len(ss) /\ Len(ss) \in Nat
  BY <1>1
<1>3. m # 1
  <2>1. Grown([i \in 1..1 |-> ss[1]], ss, 1)
    BY DEF Grown
  <2> QED BY <1>1, <2>1
<1>4. m - 1 \in 1..Len(ss) /\ m - 1 \notin Bad
  <2>1. m - 1 \in 1..Len(ss) /\ ~(m <= m - 1)
    BY <1>2, <1>3
  <2> HIDE DEF Bad
  <2> QED BY <1>1, <2>1
<1>5. PICK g : Grown(g, ss, m - 1)
  BY <1>4
<1> DEFINE h == [i \in 1..m |-> IF i = m THEN g[m - 1] \o ss[m] ELSE g[i]]
<1>6. \A i \in 1..m : h[i] = IF i = 1 THEN ss[i] ELSE h[i - 1] \o ss[i]
  <2> SUFFICES ASSUME NEW i \in 1..m PROVE h[i] = IF i = 1 THEN ss[i] ELSE h[i - 1] \o ss[i]
    OBVIOUS
  <2>1. CASE i = m
    <3>1. h[m] = g[m - 1] \o ss[m] /\ h[m - 1] = g[m - 1]
      <4>1. m \in 1..m /\ m - 1 \in 1..m /\ m - 1 # m
        BY <1>2, <1>3
      <4> QED BY <4>1
    <3> QED BY <1>3, <2>1, <3>1
  <2>2. CASE i # m
    <3>1. i \in 1..(m - 1) /\ h[i] = g[i] /\ (i # 1 => i - 1 \in 1..m /\ i - 1 # m)
      BY <1>2, <2>2
    <3>2. g[i] = IF i = 1 THEN ss[i] ELSE g[i - 1] \o ss[i]
      BY <1>5, <3>1 DEF Grown
    <3>3. i # 1 => h[i - 1] = g[i - 1]
      BY <3>1
    <3> QED BY <3>1, <3>2, <3>3
  <2> QED BY <2>1, <2>2
<1>7. h = [i \in 1..m |-> IF i = 1 THEN ss[i] ELSE h[i - 1] \o ss[i]]
  <2>1. h = [i \in 1..m |-> h[i]]
    OBVIOUS
  <2> HIDE DEF h
  <2> QED BY <1>6, <2>1
<1>8. Grown(h, ss, m)
  BY <1>7 DEF Grown
<1> QED BY <1>1, <1>8

\* FlattenSeq puts the sequences one behind the other.
LEMMA FlattenIs ==
  ASSUME NEW M, NEW ss \in Seq(Seq(M))
  PROVE  /\ FlattenSeq(ss) \in Seq(M)
         /\ \E o, k : Laid(FlattenSeq(ss), ss, Len(ss), o, k)
<1>1. CASE Len(ss) = 0
  <2>1. ss = <<>> /\ FlattenSeq(ss) = <<>>
    BY <1>1 DEF FlattenSeq
  <2>2. <<>> \in [{} -> 1..0] /\ <<>> \in [{} -> Nat] /\ 1..0 = {} /\ DOMAIN <<>> = {} /\ <<>> \in Seq(M)
    OBVIOUS
  <2>3. Laid(<<>>, ss, 0, <<>>, <<>>)
    BY <2>1, <2>2 DEF Laid
  <2> QED BY <1>1, <2>1, <2>2, <2>3
<1>2. CASE Len(ss) # 0
  <2> DEFINE n == Len(ss)
             g == CHOOSE g : g = [i \in 1..Len(ss) |-> IF i = 1 THEN ss[i] ELSE g[i - 1] \o ss[i]]
  <2>1. n \in 1..Len(ss)
    BY <1>2
  <2>2. \E x : Grown(x, ss, n)
    BY <2>1, GrownExists
  <2>3. Grown(g, ss, n)
    BY <2>2 DEF Grown
  <2>4. FlattenSeq(ss) = g[n]
    BY <1>2 DEF FlattenSeq
  <2> HIDE DEF g
  <2>5. g[n] \in Seq(M) /\ \E o, k : Laid(g[n], ss, n, o, k)
    BY <2>1, <2>3, GrownIs
  <2> QED BY <2>4, <2>5
<1> QED BY <1>1, <1>2

------------------------------------------------------------------------------
(* Logs *)

\* The messages of a log, of any number of turns and rounds.
Messages == [kind : Kinds, turn : Nat, round : Nat, calls : SUBSET (1..MaxCalls)]

\* Some of the messages, in their order; o says where they were.
Thinned(f, l, o) ==
  /\ f \in Seq(Messages)
  /\ o \in [DOMAIN f -> DOMAIN l]
  /\ \A p \in DOMAIN f : f[p] = l[o[p]]
  /\ \A p, q \in DOMAIN f : p < q => o[p] < o[q]

\* Sift keeps the messages at the positions it is given, in their order, and no others.
LEMMA SiftIs ==
  ASSUME NEW l \in Seq(Messages), NEW kept
  PROVE  \E o : /\ Thinned(Sift(l, kept), l, o)
                /\ \A p \in DOMAIN Sift(l, kept) : o[p] \in kept
                /\ \A i \in DOMAIN l : i \in kept => \E p \in DOMAIN Sift(l, kept) : o[p] = i
<1> DEFINE ss == [i \in DOMAIN l |-> IF i \in kept THEN <<l[i]>> ELSE <<>>]
           f == Sift(l, kept)
<1>1. DOMAIN l = 1..Len(l) /\ Len(l) \in Nat
  OBVIOUS
<1>2. \A i \in DOMAIN l : ss[i] \in Seq(Messages)
  OBVIOUS
<1>3. ss \in Seq(Seq(Messages)) /\ Len(ss) = Len(l)
  <2>1. ss \in [1..Len(l) -> Seq(Messages)]
    BY <1>1, <1>2
  <2> HIDE DEF ss
  <2> QED BY <1>1, <2>1
<1>4. \A i \in DOMAIN l : /\ i \in kept => DOMAIN ss[i] = {1} /\ ss[i][1] = l[i]
                          /\ i \notin kept => DOMAIN ss[i] = {}
  OBVIOUS
<1>5. f = FlattenSeq(ss)
  BY DEF Sift
<1> HIDE DEF ss, f
<1>6. f \in Seq(Messages) /\ \E o, k : Laid(f, ss, Len(l), o, k)
  BY <1>3, <1>5, FlattenIs
<1>7. PICK o, k : Laid(f, ss, Len(l), o, k)
  BY <1>6
<1>8. o \in [DOMAIN f -> DOMAIN l]
  BY <1>1, <1>7 DEF Laid
<1>9. ASSUME NEW p \in DOMAIN f
      PROVE  o[p] \in kept /\ k[p] = 1 /\ f[p] = l[o[p]]
  <2>1. o[p] \in DOMAIN l /\ k[p] \in DOMAIN ss[o[p]] /\ f[p] = ss[o[p]][k[p]]
    BY <1>7, <1>8 DEF Laid
  <2> QED BY <1>4, <2>1
<1>10. ASSUME NEW p \in DOMAIN f, NEW q \in DOMAIN f, p < q
       PROVE  o[p] < o[q]
  <2>1. o[p] < o[q] \/ k[p] < k[q]
    BY <1>7, <1>10 DEF Laid
  <2>2. k[p] = 1 /\ k[q] = 1
    BY <1>9
  <2> QED BY <2>1, <2>2
<1>11. ASSUME NEW i \in DOMAIN l, i \in kept
       PROVE  \E p \in DOMAIN f : o[p] = i
  <2>1. i \in 1..Len(l) /\ 1 \in DOMAIN ss[i]
    BY <1>1, <1>4, <1>11
  <2> QED BY <1>7, <2>1 DEF Laid
<1>12. Thinned(f, l, o)
  BY <1>6, <1>8, <1>9, <1>10 DEF Thinned
<1> QED BY <1>9, <1>11, <1>12 DEF f

\* The model's messages are numbered by turn and round.
Before(m, n) == m.turn < n.turn \/ (m.turn = n.turn /\ m.round < n.round)

\* The messages are in the order of their turns ...
InTurns(l) == \A i, j \in DOMAIN l : i < j => l[i].turn <= l[j].turn

\* ... the model's in the order of its rounds ...
InRounds(l) ==
  \A i, j \in DOMAIN l : (i < j /\ l[i].kind = "ai" /\ l[j].kind = "ai") => Before(l[i], l[j])

\* ... an answer is behind the call that it is for ...
OwnedBy(l, i, j) ==
  /\ Declares(l[i]) /\ j \in Following(l, i)
  /\ l[j].turn = l[i].turn /\ l[j].round = l[i].round
  /\ \E c \in l[i].calls : l[j].calls = {c}
Owned(l) == \A j \in DOMAIN l : l[j].kind = "tool" => \E i \in 1..j-1 : OwnedBy(l, i, j)

\* ... and no call is answered twice ...
Distinct(l) ==
  \A j, k \in DOMAIN l :
    (j < k /\ \A q \in j..k : l[q].kind = "tool") => l[j].calls # l[k].calls

\* ... and the head of the session comes first.
HeadFirst(l) == l # <<>> => l[1].kind = "head"

\* A log as turns and compressions make it, calls without answers and gaps included.
Good(l) ==
  l \in Seq(Messages) /\ InTurns(l) /\ InRounds(l) /\ Owned(l) /\ Distinct(l) /\ HeadFirst(l)

\* Of a call that is left out no answer stays.
Whole(f, l, o) ==
  \A q \in DOMAIN f : \A i \in 1..o[q]-1 :
    (f[q].kind = "tool" /\ OwnedBy(l, i, o[q])) => \E p \in DOMAIN f : o[p] = i

\* Some of the messages of a good log are one, if answers do not lose their call.
LEMMA ThinnedIsGood ==
  ASSUME NEW l, NEW f, NEW o, Good(l), Thinned(f, l, o), Whole(f, l, o), HeadFirst(f)
  PROVE  Good(f)
<1>1. /\ f \in Seq(Messages) /\ l \in Seq(Messages) /\ DOMAIN f = 1..Len(f) /\ Len(f) \in Nat
      /\ DOMAIN l = 1..Len(l) /\ Len(l) \in Nat
  BY DEF Thinned, Good
<1>2. /\ \A p \in DOMAIN f : o[p] \in DOMAIN l /\ o[p] \in Nat /\ f[p] = l[o[p]]
      /\ \A p, q \in DOMAIN f : p < q => o[p] < o[q]
  <2>1. \A p \in DOMAIN f : o[p] \in DOMAIN l
    BY DEF Thinned
  <2> QED BY <1>1, <2>1 DEF Thinned
<1>3. InTurns(f)
  BY <1>2 DEF InTurns, Good
<1>4. InRounds(f)
  BY <1>2 DEF InRounds, Good
<1>5. \A p, q \in DOMAIN f : o[p] < o[q] => p < q
  <2> SUFFICES ASSUME NEW p \in DOMAIN f, NEW q \in DOMAIN f, o[p] < o[q], ~(p < q) PROVE FALSE
    OBVIOUS
  <2>1. q < p \/ q = p
    BY <1>1
  <2>2. o[q] < o[p] \/ o[q] = o[p]
    BY <1>2, <2>1
  <2> QED BY <1>2, <2>2
\* The call that an answer is for is where it was, relative to the answer.
<1>6. ASSUME NEW q \in DOMAIN f, f[q].kind = "tool"
      PROVE  \E p \in 1..q-1 : OwnedBy(f, p, q) /\ OwnedBy(l, o[p], o[q]) /\ o[p] \in 1..o[q]-1
  <2>1. o[q] \in DOMAIN l /\ l[o[q]] = f[q]
    BY <1>2
  <2>2. PICK i \in 1..o[q]-1 : OwnedBy(l, i, o[q])
    BY <1>6, <2>1 DEF Good, Owned
  <2>3. PICK p \in DOMAIN f : o[p] = i
    BY <1>6, <2>2 DEF Whole
  <2>4. i < o[q] /\ p < q /\ p \in 1..q-1 /\ q \in 1..Len(f)
    <3>1. i < o[q] /\ o[q] \in Nat
      BY <1>2, <2>2
    <3>2. p < q
      BY <1>5, <2>3, <3>1
    <3> QED BY <1>1, <3>1, <3>2
  <2>5. q \in Following(f, p)
    <3>1. ASSUME NEW r \in p+1..q PROVE f[r].kind = "tool"
      <4>1. r \in DOMAIN f /\ p < r /\ (r < q \/ r = q)
        BY <1>1, <2>4
      <4>2. o[p] < o[r] /\ (o[r] < o[q] \/ o[r] = o[q]) /\ o[r] \in Nat /\ o[p] \in Nat /\ o[q] \in Nat
        BY <1>2, <4>1
      <4>3. o[r] \in i+1..o[q]
        BY <2>3, <4>2
      <4>4. l[o[r]].kind = "tool"
        BY <2>2, <4>3 DEF OwnedBy, Following
      <4> QED BY <1>2, <4>1, <4>4
    <3>2. q \in p+1..Len(f)
      BY <1>1, <2>4
    <3> QED BY <3>1, <3>2 DEF Following
  <2>6. f[p] = l[i] /\ f[q] = l[o[q]]
    BY <1>2, <2>3
  <2>7. OwnedBy(f, p, q)
    BY <2>2, <2>5, <2>6 DEF OwnedBy
  <2> QED BY <2>2, <2>3, <2>4, <2>7
<1>7. Owned(f)
  BY <1>6 DEF Owned
<1>8. Distinct(f)
  <2> SUFFICES ASSUME NEW j \in DOMAIN f, NEW k \in DOMAIN f, j < k,
                      \A q \in j..k : f[q].kind = "tool"
               PROVE  f[j].calls # f[k].calls
    BY DEF Distinct
  <2>1. j \in j..k /\ k \in j..k /\ f[j].kind = "tool" /\ f[k].kind = "tool"
    BY <1>1
  <2>2. PICK a \in 1..j-1 : OwnedBy(l, o[a], o[j]) /\ o[a] \in 1..o[j]-1
    BY <1>6, <2>1
  <2>3. PICK b \in 1..k-1 : OwnedBy(l, o[b], o[k]) /\ o[b] \in 1..o[k]-1 /\ OwnedBy(f, b, k)
    BY <1>6, <2>1
  <2>4. a \in DOMAIN f /\ b \in DOMAIN f /\ f[b].kind = "ai" /\ a < j /\ b < k
    BY <1>1, <2>2, <2>3 DEF OwnedBy, Declares
  <2>5. ~(j <= b)
    <3> SUFFICES ASSUME j <= b PROVE FALSE
      OBVIOUS
    <3>1. b \in j..k
      BY <1>1, <2>4
    <3> QED BY <2>4, <3>1
  <2>6. ASSUME NEW q \in o[j]..o[k] PROVE l[q].kind = "tool"
    <3>1. b < j /\ o[b] < o[j] /\ o[b] \in Nat /\ o[j] \in Nat /\ o[k] \in Nat
      BY <1>1, <1>2, <2>4, <2>5
    <3>2. q \in o[b]+1..o[k]
      BY <3>1
    <3> QED BY <2>3, <3>2 DEF OwnedBy, Following
  <2>7. o[j] \in DOMAIN l /\ o[k] \in DOMAIN l /\ o[j] < o[k]
    BY <1>2
  <2>8. l[o[j]].calls # l[o[k]].calls
    BY <2>6, <2>7 DEF Good, Distinct
  <2> QED BY <1>2, <2>8
<1> QED BY <1>1, <1>3, <1>4, <1>7, <1>8 DEF Good

------------------------------------------------------------------------------
(* The repair of tool calls *)

\* An answer is behind one call only.
LEMMA OneOwner ==
  ASSUME NEW l \in Seq(Messages), NEW j \in Nat, NEW a \in Nat, NEW b \in Nat,
         j \in Following(l, a), j \in Following(l, b), Declares(l[a]), Declares(l[b])
  PROVE  a = b
<1>1. l[a].kind = "ai" /\ l[b].kind = "ai"
  BY DEF Declares
<1>2. /\ a < j /\ \A q \in a+1..j : l[q].kind = "tool"
      /\ b < j /\ \A q \in b+1..j : l[q].kind = "tool"
  BY DEF Following
<1>3. ~(a < b)
  <2> SUFFICES ASSUME a < b PROVE FALSE
    OBVIOUS
  <2>1. b \in a+1..j
    BY <1>2
  <2> QED BY <1>1, <1>2, <2>1
<1>4. ~(b < a)
  <2> SUFFICES ASSUME b < a PROVE FALSE
    OBVIOUS
  <2>1. a \in b+1..j
    BY <1>2
  <2> QED BY <1>1, <1>2, <2>1
<1> QED BY <1>3, <1>4

\* The answers behind a call of a good log are its own.
LEMMA AnswersAre ==
  ASSUME NEW l, Good(l), NEW i \in DOMAIN l, Declares(l[i]), NEW j \in Following(l, i)
  PROVE  OwnedBy(l, i, j) /\ j \in DOMAIN l /\ i < j
<1>1. l \in Seq(Messages) /\ i \in Nat /\ DOMAIN l = 1..Len(l) /\ Len(l) \in Nat
  BY DEF Good
<1>2. j \in DOMAIN l /\ j \in Nat /\ i < j /\ l[j].kind = "tool"
  <2>1. j \in i+1..Len(l) /\ \A k \in i+1..j : l[k].kind = "tool"
    BY DEF Following
  <2>2. j \in i+1..j
    BY <1>1, <2>1
  <2> QED BY <1>1, <2>1, <2>2
<1>3. PICK a \in 1..j-1 : OwnedBy(l, a, j)
  BY <1>2 DEF Good, Owned
<1>4. a = i
  BY <1>1, <1>2, <1>3, OneOwner DEF OwnedBy
<1> QED BY <1>2, <1>3, <1>4

\* A sequence of placeholders for the calls that are not answered.
Placed(m, answered, s) ==
  /\ s \in Seq(Messages)
  /\ \A k \in DOMAIN s : \E c \in m.calls \ answered : s[k] = Message("tool", m.turn, m.round, {c})
  /\ \A k, kk \in DOMAIN s : s[k] = s[kk] => k = kk
  /\ \A c \in m.calls \ answered : \E k \in DOMAIN s : s[k] = Message("tool", m.turn, m.round, {c})

LEMMA PlaceholdersAre ==
  ASSUME NEW m \in Messages, NEW answered, m.kind = "ai"
  PROVE  Placed(m, answered, Placeholders(m, answered))
<1> DEFINE D == m.calls \ answered
           T == {Message("tool", m.turn, m.round, {c}) : c \in D}
           F == [c \in D |-> Message("tool", m.turn, m.round, {c})]
           N == Cardinality(T)
<1>1. IsFiniteSet(D)
  <2>1. MaxCalls \in Int /\ D \in SUBSET (1..MaxCalls)
    BY AgentTurnAssumption DEF AgentTurnAssumption, Messages
  <2>2. IsFiniteSet(1..MaxCalls)
    BY <2>1, FS_Interval
  <2> HIDE DEF D
  <2> QED BY <2>1, <2>2, FS_Subset
<1>2. IsFiniteSet(T)
  <2>1. F \in [D -> T] /\ \A t \in T : \E c \in D : F[c] = t
    OBVIOUS
  <2>2. \A c, d \in D : F[c] = F[d] => c = d
    BY DEF Message
  <2> HIDE DEF F, T, D
  <2>3. F \in Injection(D, T)
    BY <2>1, <2>2 DEF Injection, IsInjective
  <2>4. F \in Surjection(D, T)
    BY <2>1 DEF Surjection
  <2>5. ExistsBijection(D, T)
    BY <2>3, <2>4 DEF ExistsBijection, Bijection
  <2> QED BY <1>1, <2>5, FS_Bijection
<1>3. T \subseteq Messages
  <2> SUFFICES ASSUME NEW c \in D PROVE Message("tool", m.turn, m.round, {c}) \in Messages
    OBVIOUS
  <2>1. "tool" \in Kinds /\ m.turn \in Nat /\ m.round \in Nat /\ {c} \in SUBSET (1..MaxCalls)
    BY DEF Kinds, Messages
  <2> QED BY <2>1 DEF Message, Messages
<1> DEFINE s == SetToSeq(T)
<1> HIDE DEF T
<1>4. N \in Nat /\ ExistsBijection(1..N, T)
  BY <1>2, FS_CardinalityType
<1>5. PICK b : b \in [1..N -> T] /\ IsInjective(b)
  BY <1>4 DEF ExistsBijection, Bijection, Injection
<1>6. s \in [1..N -> T] /\ IsInjective(s)
  BY <1>5 DEF SetToSeq
<1> HIDE DEF s
<1>7. \A t \in T : \E k \in 1..N : s[k] = t
  <2> DEFINE U == {s[k] : k \in 1..N}
  <2>1. U \in SUBSET T
    BY <1>6
  <2>2. s \in Injection(1..N, U)
    BY <1>6 DEF Injection
  <2>3. s \in Surjection(1..N, U)
    BY <1>6 DEF Surjection
  <2>4. ExistsBijection(1..N, U)
    BY <2>2, <2>3 DEF ExistsBijection, Bijection
  <2> HIDE DEF U
  <2>5. Cardinality(U) = N
    BY <1>4, <2>4, FS_CountingElements
  <2>6. U = T
    BY <1>2, <2>1, <2>5, FS_Subset
  <2> QED BY <2>6 DEF U
<1> HIDE DEF N
<1>8. DOMAIN s = 1..N /\ s \in Seq(Messages)
  <2>1. s \in Seq(T)
    BY <1>4, <1>6
  <2> QED BY <1>3, <1>6, <2>1
<1>9. s = Placeholders(m, answered)
  BY DEF s, T, Placeholders
<1>10. \A k, kk \in DOMAIN s : s[k] = s[kk] => k = kk
  BY <1>6 DEF IsInjective
<1>11. \A k \in DOMAIN s : \E c \in D : s[k] = Message("tool", m.turn, m.round, {c})
  <2>1. \A k \in DOMAIN s : s[k] \in T
    BY <1>6, <1>8
  <2> QED BY <2>1 DEF T
<1>12. \A c \in D : \E k \in DOMAIN s : s[k] = Message("tool", m.turn, m.round, {c})
  <2>1. \A c \in D : Message("tool", m.turn, m.round, {c}) \in T
    BY DEF T
  <2> QED BY <1>7, <1>8, <2>1
<1> QED BY <1>8, <1>9, <1>10, <1>11, <1>12 DEF Placed

\* What stands for the message at i of a good log.
Mended(l, i, b) ==
  /\ b \in Seq(Messages)
  /\ l[i].kind = "tool" => Len(b) = 0
  /\ l[i].kind # "tool" => Len(b) >= 1 /\ b[1] = l[i]
  /\ ~Declares(l[i]) => Len(b) <= 1
  /\ \A k \in 2..Len(b) : /\ b[k].kind = "tool" /\ b[k].turn = l[i].turn /\ b[k].round = l[i].round
                          /\ \E c \in l[i].calls : b[k].calls = {c}
  /\ \A k, kk \in 2..Len(b) : b[k].calls = b[kk].calls => k = kk
  /\ Declares(l[i]) => \A c \in l[i].calls : \E k \in 2..Len(b) : b[k].calls = {c}

LEMMA RepairedIs ==
  ASSUME NEW l, Good(l), NEW i \in DOMAIN l
  PROVE  Mended(l, i, Repaired(l, i))
<1>1. l \in Seq(Messages) /\ l[i] \in Messages /\ DOMAIN l = 1..Len(l) /\ Len(l) \in Nat /\ i \in Nat
  <2>1. l \in Seq(Messages)
    BY DEF Good
  <2> QED BY <2>1
<1>2. CASE ~Declares(l[i]) /\ l[i].kind = "tool"
  <2>1. Repaired(l, i) = <<>>
    BY <1>2 DEF Repaired
  <2> QED BY <1>2, <2>1 DEF Mended
<1>3. CASE ~Declares(l[i]) /\ l[i].kind # "tool"
  <2>1. Repaired(l, i) = <<l[i]>>
    BY <1>3 DEF Repaired
  <2>2. <<l[i]>> \in Seq(Messages) /\ Len(<<l[i]>>) = 1 /\ <<l[i]>>[1] = l[i] /\ 2..1 = {}
    BY <1>1
  <2> QED BY <1>3, <2>1, <2>2 DEF Mended
<1>4. CASE Declares(l[i])
  <2> DEFINE m == l[i]
             A == Answers(l, i)
             answered == UNION {l[j].calls : j \in A}
             s == Sift(l, A)
             h == Placeholders(m, answered)
             b == <<m>> \o s \o h
  <2>1. Repaired(l, i) = b /\ m.kind = "ai"
    BY <1>4 DEF Repaired, Declares
  <2>2. \A j \in A : OwnedBy(l, i, j) /\ j \in DOMAIN l /\ i < j /\ l[j].kind = "tool"
    <3> SUFFICES ASSUME NEW j \in A PROVE OwnedBy(l, i, j) /\ j \in DOMAIN l /\ i < j /\ l[j].kind = "tool"
      OBVIOUS
    <3>1. j \in Following(l, i)
      BY DEF A, Answers
    <3>2. OwnedBy(l, i, j) /\ j \in DOMAIN l /\ i < j
      BY <1>4, <3>1, AnswersAre
    <3>3. j \in i+1..j
      BY <1>1, <3>2
    <3> QED BY <3>1, <3>2, <3>3 DEF Following
  <2>3. PICK o : /\ Thinned(s, l, o)
                 /\ \A p \in DOMAIN s : o[p] \in A
                 /\ \A j \in DOMAIN l : j \in A => \E p \in DOMAIN s : o[p] = j
    BY <1>1, SiftIs
  <2>0. m \in Messages /\ m = l[i]
    BY <1>1
  <2>4. Placed(m, answered, h)
    <3> HIDE DEF m, answered
    <3> QED BY <2>0, <2>1, PlaceholdersAre
  <2> HIDE DEF s, h, m, A, answered
  <2>5. s \in Seq(Messages) /\ \A p \in DOMAIN s : s[p] = l[o[p]] /\ o[p] \in A
    BY <2>3 DEF Thinned
  <2>6. /\ b \in Seq(Messages) /\ Len(b) = 1 + Len(s) + Len(h) /\ b[1] = m
        /\ Len(s) \in Nat /\ Len(h) \in Nat /\ DOMAIN s = 1..Len(s) /\ DOMAIN h = 1..Len(h)
        /\ \A k \in 1..Len(s) : b[k + 1] = s[k]
        /\ \A k \in 1..Len(h) : b[k + 1 + Len(s)] = h[k]
    <3>1. h \in Seq(Messages)
      BY <2>4 DEF Placed
    <3> QED BY <2>0, <2>5, <3>1
  <2> HIDE DEF b
  \* Which call an answer or a placeholder is for.
  <2>7. \A p \in 1..Len(s) : /\ s[p].kind = "tool" /\ s[p].turn = m.turn /\ s[p].round = m.round
                             /\ \E c \in m.calls : s[p].calls = {c}
                             /\ s[p].calls \subseteq answered
    <3> SUFFICES ASSUME NEW p \in 1..Len(s)
                 PROVE  /\ s[p].kind = "tool" /\ s[p].turn = m.turn /\ s[p].round = m.round
                        /\ \E c \in m.calls : s[p].calls = {c}
                        /\ s[p].calls \subseteq answered
      OBVIOUS
    <3>1. s[p] = l[o[p]] /\ o[p] \in A
      BY <2>5, <2>6
    <3> QED BY <2>0, <2>2, <3>1 DEF OwnedBy, answered
  <2>8. \A k \in 1..Len(h) : /\ h[k].kind = "tool" /\ h[k].turn = m.turn /\ h[k].round = m.round
                             /\ \E c \in m.calls \ answered : h[k].calls = {c}
    <3> SUFFICES ASSUME NEW k \in 1..Len(h)
                 PROVE  /\ h[k].kind = "tool" /\ h[k].turn = m.turn /\ h[k].round = m.round
                        /\ \E c \in m.calls \ answered : h[k].calls = {c}
      OBVIOUS
    <3>1. PICK c \in m.calls \ answered : h[k] = Message("tool", m.turn, m.round, {c})
      BY <2>4, <2>6 DEF Placed
    <3> QED BY <3>1 DEF Message
  <2>9. \A k \in 2..Len(b) : \/ \E p \in 1..Len(s) : k = p + 1 /\ b[k] = s[p]
                             \/ \E p \in 1..Len(h) : k = p + 1 + Len(s) /\ b[k] = h[p]
    <3> SUFFICES ASSUME NEW k \in 2..Len(b)
                 PROVE  \/ \E p \in 1..Len(s) : k = p + 1 /\ b[k] = s[p]
                        \/ \E p \in 1..Len(h) : k = p + 1 + Len(s) /\ b[k] = h[p]
      OBVIOUS
    <3>1. CASE k <= 1 + Len(s)
      <4>1. k - 1 \in 1..Len(s) /\ (k - 1) + 1 = k
        BY <2>6, <3>1
      <4> QED BY <2>6, <4>1
    <3>2. CASE k > 1 + Len(s)
      <4>1. k - 1 - Len(s) \in 1..Len(h) /\ (k - 1 - Len(s)) + 1 + Len(s) = k
        BY <2>6, <3>2
      <4> QED BY <2>6, <4>1
    <3> QED BY <2>6, <3>1, <3>2
  <2>10. \A k \in 2..Len(b) : /\ b[k].kind = "tool" /\ b[k].turn = m.turn /\ b[k].round = m.round
                              /\ \E c \in m.calls : b[k].calls = {c}
    <3> SUFFICES ASSUME NEW k \in 2..Len(b)
                 PROVE  /\ b[k].kind = "tool" /\ b[k].turn = m.turn /\ b[k].round = m.round
                        /\ \E c \in m.calls : b[k].calls = {c}
      OBVIOUS
    <3>1. CASE \E p \in 1..Len(s) : k = p + 1 /\ b[k] = s[p]
      BY <2>7, <3>1
    <3>2. CASE \E p \in 1..Len(h) : k = p + 1 + Len(s) /\ b[k] = h[p]
      BY <2>8, <3>2
    <3> QED BY <2>9, <3>1, <3>2
  <2>11. \A p, q \in 1..Len(s) : s[p].calls = s[q].calls => p = q
    <3>1. ASSUME NEW p \in 1..Len(s), NEW q \in 1..Len(s), p < q
          PROVE  s[p].calls # s[q].calls
      <4>1. /\ s[p] = l[o[p]] /\ s[q] = l[o[q]] /\ o[p] < o[q] /\ o[p] \in A /\ o[q] \in A
            /\ o[p] \in DOMAIN l /\ o[q] \in DOMAIN l /\ i < o[p]
        BY <2>2, <2>3, <2>5, <2>6, <3>1 DEF Thinned
      <4>2. \A r \in o[p]..o[q] : l[r].kind = "tool"
        <5>1. \A r \in i+1..o[q] : l[r].kind = "tool"
          BY <4>1 DEF A, Answers, Following
        <5>2. \A r \in o[p]..o[q] : r \in i+1..o[q]
          BY <1>1, <4>1
        <5> QED BY <5>1, <5>2
      <4> QED BY <4>1, <4>2 DEF Good, Distinct
    <3>2. \A p, q \in 1..Len(s) : p < q \/ q < p \/ p = q
      BY <2>6
    <3> QED BY <3>1, <3>2
  <2>12. \A p, q \in 1..Len(h) : h[p].calls = h[q].calls => p = q
    <3> SUFFICES ASSUME NEW p \in 1..Len(h), NEW q \in 1..Len(h), h[p].calls = h[q].calls PROVE p = q
      OBVIOUS
    <3>1. PICK c \in m.calls \ answered : h[p] = Message("tool", m.turn, m.round, {c})
      BY <2>4, <2>6 DEF Placed
    <3>a. PICK d \in m.calls \ answered : h[q] = Message("tool", m.turn, m.round, {d})
      BY <2>4, <2>6 DEF Placed
    <3>2. h[p] = h[q]
      <4>1. h[p].calls = {c} /\ h[q].calls = {d}
        BY <3>1, <3>a DEF Message
      <4>2. c = d
        BY <4>1
      <4> QED BY <3>1, <3>a, <4>2
    <3> QED BY <2>4, <2>6, <3>2 DEF Placed
  <2>13. \A k, kk \in 2..Len(b) : b[k].calls = b[kk].calls => k = kk
    <3>1. \A p \in 1..Len(s), q \in 1..Len(h) : s[p].calls # h[q].calls
      <4> SUFFICES ASSUME NEW p \in 1..Len(s), NEW q \in 1..Len(h), s[p].calls = h[q].calls PROVE FALSE
        OBVIOUS
      <4>1. PICK c \in m.calls \ answered : h[q].calls = {c}
        BY <2>8
      <4>2. s[p].calls \subseteq answered
        BY <2>7
      <4> QED BY <4>1, <4>2
    <3> SUFFICES ASSUME NEW k \in 2..Len(b), NEW kk \in 2..Len(b), b[k].calls = b[kk].calls
                 PROVE  k = kk
      OBVIOUS
    <3>2. CASE \E p \in 1..Len(s) : k = p + 1 /\ b[k] = s[p]
      BY <2>9, <2>11, <3>1, <3>2
    <3>3. CASE \E p \in 1..Len(h) : k = p + 1 + Len(s) /\ b[k] = h[p]
      <4>1. PICK p \in 1..Len(h) : k = p + 1 + Len(s) /\ b[k] = h[p]
        BY <3>3
      <4>2. CASE \E q \in 1..Len(s) : kk = q + 1 /\ b[kk] = s[q]
        BY <3>1, <4>1, <4>2
      <4>3. CASE \E q \in 1..Len(h) : kk = q + 1 + Len(s) /\ b[kk] = h[q]
        BY <2>12, <4>1, <4>3
      <4> QED BY <2>9, <4>2, <4>3
    <3> QED BY <2>9, <3>2, <3>3
  <2>14. \A c \in m.calls : \E k \in 2..Len(b) : b[k].calls = {c}
    <3> SUFFICES ASSUME NEW c \in m.calls PROVE \E k \in 2..Len(b) : b[k].calls = {c}
      OBVIOUS
    <3>1. CASE c \in answered
      <4>1. PICK j \in A : c \in l[j].calls
        BY <3>1 DEF answered
      <4>2. l[j].calls = {c} /\ j \in DOMAIN l
        BY <2>2, <4>1 DEF OwnedBy
      <4>3. PICK p \in DOMAIN s : o[p] = j
        BY <2>3, <4>2
      <4>4. s[p].calls = {c} /\ p + 1 \in 2..Len(b) /\ b[p + 1] = s[p]
        BY <2>5, <2>6, <4>2, <4>3
      <4> QED BY <4>4
    <3>2. CASE c \notin answered
      <4>1. PICK k \in DOMAIN h : h[k] = Message("tool", m.turn, m.round, {c})
        BY <2>4, <3>2 DEF Placed
      <4>2. h[k].calls = {c}
        BY <4>1 DEF Message
      <4>3. k + 1 + Len(s) \in 2..Len(b) /\ b[k + 1 + Len(s)] = h[k]
        BY <2>6
      <4> QED BY <4>2, <4>3
    <3> QED BY <3>1, <3>2
  <2>15. Len(b) >= 1
    BY <2>6
  <2>16. Mended(l, i, b)
    <3>1. l[i].kind # "tool"
      BY <2>0, <2>1
    <3> QED BY <1>4, <2>0, <2>6, <2>10, <2>13, <2>14, <2>15, <3>1 DEF Mended
  <2> QED BY <2>1, <2>16
<1>5. Declares(l[i]) => l[i].kind # "tool"
  BY DEF Declares
<1> QED BY <1>2, <1>3, <1>4, <1>5

\* Whatever is done to a log, a message of it dates from one that was there, and the model's
\* messages are the model's.
Derived(f, l) ==
  \A p \in DOMAIN f : \E i \in DOMAIN l :
    f[p].turn = l[i].turn /\ (f[p].kind = "ai" => f[p] = l[i])

\* Where a message of the repaired log comes from: o says which message it stands for, and k
\* is 1 for that message itself.
Mapped(l, r, o, k) ==
  /\ r \in Seq(Messages) /\ o \in [DOMAIN r -> DOMAIN l] /\ k \in [DOMAIN r -> Nat]
  /\ \A p \in DOMAIN r : /\ k[p] >= 1
                         /\ k[p] = 1 => r[p] = l[o[p]] /\ r[p].kind # "tool"
                         /\ k[p] > 1 => /\ Declares(l[o[p]])
                                        /\ r[p].kind = "tool" /\ r[p].turn = l[o[p]].turn
                                        /\ r[p].round = l[o[p]].round
                                        /\ \E c \in l[o[p]].calls : r[p].calls = {c}
  /\ \A p, q \in DOMAIN r : p < q => o[p] < o[q] \/ (o[p] = o[q] /\ k[p] < k[q])
  /\ \A i \in DOMAIN l : l[i].kind # "tool" => \E p \in DOMAIN r : o[p] = i /\ k[p] = 1
  /\ \A p, q \in DOMAIN r : (o[p] = o[q] /\ k[p] > 1 /\ k[q] > 1 /\ r[p].calls = r[q].calls) => p = q
  /\ \A i \in DOMAIN l : Declares(l[i]) =>
       \A c \in l[i].calls : \E p \in DOMAIN r : o[p] = i /\ k[p] > 1 /\ r[p].calls = {c}

\* The repaired log, message by message.
LEMMA PairingMaps ==
  ASSUME NEW l, Good(l)
  PROVE  \E o, k : Mapped(l, EnsureToolPairing(l), o, k)
<1> DEFINE ss == [i \in DOMAIN l |-> Repaired(l, i)]
           r == EnsureToolPairing(l)
<1>1. l \in Seq(Messages) /\ DOMAIN l = 1..Len(l) /\ Len(l) \in Nat
  BY DEF Good
<1>2. \A i \in DOMAIN l : ss[i] = Repaired(l, i) /\ Mended(l, i, ss[i])
  BY RepairedIs
<1>3. ss \in Seq(Seq(Messages)) /\ Len(ss) = Len(l)
  <2>1. ss = [i \in 1..Len(l) |-> ss[i]]
    BY <1>1
  <2>2. \A i \in 1..Len(l) : ss[i] \in Seq(Messages)
    BY <1>1, <1>2 DEF Mended
  <2> HIDE DEF ss
  <2>3. ss \in [1..Len(l) -> Seq(Messages)]
    BY <2>1, <2>2
  <2> QED BY <1>1, <2>3
<1>4. r = FlattenSeq(ss)
  BY DEF EnsureToolPairing
<1> HIDE DEF ss, r
<1>5. r \in Seq(Messages) /\ \E o, k : Laid(r, ss, Len(l), o, k)
  BY <1>3, <1>4, FlattenIs
<1>6. PICK o, k : Laid(r, ss, Len(l), o, k)
  BY <1>5
<1>7. o \in [DOMAIN r -> DOMAIN l] /\ k \in [DOMAIN r -> Nat]
  BY <1>1, <1>6 DEF Laid
<1>8. \A i \in DOMAIN l : ss[i] \in Seq(Messages) /\ DOMAIN ss[i] = 1..Len(ss[i]) /\ Len(ss[i]) \in Nat
  BY <1>2 DEF Mended
<1>9. ASSUME NEW p \in DOMAIN r
      PROVE  /\ o[p] \in DOMAIN l /\ k[p] \in 1..Len(ss[o[p]]) /\ r[p] = ss[o[p]][k[p]]
             /\ k[p] \in Nat /\ k[p] >= 1 /\ Len(ss[o[p]]) \in Nat
             /\ k[p] > 1 => k[p] \in 2..Len(ss[o[p]])
  <2>1. o[p] \in DOMAIN l /\ k[p] \in DOMAIN ss[o[p]] /\ r[p] = ss[o[p]][k[p]]
    BY <1>6, <1>7 DEF Laid
  <2> QED BY <1>8, <2>1
<1>10. ASSUME NEW p \in DOMAIN r
       PROVE  /\ k[p] >= 1
              /\ k[p] = 1 => r[p] = l[o[p]] /\ r[p].kind # "tool"
              /\ k[p] > 1 => /\ Declares(l[o[p]])
                             /\ r[p].kind = "tool" /\ r[p].turn = l[o[p]].turn
                             /\ r[p].round = l[o[p]].round
                             /\ \E c \in l[o[p]].calls : r[p].calls = {c}
  <2> DEFINE i == o[p]
             b == ss[o[p]]
  <2>1. i \in DOMAIN l /\ k[p] \in 1..Len(b) /\ r[p] = b[k[p]] /\ k[p] \in Nat /\ k[p] >= 1 /\ Len(b) \in Nat
        /\ (k[p] > 1 => k[p] \in 2..Len(b))
    BY <1>9
  <2>2. Mended(l, i, b)
    BY <1>2, <2>1
  <2> HIDE DEF i, b
  <2>3. l[i].kind # "tool"
    BY <2>1, <2>2 DEF Mended
  <2>4. k[p] = 1 => r[p] = l[i]
    BY <2>1, <2>2, <2>3 DEF Mended
  <2>5. k[p] > 1 => Declares(l[i])
    BY <2>1, <2>2 DEF Mended
  <2>6. k[p] > 1 => /\ r[p].kind = "tool" /\ r[p].turn = l[i].turn /\ r[p].round = l[i].round
                    /\ \E c \in l[i].calls : r[p].calls = {c}
    <3>1. \A x \in 2..Len(b) : /\ b[x].kind = "tool" /\ b[x].turn = l[i].turn /\ b[x].round = l[i].round
                               /\ \E c \in l[i].calls : b[x].calls = {c}
      BY <2>2 DEF Mended
    <3> QED BY <2>1, <3>1
  <2> QED BY <2>1, <2>3, <2>4, <2>5, <2>6 DEF i
<1>11. ASSUME NEW i \in DOMAIN l, l[i].kind # "tool"
       PROVE  \E p \in DOMAIN r : o[p] = i /\ k[p] = 1
  <2>1. Mended(l, i, ss[i]) /\ i \in 1..Len(l)
    BY <1>1, <1>2
  <2>2. 1 \in DOMAIN ss[i]
    BY <1>8, <1>11, <2>1 DEF Mended
  <2> QED BY <1>6, <2>1, <2>2 DEF Laid
<1>12. ASSUME NEW p \in DOMAIN r, NEW q \in DOMAIN r,
              o[p] = o[q], k[p] > 1, k[q] > 1, r[p].calls = r[q].calls
       PROVE  p = q
  <2>1. k[p] \in 2..Len(ss[o[p]]) /\ k[q] \in 2..Len(ss[o[p]]) /\ Mended(l, o[p], ss[o[p]])
    BY <1>2, <1>9, <1>12
  <2>2. ss[o[p]][k[p]].calls = ss[o[p]][k[q]].calls
    BY <1>9, <1>12
  <2>3. k[p] = k[q]
    BY <2>1, <2>2 DEF Mended
  <2>4. ~(p < q)
    BY <1>6, <1>7, <1>1, <1>9, <1>12, <2>3 DEF Laid
  <2>5. ~(q < p)
    BY <1>6, <1>7, <1>1, <1>9, <1>12, <2>3 DEF Laid
  <2>6. p \in Nat /\ q \in Nat
    BY <1>5
  <2> QED BY <2>4, <2>5, <2>6
<1>13. ASSUME NEW i \in DOMAIN l, Declares(l[i]), NEW c \in l[i].calls
       PROVE  \E p \in DOMAIN r : o[p] = i /\ k[p] > 1 /\ r[p].calls = {c}
  <2>1. Mended(l, i, ss[i]) /\ i \in 1..Len(l)
    BY <1>1, <1>2
  <2>2. PICK j \in 2..Len(ss[i]) : ss[i][j].calls = {c}
    BY <1>13, <2>1 DEF Mended
  <2>3. j \in DOMAIN ss[i] /\ j > 1
    BY <1>8, <2>2
  <2>4. PICK p \in DOMAIN r : o[p] = i /\ k[p] = j
    BY <1>6, <2>1, <2>3 DEF Laid
  <2> QED BY <1>9, <2>2, <2>3, <2>4
<1>14. \A p, q \in DOMAIN r : p < q => o[p] < o[q] \/ (o[p] = o[q] /\ k[p] < k[q])
  BY <1>6 DEF Laid
<1>15. Mapped(l, r, o, k)
  BY <1>5, <1>7, <1>10, <1>11, <1>12, <1>13, <1>14 DEF Mapped
<1> QED BY <1>15 DEF r

\* An answer of the repaired log is behind the message it stands for.
LEMMA Behind ==
  ASSUME NEW l, Good(l), NEW r, NEW o, NEW k, Mapped(l, r, o, k),
         NEW q \in DOMAIN r, r[q].kind = "tool"
  PROVE  \E p \in DOMAIN r : /\ p < q /\ o[p] = o[q] /\ k[p] = 1 /\ r[p] = l[o[q]]
                             /\ q \in Following(r, p) /\ OwnedBy(r, p, q)
<1>1. /\ r \in Seq(Messages) /\ DOMAIN r = 1..Len(r) /\ Len(r) \in Nat
      /\ l \in Seq(Messages) /\ DOMAIN l = 1..Len(l) /\ Len(l) \in Nat
  BY DEF Mapped, Good
<1>2. \A p \in DOMAIN r : o[p] \in DOMAIN l /\ o[p] \in Nat /\ k[p] \in Nat /\ k[p] >= 1
  <2>1. \A p \in DOMAIN r : o[p] \in DOMAIN l /\ k[p] \in Nat /\ k[p] >= 1
    BY DEF Mapped
  <2> QED BY <1>1, <2>1
<1>3. k[q] > 1 /\ Declares(l[o[q]]) /\ l[o[q]].kind # "tool"
  <2>1. k[q] # 1
    BY DEF Mapped
  <2>2. k[q] > 1
    BY <1>2, <2>1
  <2> QED BY <2>2 DEF Mapped, Declares
<1>4. PICK p \in DOMAIN r : o[p] = o[q] /\ k[p] = 1
  BY <1>2, <1>3 DEF Mapped
<1>5. \A a, b \in DOMAIN r : a < b => o[a] < o[b] \/ (o[a] = o[b] /\ k[a] < k[b])
  BY DEF Mapped
<1>6. p < q
  <2>1. ~(q < p)
    BY <1>2, <1>3, <1>4, <1>5
  <2> QED BY <1>1, <1>3, <1>4, <2>1
<1>7. ASSUME NEW x \in p+1..q PROVE r[x].kind = "tool"
  <2>1. x \in DOMAIN r /\ p < x /\ (x < q \/ x = q)
    BY <1>1, <1>4, <1>6
  <2>2. o[x] = o[p] /\ k[x] > 1
    BY <1>2, <1>3, <1>4, <1>5, <2>1
  <2> QED BY <2>1, <2>2 DEF Mapped
<1>8. q \in Following(r, p)
  <2>1. q \in p+1..Len(r)
    BY <1>1, <1>6
  <2> QED BY <1>7, <2>1 DEF Following
<1>9. r[p] = l[o[q]]
  BY <1>4 DEF Mapped
<1>10. OwnedBy(r, p, q)
  BY <1>3, <1>8, <1>9 DEF OwnedBy, Mapped
<1> QED BY <1>4, <1>6, <1>8, <1>9, <1>10

\* A repaired log is good, and begins and ends as the log did.
LEMMA MappedIsGood ==
  ASSUME NEW l, Good(l), NEW r, NEW o, NEW k, Mapped(l, r, o, k)
  PROVE  /\ Good(r) /\ Derived(r, l)
         /\ l # <<>> => r # <<>> /\ r[1] = l[1]
         /\ (l # <<>> /\ Last(l).kind = "human") => r # <<>> /\ Last(r) = Last(l)
<1>1. /\ r \in Seq(Messages) /\ DOMAIN r = 1..Len(r) /\ Len(r) \in Nat
      /\ l \in Seq(Messages) /\ DOMAIN l = 1..Len(l) /\ Len(l) \in Nat
  BY DEF Mapped, Good
<1>2. \A p \in DOMAIN r : /\ o[p] \in DOMAIN l /\ o[p] \in Nat /\ k[p] \in Nat /\ k[p] >= 1
                          /\ r[p].turn = l[o[p]].turn
                          /\ k[p] = 1 => r[p] = l[o[p]] /\ r[p].kind # "tool"
                          /\ k[p] > 1 => r[p].kind = "tool" /\ Declares(l[o[p]])
  <2> SUFFICES ASSUME NEW p \in DOMAIN r
               PROVE  /\ o[p] \in DOMAIN l /\ o[p] \in Nat /\ k[p] \in Nat /\ k[p] >= 1
                      /\ r[p].turn = l[o[p]].turn
                      /\ k[p] = 1 => r[p] = l[o[p]] /\ r[p].kind # "tool"
                      /\ k[p] > 1 => r[p].kind = "tool" /\ Declares(l[o[p]])
    OBVIOUS
  <2>1. o[p] \in DOMAIN l /\ k[p] \in Nat /\ k[p] >= 1
    BY DEF Mapped
  <2>2. k[p] = 1 => r[p] = l[o[p]] /\ r[p].kind # "tool"
    BY DEF Mapped
  <2>3. k[p] > 1 => r[p].kind = "tool" /\ Declares(l[o[p]]) /\ r[p].turn = l[o[p]].turn
    BY DEF Mapped
  <2>4. k[p] = 1 \/ k[p] > 1
    BY <2>1
  <2> QED BY <1>1, <2>1, <2>2, <2>3, <2>4
<1>3. \A a, b \in DOMAIN r : a < b => o[a] < o[b] \/ (o[a] = o[b] /\ k[a] < k[b])
  BY DEF Mapped
<1>4. InTurns(r)
  <2> SUFFICES ASSUME NEW i \in DOMAIN r, NEW j \in DOMAIN r, i < j PROVE r[i].turn <= r[j].turn
    BY DEF InTurns
  <2>1. o[i] < o[j] \/ o[i] = o[j]
    BY <1>3
  <2>2. l[o[i]].turn <= l[o[j]].turn
    <3>1. l[o[i]] \in Messages
      BY <1>1, <1>2
    <3>2. l[o[i]].turn \in Nat
      BY <3>1 DEF Messages
    <3> QED BY <1>2, <2>1, <3>2 DEF Good, InTurns
  <2> QED BY <1>2, <2>2
<1>5. \A p \in DOMAIN r : r[p].kind # "tool" => k[p] = 1 /\ r[p] = l[o[p]]
  <2> SUFFICES ASSUME NEW p \in DOMAIN r, r[p].kind # "tool" PROVE k[p] = 1 /\ r[p] = l[o[p]]
    OBVIOUS
  <2>1. ~(k[p] > 1) /\ k[p] \in Nat /\ k[p] >= 1
    BY <1>2
  <2>2. k[p] = 1
    BY <2>1
  <2> QED BY <1>2, <2>2
<1>6. InRounds(r)
  <2> SUFFICES ASSUME NEW i \in DOMAIN r, NEW j \in DOMAIN r, i < j, r[i].kind = "ai", r[j].kind = "ai"
               PROVE  Before(r[i], r[j])
    BY DEF InRounds
  <2>1. k[i] = 1 /\ k[j] = 1 /\ r[i] = l[o[i]] /\ r[j] = l[o[j]]
    BY <1>5
  <2>2. o[i] < o[j]
    <3>1. o[i] < o[j] \/ k[i] < k[j]
      BY <1>3
    <3> QED BY <2>1, <3>1
  <2> QED BY <1>2, <2>1, <2>2 DEF Good, InRounds
<1>7. Owned(r)
  <2> SUFFICES ASSUME NEW j \in DOMAIN r, r[j].kind = "tool"
               PROVE  \E i \in 1..j-1 : OwnedBy(r, i, j)
    BY DEF Owned
  <2>1. PICK p \in DOMAIN r : p < j /\ OwnedBy(r, p, j)
    BY Behind
  <2>2. p \in 1..j-1
    BY <1>1, <2>1
  <2> QED BY <2>1, <2>2
<1>8. Distinct(r)
  <2> SUFFICES ASSUME NEW i \in DOMAIN r, NEW j \in DOMAIN r, i < j,
                      \A q \in i..j : r[q].kind = "tool", r[i].calls = r[j].calls
               PROVE  FALSE
    BY DEF Distinct
  <2>1. r[i].kind = "tool" /\ r[j].kind = "tool"
    BY <1>1
  <2>2. PICK p \in DOMAIN r : p < j /\ o[p] = o[j] /\ k[p] = 1 /\ r[p] = l[o[j]]
    BY <2>1, Behind
  <2>3. r[p].kind # "tool"
    BY <1>2, <2>2
  <2>4. p < i
    <3>1. ~(p \in i..j)
      BY <2>3
    <3> QED BY <1>1, <2>2, <3>1
  <2>5. o[i] = o[j]
    BY <1>2, <1>3, <2>2, <2>4
  <2>6. k[i] > 1 /\ k[j] > 1
    BY <1>2, <2>1
  <2>7. i = j
    BY <2>5, <2>6 DEF Mapped
  <2> QED BY <1>1, <2>7
<1>9. l # <<>> => r # <<>> /\ r[1] = l[1]
  <2> SUFFICES ASSUME l # <<>> PROVE r # <<>> /\ r[1] = l[1]
    OBVIOUS
  <2>1. 1 \in DOMAIN l /\ l[1].kind # "tool"
    BY <1>1 DEF Good, HeadFirst
  <2>2. PICK p \in DOMAIN r : o[p] = 1 /\ k[p] = 1
    BY <2>1 DEF Mapped
  <2>3. 1 \in DOMAIN r /\ ~(1 < p)
    <3>1. 1 \in DOMAIN r
      BY <1>1, <2>2
    <3>2. o[1] \in 1..Len(l) /\ k[1] \in Nat /\ k[1] >= 1
      BY <1>1, <1>2, <3>1
    <3> QED BY <1>3, <2>2, <3>1, <3>2
  <2>4. p = 1
    BY <1>1, <2>2, <2>3
  <2> QED BY <1>2, <2>2, <2>3, <2>4
<1>10. (l # <<>> /\ Last(l).kind = "human") => r # <<>> /\ Last(r) = Last(l)
  <2> SUFFICES ASSUME l # <<>>, Last(l).kind = "human" PROVE r # <<>> /\ Last(r) = Last(l)
    OBVIOUS
  <2>1. Len(l) \in DOMAIN l /\ l[Len(l)].kind = "human"
    BY <1>1 DEF Last
  <2>2. PICK p \in DOMAIN r : o[p] = Len(l) /\ k[p] = 1
    BY <2>1 DEF Mapped
  <2>3. Len(r) \in DOMAIN r /\ ~(p < Len(r))
    <3>1. Len(r) \in DOMAIN r
      BY <1>1, <2>2
    <3> SUFFICES ASSUME p < Len(r) PROVE FALSE
      BY <3>1
    <3>2. o[Len(r)] \in 1..Len(l)
      BY <1>1, <1>2, <3>1
    <3>3. o[Len(r)] = Len(l) /\ k[Len(r)] > 1
      BY <1>1, <1>3, <2>2, <3>1, <3>2
    <3>4. Declares(l[Len(l)])
      BY <1>2, <3>1, <3>3
    <3> QED BY <2>1, <3>4 DEF Declares
  <2>4. p = Len(r)
    BY <1>1, <2>2, <2>3
  <2>5. r[Len(r)] = l[Len(l)]
    BY <1>2, <2>2, <2>4
  <2> QED BY <2>3, <2>5 DEF Last
<1>11. HeadFirst(r)
  <2> SUFFICES ASSUME r # <<>> PROVE r[1].kind = "head"
    BY DEF HeadFirst
  <2>1. 1 \in DOMAIN r
    BY <1>1
  <2>2. l # <<>>
    BY <1>1, <1>2, <2>1
  <2> QED BY <1>9, <2>2 DEF Good, HeadFirst
<1>12. Derived(r, l)
  <2> SUFFICES ASSUME NEW p \in DOMAIN r
               PROVE  r[p].turn = l[o[p]].turn /\ (r[p].kind = "ai" => r[p] = l[o[p]])
    BY <1>2 DEF Derived
  <2> QED BY <1>2, <1>5
<1> QED BY <1>1, <1>4, <1>6, <1>7, <1>8, <1>9, <1>10, <1>11, <1>12 DEF Good

\* Every call of the repaired log is answered once and directly behind it.
LEMMA MappedIsPaired ==
  ASSUME NEW l, Good(l), NEW r, NEW o, NEW k, Mapped(l, r, o, k)
  PROVE  Paired(r)
<1>1. /\ r \in Seq(Messages) /\ DOMAIN r = 1..Len(r) /\ Len(r) \in Nat
      /\ l \in Seq(Messages) /\ DOMAIN l = 1..Len(l) /\ Len(l) \in Nat
  BY DEF Mapped, Good
<1>2. ASSUME NEW p \in DOMAIN r, Declares(r[p])
      PROVE  /\ Cardinality(Following(r, p)) = Cardinality(r[p].calls)
             /\ UNION {r[j].calls : j \in Following(r, p)} = r[p].calls
  <2> DEFINE run == Following(r, p)
             C == r[p].calls
             at == [c \in C |-> CHOOSE q \in run : r[q].calls = {c}]
  <2>1. r[p].kind # "tool" /\ k[p] \in Nat /\ k[p] >= 1 /\ o[p] \in DOMAIN l
    BY <1>2 DEF Declares, Mapped
  <2>2. k[p] = 1 /\ r[p] = l[o[p]] /\ Declares(l[o[p]])
    <3>1. ~(k[p] > 1)
      BY <2>1 DEF Mapped
    <3>2. k[p] = 1
      BY <2>1, <3>1
    <3> QED BY <1>2, <3>2 DEF Mapped
  \* What follows is what stands behind the call.
  <2>3. ASSUME NEW q \in run
        PROVE  q \in DOMAIN r /\ o[q] = o[p] /\ k[q] > 1 /\ \E c \in C : r[q].calls = {c}
    <3>1. q \in DOMAIN r /\ r[q].kind = "tool"
      <4>1. q \in p+1..Len(r) /\ \A x \in p+1..q : r[x].kind = "tool"
        BY DEF Following
      <4>2. q \in p+1..q
        BY <1>1, <4>1
      <4> QED BY <1>1, <4>1, <4>2
    <3>2. PICK a \in DOMAIN r : /\ o[a] = o[q] /\ q \in Following(r, a) /\ OwnedBy(r, a, q)
      BY <3>1, Behind
    <3>3. a = p
      BY <1>1, <1>2, <3>1, <3>2, OneOwner DEF OwnedBy
    <3>4. k[q] \in Nat /\ k[q] >= 1 /\ k[q] # 1
      BY <3>1 DEF Mapped
    <3> QED BY <3>1, <3>2, <3>3, <3>4 DEF OwnedBy
  <2>4. ASSUME NEW q \in DOMAIN r, o[q] = o[p], k[q] > 1
        PROVE  q \in run
    <3>1. r[q].kind = "tool"
      BY <2>4 DEF Mapped
    <3>2. PICK a \in DOMAIN r : o[a] = o[q] /\ k[a] = 1 /\ q \in Following(r, a)
      BY <3>1, Behind
    <3>3. \A x, y \in DOMAIN r : x < y => o[x] < o[y] \/ (o[x] = o[y] /\ k[x] < k[y])
      BY DEF Mapped
    <3>4. o[a] = o[p] /\ k[a] = k[p] /\ o[a] \in Nat /\ k[a] \in Nat
      BY <1>1, <2>1, <2>2, <2>4, <3>2
    <3>5. ~(a < p) /\ ~(p < a)
      BY <3>3, <3>4
    <3>6. a = p
      BY <1>1, <3>5
    <3> QED BY <3>2, <3>6
  <2>5. \A c \in C : \E q \in run : r[q].calls = {c}
    <3> SUFFICES ASSUME NEW c \in C PROVE \E q \in run : r[q].calls = {c}
      OBVIOUS
    <3>0. c \in l[o[p]].calls
      BY <2>2
    <3>a. \A i \in DOMAIN l : Declares(l[i]) =>
            \A d \in l[i].calls : \E q \in DOMAIN r : o[q] = i /\ k[q] > 1 /\ r[q].calls = {d}
      BY DEF Mapped
    <3>1. PICK q \in DOMAIN r : o[q] = o[p] /\ k[q] > 1 /\ r[q].calls = {c}
      BY <2>1, <2>2, <3>0, <3>a
    <3> QED BY <2>4, <3>1
  <2> HIDE DEF run, C
  <2>6. \A c \in C : at[c] \in run /\ r[at[c]].calls = {c}
    BY <2>5
  <2>7. at \in [C -> run]
    BY <2>6
  <2>8. \A c, d \in C : at[c] = at[d] => c = d
    <3> SUFFICES ASSUME NEW c \in C, NEW d \in C, at[c] = at[d] PROVE c = d
      OBVIOUS
    <3>1. {c} = {d}
      BY <2>6
    <3> QED BY <3>1
  <2>9. \A q \in run : \E c \in C : at[c] = q
    <3> SUFFICES ASSUME NEW q \in run PROVE \E c \in C : at[c] = q
      OBVIOUS
    <3>1. PICK c \in C : r[q].calls = {c}
      BY <2>3
    <3>2. at[c] \in run /\ r[at[c]].calls = r[q].calls
      BY <2>6, <3>1
    <3> HIDE DEF at
    <3>3. at[c] = q
      BY <2>3, <3>2 DEF Mapped
    <3> QED BY <3>3
  <2> HIDE DEF at
  <2>10. ExistsBijection(C, run)
    <3>1. at \in Injection(C, run)
      BY <2>7, <2>8 DEF Injection, IsInjective
    <3>2. at \in Surjection(C, run)
      BY <2>7, <2>9 DEF Surjection
    <3> QED BY <3>1, <3>2 DEF ExistsBijection, Bijection
  <2>11. IsFiniteSet(C)
    <3>1. MaxCalls \in Int /\ r[p] \in Messages
      BY <1>1, AgentTurnAssumption DEF AgentTurnAssumption
    <3>2. C \in SUBSET (1..MaxCalls)
      BY <3>1 DEF C, Messages
    <3>3. IsFiniteSet(1..MaxCalls)
      BY <3>1, FS_Interval
    <3> QED BY <3>2, <3>3, FS_Subset
  <2>12. Cardinality(run) = Cardinality(C)
    BY <2>10, <2>11, FS_Bijection
  <2>13. UNION {r[j].calls : j \in run} = C
    <3>1. \A q \in run : r[q].calls \subseteq C
      BY <2>3
    <3>2. \A c \in C : \E q \in run : c \in r[q].calls
      BY <2>6
    <3> QED BY <3>1, <3>2
  <2> QED BY <2>12, <2>13 DEF run, C
<1>3. ASSUME NEW i \in DOMAIN r, r[i].kind = "tool"
      PROVE  \E j \in 1..i-1 : Declares(r[j]) /\ i \in Following(r, j)
  <2>1. PICK p \in DOMAIN r : p < i /\ OwnedBy(r, p, i)
    BY <1>3, Behind
  <2>2. p \in 1..i-1
    BY <1>1, <2>1
  <2> QED BY <2>1, <2>2 DEF OwnedBy
<1> QED BY <1>2, <1>3 DEF Paired

\* ensure_tool_pairing.
LEMMA PairingIs ==
  ASSUME NEW l, Good(l)
  PROVE  /\ Good(EnsureToolPairing(l)) /\ Paired(EnsureToolPairing(l)) /\ Derived(EnsureToolPairing(l), l)
         /\ l # <<>> => EnsureToolPairing(l) # <<>> /\ EnsureToolPairing(l)[1] = l[1]
         /\ (l # <<>> /\ Last(l).kind = "human") => Last(EnsureToolPairing(l)) = Last(l)
<1>1. PICK o, k : Mapped(l, EnsureToolPairing(l), o, k)
  BY PairingMaps
<1> QED BY <1>1, MappedIsGood, MappedIsPaired

------------------------------------------------------------------------------
(* The head, and cuts *)

\* Positions of which the first is one.
LEMMA CountIn ==
  ASSUME NEW n \in Nat, NEW S \in SUBSET (1..n), 1 \in S
  PROVE  Cardinality(S) \in 1..n
<1>1. IsFiniteSet(1..n) /\ Cardinality(1..n) = n
  <2>1. n \in Int /\ 1 \in Int /\ ~(1 > n)
    OBVIOUS
  <2>2. IsFiniteSet(1..n) /\ Cardinality(1..n) = IF 1 > n THEN 0 ELSE n - 1 + 1
    BY <2>1, FS_Interval
  <2> QED BY <2>1, <2>2
<1>2. IsFiniteSet(S) /\ Cardinality(S) <= n
  BY <1>1, FS_Subset
<1>3. Cardinality(S) \in Nat
  BY <1>2, FS_CardinalityType
<1>4. Cardinality(S) # 0
  BY <1>2, FS_EmptySet
<1> QED BY <1>2, <1>3, <1>4

\* The heads of a log: at least its first message, at most all of it.
LEMMA HeadsAre ==
  ASSUME NEW l, Good(l), l # <<>>
  PROVE  HeadUnits(l) \in 1..Len(l) /\ ProtectedHead(l) \in 1..HeadUnits(l)
<1>1. l \in Seq(Messages) /\ DOMAIN l = 1..Len(l) /\ Len(l) \in Nat /\ 1 \in DOMAIN l /\ l[1].kind = "head"
  BY DEF Good, HeadFirst
<1>2. HeadUnits(l) \in 1..Len(l)
  <2> DEFINE S == {p \in DOMAIN l : \A q \in 1..p : IsSystem(l[q])}
  <2>1. S \in SUBSET (1..Len(l))
    BY <1>1
  <2>2. 1 \in S
    <3>1. \A q \in 1..1 : q = 1
      OBVIOUS
    <3> QED BY <1>1, <3>1 DEF IsSystem, Systems
  <2> HIDE DEF S
  <2>3. Cardinality(S) \in 1..Len(l)
    BY <1>1, <2>1, <2>2, CountIn
  <2> QED BY <2>3 DEF S, HeadUnits
<1>3. ProtectedHead(l) \in 1..HeadUnits(l)
  <2> DEFINE n == HeadUnits(l)
             S == {p \in 1..n : \E q \in p..n : l[q].kind # "summary"}
  <2>1. n \in Nat /\ 1 \in 1..n
    BY <1>1, <1>2
  <2> HIDE DEF n
  <2>2. S \in SUBSET (1..n) /\ 1 \in S
    BY <1>1, <2>1
  <2> HIDE DEF S
  <2>3. Cardinality(S) \in 1..n
    BY <2>1, <2>2, CountIn
  <2> QED BY <2>3 DEF S, n, ProtectedHead
<1> QED BY <1>2, <1>3

\* What a strategy may make of a log.
Reduces(l, f) ==
  Good(f) /\ Derived(f, l) /\ f # <<>> /\ f[1] = l[1] /\ Last(f) = Last(l)

LEMMA ReducesItself == ASSUME NEW l, Good(l), l # <<>> PROVE Reduces(l, l)
BY DEF Reduces, Derived

\* No call is separated from its answers by cutting before p.
Clean(l, p) == \A i \in 1..p-1 : \A q \in DOMAIN l : q >= p => ~OwnedBy(l, i, q)

\* It is not where a unit begins, or a message that is not an answer.
LEMMA CleanCut ==
  ASSUME NEW l, Good(l), NEW p \in DOMAIN l, l[p].kind # "tool" \/ p \in Units(l)
  PROVE  Clean(l, p)
<1>1. l \in Seq(Messages) /\ DOMAIN l = 1..Len(l) /\ Len(l) \in Nat /\ p \in Nat
  BY DEF Good
<1> SUFFICES ASSUME NEW i \in 1..p-1, NEW q \in DOMAIN l, q >= p, OwnedBy(l, i, q) PROVE FALSE
  BY DEF Clean
<1>2. Declares(l[i]) /\ q \in i+1..Len(l) /\ \A x \in i+1..q : l[x].kind = "tool"
  BY DEF OwnedBy, Following
<1>3. p \in i+1..q /\ i \in DOMAIN l /\ p \in i+1..Len(l)
  BY <1>1
<1>4. p \in Units(l)
  BY <1>2, <1>3
<1>5. \A k \in i+1..p : k \in Following(l, i)
  <2> SUFFICES ASSUME NEW k \in i+1..p PROVE k \in Following(l, i)
    OBVIOUS
  <2>1. k \in i+1..Len(l) /\ \A x \in i+1..k : x \in i+1..q
    BY <1>1, <1>3
  <2> QED BY <1>2, <2>1 DEF Following
<1>6. \A k \in i+1..p : l[k].calls \subseteq l[i].calls
  <2> SUFFICES ASSUME NEW k \in i+1..p PROVE l[k].calls \subseteq l[i].calls
    OBVIOUS
  <2>1. OwnedBy(l, i, k)
    BY <1>2, <1>3, <1>5, AnswersAre
  <2> QED BY <2>1 DEF OwnedBy
<1>7. p \in i+1..p
  BY <1>1
<1>8. InUnitOf(l, i, p)
  BY <1>2, <1>5, <1>6, <1>7 DEF InUnitOf
<1> QED BY <1>4, <1>8 DEF Units

\* The first e messages and those from p on.
LEMMA JoinedIs ==
  ASSUME NEW l, Good(l), NEW e \in 1..Len(l), NEW p \in e+1..Len(l), Clean(l, p)
  PROVE  LET g == SubSeq(l, 1, e) \o From(l, p)
         IN  /\ Good(g) /\ Len(g) = e + Len(l) - p + 1
             /\ \A i \in 1..e : g[i] = l[i]
             /\ \A i \in 1..Len(g) : i > e => g[i] = l[i - e + p - 1]
<1> DEFINE g == SubSeq(l, 1, e) \o From(l, p)
           o == [i \in DOMAIN g |-> IF i <= e THEN i ELSE i - e + p - 1]
<1>1. l \in Seq(Messages) /\ DOMAIN l = 1..Len(l) /\ Len(l) \in Nat /\ e \in Nat /\ p \in Nat
  BY DEF Good
<1>2. /\ g \in Seq(Messages) /\ Len(g) = e + Len(l) - p + 1 /\ DOMAIN g = 1..Len(g)
      /\ Len(g) \in Nat
      /\ \A i \in 1..e : g[i] = l[i]
      /\ \A i \in 1..Len(g) : i > e => g[i] = l[i - e + p - 1]
  <2> DEFINE a == SubSeq(l, 1, e)
             b == SubSeq(l, p, Len(l))
  <2>1. a \in Seq(Messages) /\ Len(a) = e /\ \A i \in 1..e : a[i] = l[i]
    BY <1>1
  <2>2. b \in Seq(Messages) /\ Len(b) = Len(l) - p + 1 /\ \A i \in 1..Len(b) : b[i] = l[i + p - 1]
    BY <1>1
  <2> HIDE DEF a, b
  <2>3. /\ a \o b \in Seq(Messages) /\ Len(a \o b) = e + Len(b)
        /\ \A i \in 1..e : (a \o b)[i] = a[i]
        /\ \A i \in 1..(e + Len(b)) : i > e => (a \o b)[i] = b[i - e] /\ i - e \in 1..Len(b)
    <3>1. /\ a \o b \in Seq(Messages) /\ Len(a \o b) = e + Len(b)
          /\ \A i \in 1..(e + Len(b)) : (a \o b)[i] = IF i <= e THEN a[i] ELSE b[i - e]
      BY <2>1, <2>2, ConcatProperties
    <3>2. Len(b) \in Nat
      BY <2>2
    <3>3. \A i \in 1..e : (a \o b)[i] = a[i]
      BY <1>1, <3>1, <3>2
    <3>4. \A i \in 1..(e + Len(b)) : i > e => (a \o b)[i] = b[i - e] /\ i - e \in 1..Len(b)
      BY <1>1, <3>1, <3>2
    <3> QED BY <3>1, <3>3, <3>4
  <2>4. g = a \o b
    BY DEF a, b, From
  <2>5. \A i \in 1..Len(g) : i > e => g[i] = l[i - e + p - 1]
    <3> SUFFICES ASSUME NEW i \in 1..Len(g), i > e PROVE g[i] = l[i - e + p - 1]
      OBVIOUS
    <3>1. g[i] = b[i - e] /\ i - e \in 1..Len(b)
      BY <2>1, <2>2, <2>3, <2>4
    <3> QED BY <2>2, <3>1
  <2>6. g \in Seq(Messages) /\ Len(g) = e + (Len(l) - p + 1)
    BY <2>2, <2>3, <2>4
  <2>7. \A i \in 1..e : g[i] = l[i]
    BY <2>1, <2>3, <2>4
  <2>8. Len(g) \in Nat /\ DOMAIN g = 1..Len(g)
    BY <2>6
  <2>9. e + (Len(l) - p + 1) = e + Len(l) - p + 1
    BY <1>1
  <2> HIDE DEF g
  <2> QED BY <2>5, <2>6, <2>7, <2>8, <2>9
<1> HIDE DEF g
<1>3. \A i \in DOMAIN g : /\ i <= e => o[i] = i
                          /\ i > e => o[i] = i - e + p - 1
                          /\ o[i] \in DOMAIN l /\ g[i] = l[o[i]]
  <2> SUFFICES ASSUME NEW i \in DOMAIN g
               PROVE  /\ i <= e => o[i] = i
                      /\ i > e => o[i] = i - e + p - 1
                      /\ o[i] \in DOMAIN l /\ g[i] = l[o[i]]
    OBVIOUS
  <2>1. i \in 1..Len(g) /\ o[i] = IF i <= e THEN i ELSE i - e + p - 1
    BY <1>2
  <2>2. CASE i <= e
    BY <1>1, <1>2, <2>1, <2>2
  <2>3. CASE i > e
    <3>1. g[i] = l[i - e + p - 1]
      BY <1>2, <2>1, <2>3
    <3>2. i - e + p - 1 \in 1..Len(l) /\ ~(i <= e)
      BY <1>1, <1>2, <2>1, <2>3
    <3> QED BY <1>1, <2>1, <3>1, <3>2
  <2> QED BY <1>1, <1>2, <2>1, <2>2, <2>3
<1>4. o \in [DOMAIN g -> DOMAIN l]
  BY <1>3
<1> HIDE DEF o
<1>5. \A i, j \in DOMAIN g : i < j => o[i] < o[j]
  <2> SUFFICES ASSUME NEW i \in DOMAIN g, NEW j \in DOMAIN g, i < j PROVE o[i] < o[j]
    OBVIOUS
  <2>1. i \in Nat /\ j \in Nat
    BY <1>2
  <2>2. CASE j <= e
    BY <1>1, <1>3, <2>1, <2>2
  <2>3. CASE i <= e /\ j > e
    BY <1>1, <1>3, <2>1, <2>3
  <2>4. CASE i > e
    BY <1>1, <1>3, <2>1, <2>4
  <2> QED BY <1>1, <2>1, <2>2, <2>3, <2>4
<1>6. Thinned(g, l, o)
  BY <1>2, <1>3, <1>4, <1>5 DEF Thinned
<1>7. Whole(g, l, o)
  <2> SUFFICES ASSUME NEW q \in DOMAIN g, NEW i \in 1..o[q]-1, OwnedBy(l, i, o[q])
               PROVE  \E x \in DOMAIN g : o[x] = i
    BY DEF Whole
  <2>1. o[q] \in DOMAIN l /\ q \in 1..Len(g) /\ i \in Nat
    BY <1>1, <1>2, <1>3
  <2>2. CASE i <= e
    <3>1. i \in DOMAIN g
      BY <1>1, <1>2, <2>1, <2>2
    <3> QED BY <1>3, <2>2, <3>1
  <2>3. CASE i > e
    <3>1. o[q] > e
      BY <1>1, <2>1, <2>3
    <3>2. q > e /\ o[q] >= p
      BY <1>1, <1>3, <2>1, <3>1
    <3>3. ~(i \in 1..p-1)
      BY <2>1, <3>2 DEF Clean
    <3>4. i >= p /\ i <= Len(l)
      BY <1>1, <2>1, <3>3
    <3>5. i - p + 1 + e \in DOMAIN g /\ i - p + 1 + e > e /\ (i - p + 1 + e) - e + p - 1 = i
      BY <1>1, <1>2, <2>1, <3>4
    <3> QED BY <1>3, <3>5
  <2> QED BY <1>1, <2>1, <2>2, <2>3
<1>8. HeadFirst(g)
  <2>1. g[1] = l[1] /\ l # <<>>
    BY <1>1, <1>2
  <2> QED BY <2>1 DEF Good, HeadFirst
<1>9. Good(g)
  BY <1>6, <1>7, <1>8, ThinnedIsGood
<1> QED BY <1>2, <1>9 DEF g

\* A summary between two messages of a log.
LEMMA InsertedIs ==
  ASSUME NEW g, Good(g), NEW h \in 1..Len(g), NEW m \in Messages, m.kind = "summary",
         NEW f \in Seq(Messages), Len(f) = Len(g) + 1,
         \A i \in 1..h : f[i] = g[i], f[h + 1] = m, \A i \in h+1..Len(g) : f[i + 1] = g[i],
         g[h].turn <= m.turn,
         h < Len(g) => m.turn <= g[h + 1].turn /\ g[h + 1].kind # "tool"
  PROVE  Good(f)
<1> DEFINE t(i) == IF i <= h THEN i ELSE i - 1
<1>1. /\ g \in Seq(Messages) /\ DOMAIN g = 1..Len(g) /\ Len(g) \in Nat /\ h \in Nat
      /\ DOMAIN f = 1..(Len(g) + 1)
      /\ \A i \in DOMAIN g : g[i].turn \in Nat
      /\ m.turn \in Nat
  <2>1. g \in Seq(Messages)
    BY DEF Good
  <2>2. \A i \in DOMAIN g : g[i] \in Messages
    BY <2>1
  <2>3. DOMAIN g = 1..Len(g) /\ Len(g) \in Nat
    BY <2>1
  <2>4. DOMAIN f = 1..(Len(g) + 1) /\ h \in Nat
    BY <2>3
  <2>5. \A x \in Messages : x.turn \in Nat
    BY DEF Messages
  <2> QED BY <2>1, <2>2, <2>3, <2>4, <2>5
<1>2. \A i \in DOMAIN f : i # h + 1 =>
        /\ t(i) \in DOMAIN g /\ f[i] = g[t(i)] /\ i \in Nat
        /\ i <= h => t(i) = i
        /\ i > h => t(i) = i - 1 /\ t(i) >= h + 1
  <2> SUFFICES ASSUME NEW i \in DOMAIN f, i # h + 1
               PROVE  /\ t(i) \in DOMAIN g /\ f[i] = g[t(i)] /\ i \in Nat
                      /\ i <= h => t(i) = i
                      /\ i > h => t(i) = i - 1 /\ t(i) >= h + 1
    OBVIOUS
  <2>1. CASE i <= h
    BY <1>1, <2>1
  <2>2. CASE i > h
    <3>1. i - 1 \in h+1..Len(g) /\ (i - 1) + 1 = i
      BY <1>1, <2>2
    <3> QED BY <1>1, <2>2, <3>1
  <2> QED BY <1>1, <2>1, <2>2
<1> HIDE DEF t
<1>3. InTurns(f)
  <2> SUFFICES ASSUME NEW i \in DOMAIN f, NEW j \in DOMAIN f, i < j PROVE f[i].turn <= f[j].turn
    BY DEF InTurns
  <2>1. \A a, b \in DOMAIN g : a <= b => g[a].turn <= g[b].turn
    <3> SUFFICES ASSUME NEW a \in DOMAIN g, NEW b \in DOMAIN g, a <= b PROVE g[a].turn <= g[b].turn
      OBVIOUS
    <3>1. CASE a = b
      BY <1>1, <3>1
    <3>2. CASE a < b
      BY <3>2 DEF Good, InTurns
    <3> QED BY <1>1, <3>1, <3>2
  <2>2. CASE i # h + 1 /\ j # h + 1
    <3>1. /\ t(i) \in DOMAIN g /\ f[i] = g[t(i)] /\ i \in Nat
          /\ i <= h => t(i) = i
          /\ i > h => t(i) = i - 1 /\ t(i) >= h + 1
      BY <1>2, <2>2
    <3>2. /\ t(j) \in DOMAIN g /\ f[j] = g[t(j)] /\ j \in Nat
          /\ j <= h => t(j) = j
          /\ j > h => t(j) = j - 1 /\ t(j) >= h + 1
      BY <1>2, <2>2
    <3>3. t(i) <= t(j)
      <4>1. h \in Nat /\ i < j
        BY <1>1
      <4>2. CASE j <= h
        BY <3>1, <3>2, <4>1, <4>2
      <4>3. CASE i > h
        BY <3>1, <3>2, <4>1, <4>3
      <4>4. CASE i <= h /\ j > h
        BY <3>1, <3>2, <4>1, <4>4
      <4> QED BY <3>1, <3>2, <4>1, <4>2, <4>3, <4>4
    <3>4. g[t(i)].turn <= g[t(j)].turn
      BY <2>1, <3>1, <3>2, <3>3
    <3> QED BY <3>1, <3>2, <3>4
  <2>3. CASE i = h + 1
    <3>1. j # h + 1 /\ j > h /\ h < Len(g)
      BY <1>1, <2>3
    <3>2. t(j) \in DOMAIN g /\ h + 1 \in DOMAIN g /\ h + 1 <= t(j) /\ f[j] = g[t(j)]
      BY <1>1, <1>2, <3>1
    <3>3. g[h + 1].turn <= g[t(j)].turn
      BY <2>1, <3>2
    <3>4. m.turn <= g[h + 1].turn /\ g[h + 1].turn \in Nat /\ g[t(j)].turn \in Nat
      BY <1>1, <3>1, <3>2
    <3> QED BY <1>1, <2>3, <3>2, <3>3, <3>4
  <2>4. CASE j = h + 1
    <3>1. i \in DOMAIN g /\ i <= h /\ f[i] = g[i] /\ h \in DOMAIN g
      BY <1>1, <2>4
    <3>2. g[i].turn <= g[h].turn
      BY <2>1, <3>1
    <3> QED BY <1>1, <2>4, <3>1, <3>2
  <2> QED BY <2>2, <2>3, <2>4
<1>4. InRounds(f)
  <2> SUFFICES ASSUME NEW i \in DOMAIN f, NEW j \in DOMAIN f, i < j, f[i].kind = "ai", f[j].kind = "ai"
               PROVE  Before(f[i], f[j])
    BY DEF InRounds
  <2>1. i # h + 1 /\ j # h + 1
    OBVIOUS
  <2>2. /\ t(i) \in DOMAIN g /\ f[i] = g[t(i)] /\ i \in Nat
        /\ i <= h => t(i) = i
        /\ i > h => t(i) = i - 1 /\ t(i) >= h + 1
    BY <1>2, <2>1
  <2>3. /\ t(j) \in DOMAIN g /\ f[j] = g[t(j)] /\ j \in Nat
        /\ j <= h => t(j) = j
        /\ j > h => t(j) = j - 1 /\ t(j) >= h + 1
    BY <1>2, <2>1
  <2>4. t(i) < t(j)
    <3>1. h \in Nat /\ i < j
      BY <1>1
    <3>2. CASE j <= h
      BY <2>2, <2>3, <3>1, <3>2
    <3>3. CASE i > h
      BY <2>2, <2>3, <3>1, <3>3
    <3>4. CASE i <= h /\ j > h
      BY <2>2, <2>3, <3>1, <3>4
    <3> QED BY <2>2, <2>3, <3>1, <3>2, <3>3, <3>4
  <2>5. \A a, b \in DOMAIN g : a < b /\ g[a].kind = "ai" /\ g[b].kind = "ai" => Before(g[a], g[b])
    BY DEF Good, InRounds
  <2> QED BY <2>2, <2>3, <2>4, <2>5
<1>5. ASSUME NEW j \in DOMAIN f, f[j].kind = "tool"
      PROVE  \E i \in 1..j-1 : OwnedBy(f, i, j)
  <2>1. j # h + 1
    BY <1>5
  <2>2. t(j) \in DOMAIN g /\ g[t(j)] = f[j]
    BY <1>2, <2>1
  <2>3. PICK a \in 1..t(j)-1 : OwnedBy(g, a, t(j))
    BY <1>5, <2>2 DEF Good, Owned
  <2>4. Declares(g[a]) /\ a \in Nat /\ t(j) \in a+1..Len(g) /\ \A x \in a+1..t(j) : g[x].kind = "tool"
    BY <1>1, <2>2, <2>3 DEF OwnedBy, Following
  <2>5. CASE j <= h
    <3>1. t(j) = j /\ f[a] = g[a] /\ a \in 1..j-1
      BY <1>1, <1>2, <2>1, <2>3, <2>5
    <3>2. ASSUME NEW x \in a+1..j PROVE f[x].kind = "tool"
      <4>1. x \in 1..h /\ f[x] = g[x]
        BY <1>1, <2>4, <2>5
      <4> QED BY <2>4, <3>1, <4>1
    <3>3. j \in Following(f, a)
      BY <1>1, <2>4, <3>1, <3>2 DEF Following
    <3>4. OwnedBy(f, a, j)
      BY <2>2, <2>3, <3>1, <3>3 DEF OwnedBy
    <3> QED BY <3>1, <3>4
  <2>6. CASE j > h
    <3>1. t(j) = j - 1 /\ t(j) >= h + 1 /\ t(j) \in Nat
      BY <1>1, <1>2, <2>1, <2>6
    <3>2. a >= h + 1
      <4> SUFFICES ASSUME a <= h PROVE FALSE
        BY <1>1, <2>4
      <4>1. h + 1 \in a+1..t(j) /\ h < Len(g)
        BY <1>1, <2>4, <3>1
      <4> QED BY <2>4, <4>1
    <3>3. f[a + 1] = g[a] /\ a + 1 \in 1..j-1
      BY <1>1, <2>3, <2>4, <3>1, <3>2
    <3>4. ASSUME NEW x \in (a+1)+1..j PROVE f[x].kind = "tool"
      <4>1. x - 1 \in h+1..Len(g) /\ (x - 1) + 1 = x /\ x - 1 \in a+1..t(j)
        BY <1>1, <2>4, <3>1, <3>2
      <4>2. f[x] = g[x - 1]
        BY <4>1
      <4> QED BY <2>4, <4>1, <4>2
    <3>5. j \in Following(f, a + 1)
      BY <1>1, <3>3, <3>4 DEF Following
    <3>6. OwnedBy(f, a + 1, j)
      BY <2>2, <2>3, <3>3, <3>5 DEF OwnedBy
    <3> QED BY <3>3, <3>6
  <2> QED BY <1>1, <2>5, <2>6
<1>6. Distinct(f)
  <2> SUFFICES ASSUME NEW j \in DOMAIN f, NEW k \in DOMAIN f, j < k,
                      \A q \in j..k : f[q].kind = "tool"
               PROVE  f[j].calls # f[k].calls
    BY DEF Distinct
  <2>1. ~(h + 1 \in j..k) /\ j # h + 1 /\ k # h + 1
    <3>1. h + 1 \in j..k => FALSE
      OBVIOUS
    <3>2. j \in j..k /\ k \in j..k
      BY <1>1
    <3> QED BY <3>1, <3>2
  <2>2. k <= h \/ j > h + 1
    BY <1>1, <2>1
  <2>3. /\ t(j) \in DOMAIN g /\ t(k) \in DOMAIN g /\ t(j) < t(k)
        /\ f[j] = g[t(j)] /\ f[k] = g[t(k)]
        /\ k <= h => t(j) = j /\ t(k) = k
        /\ j > h + 1 => t(j) = j - 1 /\ t(k) = k - 1 /\ j \in Nat /\ k \in Nat /\ k <= Len(g) + 1
    <3>1. /\ t(j) \in DOMAIN g /\ f[j] = g[t(j)] /\ (j <= h => t(j) = j) /\ (j > h => t(j) = j - 1)
          /\ t(k) \in DOMAIN g /\ f[k] = g[t(k)] /\ (k <= h => t(k) = k) /\ (k > h => t(k) = k - 1)
      BY <1>2, <2>1
    <3>2. j \in Nat /\ k \in Nat /\ k <= Len(g) + 1
      BY <1>1
    <3> QED BY <1>1, <2>2, <3>1, <3>2
  <2>4. ASSUME NEW q \in t(j)..t(k) PROVE g[q].kind = "tool"
    <3>1. CASE k <= h
      <4>1. q \in j..k /\ q \in 1..h
        BY <1>1, <2>3, <3>1
      <4> QED BY <4>1
    <3>2. CASE j > h + 1
      <4>1. q + 1 \in j..k /\ q \in h+1..Len(g)
        <5>1. /\ q \in (j - 1)..(k - 1) /\ q \in Nat /\ j \in Nat /\ k \in Nat
              /\ h \in Nat /\ Len(g) \in Nat /\ k <= Len(g) + 1
          BY <1>1, <2>3, <2>4, <3>2
        <5> QED BY <3>2, <5>1
      <4>2. f[q + 1] = g[q]
        BY <4>1
      <4>3. f[q + 1].kind = "tool"
        BY <4>1
      <4> QED BY <4>2, <4>3
    <3> QED BY <2>2, <3>1, <3>2
  <2>5. g[t(j)].calls # g[t(k)].calls
    <3>1. t(j) \in DOMAIN g /\ t(k) \in DOMAIN g /\ t(j) < t(k)
      BY <2>3
    <3>2. Distinct(g)
      BY DEF Good
    <3> HIDE DEF t
    <3> QED BY <2>4, <3>1, <3>2 DEF Distinct
  <2> QED BY <2>3, <2>5
<1>7. HeadFirst(f)
  <2>1. f[1] = g[1] /\ g # <<>>
    BY <1>1
  <2> QED BY <2>1 DEF Good, HeadFirst
<1> QED BY <1>3, <1>4, <1>5, <1>6, <1>7 DEF Good, Owned

------------------------------------------------------------------------------
(* The strategies *)

\* Two stretches of a log, and a message between two sequences.
LEMMA SplitIs ==
  ASSUME NEW l \in Seq(Messages), NEW e \in 1..Len(l)
  PROVE  SubSeq(l, 1, e) \o SubSeq(l, e + 1, Len(l)) = l
<1> DEFINE a == SubSeq(l, 1, e)
           b == SubSeq(l, e + 1, Len(l))
<1>1. e \in Nat /\ Len(l) \in Nat /\ e <= Len(l)
  OBVIOUS
<1>2. a \in Seq(Messages) /\ Len(a) = e /\ \A i \in 1..e : a[i] = l[i]
  BY <1>1
<1>3. CASE e = Len(l)
  <2>1. b = <<>> /\ a = l
    <3>1. a = l
      BY <1>1, <1>2, <1>3, SeqEqual
    <3>2. b = <<>>
      BY <1>1, <1>3
    <3> QED BY <3>1, <3>2
  <2> HIDE DEF a, b
  <2>2. a \o b = l
    BY <2>1, ConcatEmptySeq
  <2> QED BY <2>2 DEF a, b
<1>4. CASE e < Len(l)
  <2>1. PICK p \in Nat : p = e + 1
    BY <1>1
  <2>2. p \in 1..Len(l)
    BY <1>1, <1>4, <2>1
  <2>3. b \in Seq(Messages) /\ Len(b) = Len(l) - p + 1 /\ \A i \in 1..Len(b) : b[i] = l[i + p - 1]
    BY <1>1, <2>1, <2>2
  <2> HIDE DEF a, b
  <2>4. /\ a \o b \in Seq(Messages) /\ Len(a \o b) = Len(a) + Len(b)
        /\ \A i \in 1..Len(a)+Len(b) : (a \o b)[i] = IF i <= Len(a) THEN a[i] ELSE b[i - Len(a)]
    BY <1>2, <2>3, ConcatProperties
  <2>5. Len(a) + Len(b) = Len(l)
    BY <1>1, <1>2, <2>1, <2>3
  <2>6. ASSUME NEW i \in 1..Len(l) PROVE (a \o b)[i] = l[i]
    <3>1. (a \o b)[i] = IF i <= e THEN a[i] ELSE b[i - e]
      BY <1>2, <2>4, <2>5
    <3>2. CASE i <= e
      BY <1>1, <1>2, <3>1, <3>2
    <3>3. CASE i > e
      <4>1. i \in Nat /\ i <= Len(l) /\ Len(b) = Len(l) - p + 1
        BY <1>1, <2>3
      <4>2. i - e \in 1..Len(b) /\ (i - e) + p - 1 = i
        BY <1>1, <2>1, <3>3, <4>1
      <4>3. b[i - e] = l[(i - e) + p - 1]
        BY <2>3, <4>2
      <4>4. ~(i <= e)
        BY <1>1, <3>3, <4>1
      <4>5. b[i - e] = l[i]
        BY <4>2, <4>3
      <4> QED BY <3>1, <4>4, <4>5
    <3>4. i <= e \/ i > e
      BY <1>1
    <3> QED BY <3>2, <3>3, <3>4
  <2>7. a \o b = l
    BY <2>4, <2>5, <2>6, SeqEqual
  <2> QED BY <2>7 DEF a, b
<1> QED BY <1>1, <1>3, <1>4

LEMMA BetweenIs ==
  ASSUME NEW a \in Seq(Messages), NEW b \in Seq(Messages), NEW s \in Messages, NEW e \in Nat,
         Len(a) = e
  PROVE  /\ a \o <<s>> \o b \in Seq(Messages) /\ Len(a \o <<s>> \o b) = e + 1 + Len(b)
         /\ \A i \in 1..e : (a \o <<s>> \o b)[i] = a[i]
         /\ (a \o <<s>> \o b)[e + 1] = s
         /\ \A i \in 1..Len(b) : (a \o <<s>> \o b)[i + e + 1] = b[i]
<1> DEFINE c == a \o <<s>>
<1>1. c \in Seq(Messages) /\ Len(c) = e + 1 /\ (\A i \in 1..e : c[i] = a[i]) /\ c[e + 1] = s
  OBVIOUS
<1> HIDE DEF c
<1>2. Len(b) \in Nat
  OBVIOUS
<1>3. c \o b \in Seq(Messages) /\ Len(c \o b) = e + 1 + Len(b)
  BY <1>1, <1>2
<1>4. \A i \in 1..e+1 : (c \o b)[i] = c[i]
  BY <1>1, <1>2
<1>5. ASSUME NEW i \in 1..Len(b) PROVE (c \o b)[i + e + 1] = b[i]
  <2>1. i + e + 1 \in e+2..e+1+Len(b) /\ (i + e + 1) - (e + 1) = i
    BY <1>2
  <2> QED BY <1>1, <1>2, <2>1
<1>6. \A i \in 1..e : (c \o b)[i] = a[i]
  BY <1>1, <1>4
<1>7. (c \o b)[e + 1] = s
  BY <1>1, <1>4
<1> QED BY <1>3, <1>5, <1>6, <1>7 DEF c

\* sliding_window.
LEMMA SlidingIs ==
  ASSUME NEW l, Good(l), l # <<>>, NEW f \in SlidingWindow(l)
  PROVE  Reduces(l, f)
<1> DEFINE e == HeadUnits(l)
<1>1. l \in Seq(Messages) /\ DOMAIN l = 1..Len(l) /\ Len(l) \in Nat
  BY DEF Good
<1>2. e \in 1..Len(l)
  BY HeadsAre
<1>3. PICK cut \in {p \in Units(l) : p > e} \cup {e + 1} : f = SubSeq(l, 1, e) \o From(l, cut)
  BY DEF SlidingWindow
<1> HIDE DEF e
<1>4. CASE cut \in Units(l) /\ cut > e
  <2>1. cut \in DOMAIN l /\ cut \in e+1..Len(l)
    BY <1>1, <1>2, <1>4 DEF Units
  <2>7. e \in Nat /\ cut \in Nat /\ Len(l) \in Nat /\ 1 <= e /\ e < cut /\ cut <= Len(l)
    BY <1>1, <1>2, <2>1
  <2>2. Clean(l, cut)
    BY <1>4, <2>1, CleanCut
  <2>3. /\ Good(f) /\ Len(f) = e + Len(l) - cut + 1
        /\ \A i \in 1..e : f[i] = l[i]
        /\ \A i \in 1..Len(f) : i > e => f[i] = l[i - e + cut - 1]
    BY <1>2, <1>3, <2>1, <2>2, JoinedIs
  <2>4. f[1] = l[1] /\ f # <<>>
    BY <1>1, <1>2, <2>1, <2>3
  <2>5. Last(f) = Last(l)
    <3>1. Len(f) \in 1..Len(f) /\ Len(f) > e /\ Len(f) - e + cut - 1 = Len(l)
      BY <2>3, <2>7
    <3> QED BY <2>3, <3>1 DEF Last
  <2>6. Derived(f, l)
    <3>1. DOMAIN f = 1..Len(f)
      BY <2>3 DEF Good
    <3>2. ASSUME NEW p \in DOMAIN f PROVE \E i \in DOMAIN l : f[p] = l[i]
      <4>1. CASE p <= e
        <5>1. p \in 1..e /\ p \in DOMAIN l
          BY <1>1, <2>7, <3>1, <4>1
        <5> QED BY <2>3, <5>1
      <4>2. CASE p > e
        <5>1. p - e + cut - 1 \in DOMAIN l
          <6>1. p \in Nat /\ p <= e + Len(l) - cut + 1
            BY <2>3, <2>7, <3>1
          <6>2. p - e + cut - 1 \in 1..Len(l)
            BY <2>7, <4>2, <6>1
          <6> QED BY <1>1, <6>2
        <5> QED BY <2>3, <3>1, <4>2, <5>1
      <4> QED BY <2>7, <3>1, <4>1, <4>2
    <3> QED BY <3>2 DEF Derived
  <2> QED BY <2>3, <2>4, <2>5, <2>6 DEF Reduces
<1>5. CASE cut = e + 1
  <2>1. f = l
    <3>1. SubSeq(l, 1, e) \o SubSeq(l, e + 1, Len(l)) = l
      BY <1>1, <1>2, SplitIs
    <3> QED BY <1>3, <1>5, <3>1 DEF From
  <2> QED BY <2>1, ReducesItself
<1> QED BY <1>3, <1>4, <1>5

\* The turns begin behind the head, with messages that answer no call.
LEMMA TurnsAre ==
  ASSUME NEW l, Good(l), l # <<>>
  PROVE  \/ Turns(l) = {ProtectedHead(l) + 1}
         \/ /\ Turns(l) # {}
            /\ \A p \in Turns(l) : p \in ProtectedHead(l)+1..Len(l) /\ l[p].kind # "tool"
<1> DEFINE e == ProtectedHead(l)
           human == {p \in e+1..Len(l) : l[p].kind = "human"}
           injected(p) == {q \in e+1..p : \A r \in q..p-1 : IsSystem(l[r])}
<1>1. Turns(l) = IF human = {} THEN {e + 1} ELSE {Min(injected(p)) : p \in human}
  BY DEF Turns
<1>2. e \in Nat /\ Len(l) \in Nat
  <2>1. e \in 1..HeadUnits(l) /\ Len(l) \in Nat
    BY HeadsAre DEF Good
  <2> QED BY <2>1
<1>3. CASE human = {}
  BY <1>1, <1>3
<1>4. CASE human # {}
  <2>1. ASSUME NEW p \in human
        PROVE  Min(injected(p)) \in e+1..Len(l) /\ l[Min(injected(p))].kind # "tool"
    <3>1. p \in e+1..Len(l) /\ l[p].kind = "human"
      OBVIOUS
    <3>2. p \in injected(p) /\ injected(p) \subseteq Nat
      BY <1>2, <3>1
    <3>3. \E m \in injected(p) : \A n \in injected(p) : m <= n
      <4> HIDE DEF injected
      <4> QED BY <3>2, LeastOf
    <3>4. Min(injected(p)) \in injected(p)
      BY <3>3 DEF Min
    <3>5. PICK q : q = Min(injected(p))
      OBVIOUS
    <3>6. q \in e+1..p /\ \A r \in q..p-1 : IsSystem(l[r])
      BY <3>4, <3>5
    <3>7. l[q].kind # "tool"
      <4>1. CASE q = p
        BY <3>1, <4>1
      <4>2. CASE q # p
        <5>1. q \in q..p-1
          BY <1>2, <3>1, <3>6, <4>2
        <5>2. IsSystem(l[q])
          BY <3>6, <5>1
        <5> QED BY <5>2 DEF IsSystem, Systems
      <4> QED BY <4>1, <4>2
    <3>8. q \in e+1..Len(l)
      BY <1>2, <3>1, <3>6
    <3> QED BY <3>5, <3>7, <3>8
  <2>2. Turns(l) = {Min(injected(p)) : p \in human}
    BY <1>1, <1>4
  <2> HIDE DEF human, injected
  <2> QED BY <1>4, <2>1, <2>2
<1> QED BY <1>3, <1>4

\* full_summary and summary_recent.
LEMMA SummarisedIs ==
  ASSUME NEW l, Good(l), l # <<>>, NEW recent, NEW f \in Summarised(l, recent)
  PROVE  Reduces(l, f)
<1> DEFINE e == ProtectedHead(l)
           m == Min(Turns(l))
           middle(p) == SubSeq(l, m, p - 1)
<1>1. l \in Seq(Messages) /\ DOMAIN l = 1..Len(l) /\ Len(l) \in Nat
  BY DEF Good
<1>2. PICK p \in Turns(l) : f = IF middle(p) = <<>> THEN l
                                ELSE SubSeq(l, 1, e) \o <<SummaryOf(middle(p))>> \o From(l, p)
  BY DEF Summarised
<1>3. e \in 1..Len(l)
  <2>1. HeadUnits(l) \in 1..Len(l) /\ e \in 1..HeadUnits(l)
    BY HeadsAre
  <2> QED BY <1>1, <2>1
<1>4. CASE middle(p) = <<>>
  BY <1>2, <1>4, ReducesItself
<1>5. CASE middle(p) # <<>>
  <2>1. Turns(l) # {e + 1}
    <3> SUFFICES ASSUME Turns(l) = {e + 1} PROVE FALSE
      OBVIOUS
    <3>1. p = e + 1 /\ m = e + 1
      BY <1>2 DEF Min
    <3>2. SubSeq(l, e + 1, (e + 1) - 1) = <<>>
      BY <1>1, <1>3
    <3> QED BY <1>5, <3>1, <3>2
  <2>2. \A q \in Turns(l) : q \in e+1..Len(l) /\ l[q].kind # "tool"
    BY <2>1, TurnsAre
  <2>3. m \in Turns(l) /\ m <= p
    <3>1. Turns(l) \subseteq Nat
      BY <1>3, <2>2
    <3>2. \E x \in Turns(l) : \A y \in Turns(l) : x <= y
      BY <1>2, <3>1, LeastOf
    <3> QED BY <1>2, <3>2 DEF Min
  <2>4. m \in e+1..Len(l) /\ p \in e+1..Len(l) /\ l[p].kind # "tool" /\ p \in DOMAIN l
    BY <1>1, <1>3, <2>2, <2>3
  <2>5. m < p
    <3> SUFFICES ASSUME m = p PROVE FALSE
      BY <1>1, <1>3, <2>3, <2>4
    <3>1. SubSeq(l, p, p - 1) = <<>>
      BY <1>1, <1>3, <2>4
    <3> QED BY <1>5, <3>1
  <2> DEFINE s == SummaryOf(middle(p))
             g == SubSeq(l, 1, e) \o From(l, p)
  <2> HIDE DEF e, m
  <2>20. /\ e \in Nat /\ m \in Nat /\ p \in Nat /\ Len(l) \in Nat
         /\ 1 <= e /\ e < m /\ m < p /\ p <= Len(l)
    BY <1>1, <1>3, <2>4, <2>5
  <2>6. s = Message("summary", l[p - 1].turn, 0, {})
    <3>1. Len(middle(p)) = p - m /\ middle(p)[p - m] = l[p - 1]
      BY <1>1, <2>20
    <3>2. p - m = Len(middle(p))
      BY <3>1
    <3> QED BY <3>1, <3>2 DEF SummaryOf, Last
  <2>7. /\ s \in Messages /\ s.kind = "summary" /\ s.turn = l[p - 1].turn
        /\ p - 1 \in DOMAIN l
    <3>1. p - 1 \in DOMAIN l
      BY <1>1, <2>20
    <3>2. l[p - 1] \in Messages
      BY <1>1, <3>1
    <3>3. l[p - 1].turn \in Nat /\ "summary" \in Kinds /\ {} \in SUBSET (1..MaxCalls)
      BY <3>2 DEF Messages, Kinds, Systems
    <3> QED BY <2>6, <3>1, <3>3 DEF Message, Messages
  <2> HIDE DEF s
  <2>8. Clean(l, p)
    BY <2>4, CleanCut
  <2>9. /\ Good(g) /\ Len(g) = e + Len(l) - p + 1
        /\ \A i \in 1..e : g[i] = l[i]
        /\ \A i \in 1..Len(g) : i > e => g[i] = l[i - e + p - 1]
    BY <1>3, <2>4, <2>8, JoinedIs
  <2> HIDE DEF g
  <2>10. f = SubSeq(l, 1, e) \o <<s>> \o SubSeq(l, p, Len(l))
    BY <1>2, <1>5 DEF s, From
  <2>11. /\ f \in Seq(Messages) /\ Len(f) = e + 1 + (Len(l) - p + 1)
         /\ \A i \in 1..e : f[i] = l[i]
         /\ f[e + 1] = s
         /\ \A i \in p..Len(l) : f[i - p + e + 2] = l[i]
    <3> DEFINE a == SubSeq(l, 1, e)
               b == SubSeq(l, p, Len(l))
    <3>1. a \in Seq(Messages) /\ Len(a) = e /\ \A i \in 1..e : a[i] = l[i]
      BY <1>1, <2>20
    <3>2. b \in Seq(Messages) /\ Len(b) = Len(l) - p + 1 /\ \A i \in 1..Len(b) : b[i] = l[i + p - 1]
      BY <1>1, <2>20
    <3> HIDE DEF a, b
    <3>3. /\ a \o <<s>> \o b \in Seq(Messages) /\ Len(a \o <<s>> \o b) = e + 1 + Len(b)
          /\ \A i \in 1..e : (a \o <<s>> \o b)[i] = a[i]
          /\ (a \o <<s>> \o b)[e + 1] = s
          /\ \A i \in 1..Len(b) : (a \o <<s>> \o b)[i + e + 1] = b[i]
      <4>1. a \in Seq(Messages) /\ b \in Seq(Messages) /\ s \in Messages /\ e \in Nat /\ Len(a) = e
        BY <2>7, <2>20, <3>1, <3>2
      <4> HIDE DEF middle
      <4> QED BY <4>1, BetweenIs
    <3>4. f = a \o <<s>> \o b
      BY <2>10 DEF a, b
    <3>5. ASSUME NEW i \in p..Len(l) PROVE f[i - p + e + 2] = l[i]
      <4>1. i - p + 1 \in 1..Len(b) /\ (i - p + 1) + e + 1 = i - p + e + 2 /\ (i - p + 1) + p - 1 = i
        BY <2>20, <3>2
      <4>2. f[(i - p + 1) + e + 1] = b[i - p + 1]
        BY <3>3, <3>4, <4>1
      <4>3. b[i - p + 1] = l[(i - p + 1) + p - 1]
        BY <3>2, <4>1
      <4> QED BY <4>1, <4>2, <4>3
    <3> QED BY <3>1, <3>2, <3>3, <3>4, <3>5
  <2>12. e \in 1..Len(g) /\ Len(f) = Len(g) + 1 /\ e < Len(g) /\ Len(g) \in Nat
    BY <2>9, <2>11, <2>20
  <2>13. \A i \in e+1..Len(g) : f[i + 1] = g[i]
    <3> SUFFICES ASSUME NEW i \in e+1..Len(g) PROVE f[i + 1] = g[i]
      OBVIOUS
    <3>1. i \in 1..Len(g) /\ i > e /\ i - e + p - 1 \in p..Len(l)
      BY <2>9, <2>20
    <3>2. (i - e + p - 1) - p + e + 2 = i + 1
      BY <2>12, <2>20
    <3>3. f[(i - e + p - 1) - p + e + 2] = l[i - e + p - 1]
      BY <2>11, <3>1
    <3>4. g[i] = l[i - e + p - 1]
      BY <2>9, <3>1
    <3> QED BY <3>2, <3>3, <3>4
  <2>14. g[e] = l[e] /\ g[e + 1] = l[p]
    <3>1. e \in 1..e /\ e + 1 \in 1..Len(g) /\ e + 1 > e /\ (e + 1) - e + p - 1 = p
      BY <2>12, <2>20
    <3>2. g[e + 1] = l[(e + 1) - e + p - 1]
      BY <2>9, <3>1
    <3> QED BY <2>9, <3>1, <3>2
  <2>15. g[e].turn <= s.turn /\ s.turn <= g[e + 1].turn
    <3>1. \A i, j \in DOMAIN l : i < j => l[i].turn <= l[j].turn
      BY DEF Good, InTurns
    <3>2. p - 1 < p /\ (e < p - 1 \/ e = p - 1) /\ e \in DOMAIN l
      BY <1>1, <2>20
    <3>3. \A i \in DOMAIN l : l[i].turn \in Nat
      <4>1. \A i \in DOMAIN l : l[i] \in Messages
        BY <1>1
      <4> QED BY <4>1 DEF Messages
    <3>4. l[p - 1].turn <= l[p].turn
      BY <2>4, <2>7, <3>1, <3>2
    <3>5. l[e].turn <= l[p - 1].turn
      BY <2>7, <3>1, <3>2, <3>3
    <3> QED BY <2>7, <2>14, <3>4, <3>5
  <2>16. \A i \in 1..e : f[i] = g[i]
    BY <2>9, <2>11
  <2>17. Good(f)
    <3>1. Good(g) /\ e \in 1..Len(g) /\ s \in Messages /\ s.kind = "summary"
      BY <2>7, <2>9, <2>12
    <3>2. f \in Seq(Messages) /\ Len(f) = Len(g) + 1 /\ f[e + 1] = s
      BY <2>11, <2>12
    <3>3. g[e].turn <= s.turn /\ s.turn <= g[e + 1].turn /\ g[e + 1].kind # "tool"
      BY <2>4, <2>14, <2>15
    <3> HIDE DEF g
    <3> QED BY <2>13, <2>16, <3>1, <3>2, <3>3, InsertedIs
  <2>18. f[1] = l[1] /\ f # <<>> /\ Last(f) = Last(l)
    <3>1. f[1] = l[1] /\ f # <<>>
      <4>1. Len(f) # 0 /\ 1 \in 1..e
        BY <2>11, <2>20
      <4>2. f # <<>>
        BY <4>1
      <4> QED BY <2>11, <4>1, <4>2
    <3>2. Len(l) \in p..Len(l) /\ Len(l) - p + e + 2 = Len(f)
      BY <2>11, <2>20
    <3>3. f[Len(l) - p + e + 2] = l[Len(l)]
      BY <2>11, <3>2
    <3> QED BY <3>1, <3>2, <3>3 DEF Last
  <2>19. Derived(f, l)
    <3> SUFFICES ASSUME NEW q \in DOMAIN f
                 PROVE  \E i \in DOMAIN l : f[q].turn = l[i].turn /\ (f[q].kind = "ai" => f[q] = l[i])
      BY DEF Derived
    <3>1. q \in 1..Len(f)
      BY <2>11
    <3>5. q \in Nat /\ q <= e + 1 + (Len(l) - p + 1) /\ 1 <= q
      BY <2>11, <2>20, <3>1
    <3>2. CASE q <= e
      <4>1. q \in 1..e /\ q \in DOMAIN l
        BY <1>1, <2>20, <3>2, <3>5
      <4> QED BY <2>11, <4>1
    <3>3. CASE q = e + 1
      BY <2>7, <2>11, <3>3
    <3>4. CASE q > e + 1
      <4>1. q + p - e - 2 \in p..Len(l) /\ (q + p - e - 2) - p + e + 2 = q
        BY <2>20, <3>4, <3>5
      <4>2. f[q] = l[q + p - e - 2]
        BY <2>11, <4>1
      <4>3. q + p - e - 2 \in DOMAIN l
        BY <1>1, <2>20, <4>1
      <4> QED BY <4>2, <4>3
    <3> QED BY <2>20, <3>2, <3>3, <3>4, <3>5
  <2> QED BY <2>17, <2>18, <2>19 DEF Reduces
<1> QED BY <1>4, <1>5

\* Every strategy.
LEMMA CompressedIs ==
  ASSUME NEW l, Good(l), l # <<>>, NEW s \in Strategies, NEW f \in Compressed(s, l)
  PROVE  Reduces(l, f)
<1>1. f \in SlidingWindow(l) \/ f \in Summarised(l, 1) \/ f \in Summarised(l, RecentTurns)
  BY DEF Compressed, Strategies
<1> QED BY <1>1, SlidingIs, SummarisedIs

\* What the checkpoint is after an update.
LEMMA ReplaceIs ==
  ASSUME NEW l, Good(l), l # <<>>, NEW f, Good(f), Derived(f, l), f # <<>>, f[1] = l[1]
  PROVE  /\ Good(Replace(l, l, f)) /\ Derived(Replace(l, l, f), l)
         /\ Last(f) \in ToSet(Replace(l, l, f))
         /\ Replace(l, l, f) # <<>>
<1>1. /\ l \in Seq(Messages) /\ DOMAIN l = 1..Len(l) /\ Len(l) \in Nat /\ 1 \in DOMAIN l
      /\ f \in Seq(Messages) /\ DOMAIN f = 1..Len(f) /\ Len(f) \in Nat /\ 1 \in DOMAIN f
  <2>1. l \in Seq(Messages) /\ f \in Seq(Messages)
    BY DEF Good
  <2> QED BY <2>1
<1>2. Last(f) \in ToSet(f) /\ Len(f) \in DOMAIN f
  BY <1>1 DEF Last, ToSet
<1>3. CASE ToSet(f) \subseteq ToSet(l)
  <2> DEFINE kept == {i \in DOMAIN l : l[i] \notin ToSet(l) \ ToSet(f)}
             r == Sift(l, kept)
  <2>1. Replace(l, l, f) = r
    BY <1>3 DEF Replace
  <2>2. \A i \in DOMAIN l : i \in kept <=> l[i] \in ToSet(f)
    BY DEF ToSet
  <2>13. r = Sift(l, kept)
    OBVIOUS
  <2> HIDE DEF kept, r
  <2>3. PICK o : /\ Thinned(r, l, o)
                 /\ \A p \in DOMAIN r : o[p] \in kept
                 /\ \A i \in DOMAIN l : i \in kept => \E p \in DOMAIN r : o[p] = i
    BY <1>1, <2>13, SiftIs
  <2>4. \A p \in DOMAIN r : o[p] \in DOMAIN l /\ r[p] = l[o[p]] /\ l[o[p]] \in ToSet(f)
    BY <2>2, <2>3 DEF Thinned
  <2>5. \A i \in DOMAIN l : l[i] \in ToSet(f) => \E p \in DOMAIN r : o[p] = i /\ r[p] = l[i]
    BY <2>2, <2>3, <2>4
  \* The call of an answer that stays stays too.
  <2>6. Whole(r, l, o)
    <3> SUFFICES ASSUME NEW q \in DOMAIN r, NEW i \in 1..o[q]-1, r[q].kind = "tool", OwnedBy(l, i, o[q])
                 PROVE  \E p \in DOMAIN r : o[p] = i
      BY DEF Whole
    <3>1. o[q] \in DOMAIN l /\ r[q] = l[o[q]] /\ l[o[q]] \in ToSet(f)
      BY <2>4
    <3>2. PICK x \in DOMAIN f : f[x] = l[o[q]]
      BY <3>1 DEF ToSet
    <3>3. PICK y \in 1..x-1 : OwnedBy(f, y, x)
      BY <3>1, <3>2 DEF Good, Owned
    <3>4. y \in DOMAIN f /\ i \in DOMAIN l /\ Declares(f[y]) /\ Declares(l[i])
      BY <1>1, <3>1, <3>3 DEF OwnedBy
    <3>5. PICK z \in DOMAIN l : l[z] = f[y]
      BY <3>4, <1>3 DEF ToSet
    <3>6. l[z].turn = l[i].turn /\ l[z].round = l[i].round /\ l[z].kind = "ai" /\ l[i].kind = "ai"
      BY <3>2, <3>3, <3>4, <3>5 DEF OwnedBy, Declares
    <3>7. l[z].turn \in Nat /\ l[z].round \in Nat
      <4>1. l[z] \in Messages
        BY <1>1, <3>5
      <4> QED BY <4>1 DEF Messages
    <3>8. ~Before(l[z], l[i]) /\ ~Before(l[i], l[z])
      BY <3>6, <3>7 DEF Before
    <3>9. ~(z < i) /\ ~(i < z)
      BY <3>4, <3>5, <3>6, <3>8 DEF Good, InRounds
    <3>10. z = i
      BY <1>1, <3>4, <3>5, <3>9
    <3>11. l[i] \in ToSet(f)
      BY <3>4, <3>5, <3>10 DEF ToSet
    <3> QED BY <2>5, <3>4, <3>11
  <2>7. \E p \in DOMAIN r : o[p] = 1
    BY <1>1, <2>5 DEF ToSet
  <2>8. r \in Seq(Messages) /\ DOMAIN r = 1..Len(r) /\ Len(r) \in Nat
    BY <2>3 DEF Thinned
  <2>9. HeadFirst(r) /\ r # <<>>
    <3>1. PICK p \in DOMAIN r : o[p] = 1
      BY <2>7
    <3>2. 1 \in DOMAIN r /\ r # <<>>
      BY <2>8, <3>1
    <3>3. ~(1 < p)
      <4>1. o[1] \in DOMAIN l /\ (1 < p => o[1] < o[p])
        BY <2>3, <2>4, <3>1, <3>2 DEF Thinned
      <4> QED BY <1>1, <3>1, <4>1
    <3>4. p = 1
      BY <2>8, <3>1, <3>3
    <3>5. r[1] = l[1]
      BY <2>4, <3>1, <3>4
    <3> QED BY <3>2, <3>5 DEF Good, HeadFirst
  <2>10. Good(r)
    BY <2>3, <2>6, <2>9, ThinnedIsGood
  <2>11. Derived(r, l)
    BY <2>4 DEF Derived
  <2>12. Last(f) \in ToSet(r)
    <3>1. PICK i \in DOMAIN l : l[i] = Last(f)
      BY <1>2, <1>3 DEF ToSet
    <3>2. PICK p \in DOMAIN r : r[p] = l[i]
      BY <1>2, <2>5, <3>1
    <3> QED BY <3>1, <3>2 DEF ToSet
  <2> QED BY <2>1, <2>9, <2>10, <2>11, <2>12
<1>4. CASE ~(ToSet(f) \subseteq ToSet(l))
  <2> DEFINE none == {i \in DOMAIN l : l[i] \notin ToSet(l)}
  <2>1. Replace(l, l, f) = Sift(l, none) \o f
    BY <1>4 DEF Replace
  <2>2. none = {}
    BY DEF ToSet
  <2> HIDE DEF none
  <2>3. PICK o : /\ Thinned(Sift(l, none), l, o)
                 /\ \A p \in DOMAIN Sift(l, none) : o[p] \in none
    BY <1>1, SiftIs
  <2>4. Sift(l, none) \in Seq(Messages) /\ DOMAIN Sift(l, none) = {}
    BY <2>2, <2>3 DEF Thinned
  <2> HIDE DEF none
  <2>5. Sift(l, none) = <<>>
    BY <2>4
  <2>6. Replace(l, l, f) = f
    BY <1>1, <2>1, <2>5
  <2> QED BY <1>2, <2>6
<1> QED BY <1>3, <1>4

------------------------------------------------------------------------------
(* A log that grows *)

\* A log that goes on: what was in it stays, and what comes is no older.
Continues(f, l) ==
  /\ l \in Seq(Messages) /\ f \in Seq(Messages)
  /\ DOMAIN l \subseteq DOMAIN f /\ \A i \in DOMAIN l : f[i] = l[i]

\* The answers in it are still behind their calls.
LEMMA ContinuedIsOwned ==
  ASSUME NEW l, Good(l), NEW f, Continues(f, l), NEW j \in DOMAIN l, f[j].kind = "tool"
  PROVE  \E i \in 1..j-1 : OwnedBy(f, i, j)
<1>1. /\ l \in Seq(Messages) /\ DOMAIN l = 1..Len(l) /\ Len(l) \in Nat
      /\ f \in Seq(Messages) /\ DOMAIN f = 1..Len(f) /\ Len(f) \in Nat /\ f[j] = l[j]
  <2>1. l \in Seq(Messages) /\ f \in Seq(Messages) /\ f[j] = l[j]
    BY DEF Continues
  <2> QED BY <2>1
<1>2. PICK i \in 1..j-1 : OwnedBy(l, i, j)
  BY <1>1 DEF Good, Owned
<1>3. i \in DOMAIN l /\ f[i] = l[i] /\ j \in Nat /\ i \in Nat /\ Len(l) <= Len(f)
  <2>1. i \in DOMAIN l /\ j \in Nat /\ i \in Nat
    BY <1>1
  <2>2. Len(l) = 0 \/ Len(l) \in DOMAIN l
    BY <1>1
  <2> QED BY <1>1, <2>1, <2>2 DEF Continues
<1>4. j \in i+1..Len(l) /\ \A k \in i+1..j : l[k].kind = "tool"
  BY <1>2 DEF OwnedBy, Following
<1>5. \A k \in i+1..j : f[k].kind = "tool"
  <2> SUFFICES ASSUME NEW k \in i+1..j PROVE f[k].kind = "tool"
    OBVIOUS
  <2>1. k \in DOMAIN l
    BY <1>1, <1>3, <1>4
  <2> QED BY <1>4, <2>1 DEF Continues
<1>6. j \in Following(f, i)
  BY <1>1, <1>3, <1>4, <1>5 DEF Following
<1> QED BY <1>1, <1>2, <1>3, <1>6 DEF OwnedBy

\* A log with a message behind it.
LEMMA AppendIs ==
  ASSUME NEW l, Good(l), NEW m \in Messages, m.kind # "tool", l = <<>> => m.kind = "head",
         \A i \in DOMAIN l : l[i].turn <= m.turn,
         \A i \in DOMAIN l : (l[i].kind = "ai" /\ m.kind = "ai") => Before(l[i], m)
  PROVE  /\ Good(Append(l, m)) /\ Append(l, m) # <<>> /\ Last(Append(l, m)) = m
         /\ DOMAIN Append(l, m) = DOMAIN l \cup {Len(l) + 1}
         /\ \A i \in DOMAIN l : Append(l, m)[i] = l[i]
         /\ Append(l, m)[Len(l) + 1] = m
<1> DEFINE f == Append(l, m)
           n == Len(l) + 1
<1>1. /\ l \in Seq(Messages) /\ DOMAIN l = 1..Len(l) /\ Len(l) \in Nat
      /\ f \in Seq(Messages) /\ DOMAIN f = 1..n /\ Len(f) = n /\ n \in Nat
      /\ f # <<>> /\ f[n] = m /\ \A i \in DOMAIN l : f[i] = l[i]
  <2>1. l \in Seq(Messages)
    BY DEF Good
  <2> QED BY <2>1
<1>2. /\ DOMAIN f = DOMAIN l \cup {n} /\ \A i \in DOMAIN l : i < n /\ ~(n < i)
      /\ \A i, j \in DOMAIN f : i < j => i \in DOMAIN l
  BY <1>1
<1>3. Last(f) = m
  BY <1>1 DEF Last
<1> HIDE DEF f, n
<1>4. InTurns(f)
  <2> SUFFICES ASSUME NEW i \in DOMAIN f, NEW j \in DOMAIN f, i < j PROVE f[i].turn <= f[j].turn
    BY DEF InTurns
  <2>1. i \in DOMAIN l
    BY <1>1, <1>2
  <2>2. CASE j \in DOMAIN l
    <3>1. f[i] = l[i] /\ f[j] = l[j]
      BY <1>1, <2>1, <2>2
    <3> QED BY <2>1, <2>2, <3>1 DEF Good, InTurns
  <2>3. CASE j = n
    <3>1. f[i] = l[i] /\ f[j] = m
      BY <1>1, <2>1, <2>3
    <3> QED BY <2>1, <3>1
  <2> QED BY <1>2, <2>2, <2>3
<1>5. InRounds(f)
  <2> SUFFICES ASSUME NEW i \in DOMAIN f, NEW j \in DOMAIN f, i < j, f[i].kind = "ai", f[j].kind = "ai"
               PROVE  Before(f[i], f[j])
    BY DEF InRounds
  <2>1. i \in DOMAIN l
    BY <1>1, <1>2
  <2>2. CASE j \in DOMAIN l
    <3>1. f[i] = l[i] /\ f[j] = l[j]
      BY <1>1, <2>1, <2>2
    <3> QED BY <2>1, <2>2, <3>1 DEF Good, InRounds
  <2>3. CASE j = n
    <3>1. f[i] = l[i] /\ f[j] = m
      BY <1>1, <2>1, <2>3
    <3> QED BY <2>1, <3>1
  <2> QED BY <1>2, <2>2, <2>3
<1>6. Owned(f)
  <2> SUFFICES ASSUME NEW j \in DOMAIN f, f[j].kind = "tool" PROVE \E i \in 1..j-1 : OwnedBy(f, i, j)
    BY DEF Owned
  <2>1. Continues(f, l)
    BY <1>1, <1>2 DEF Continues
  <2>2. j \in DOMAIN l
    BY <1>1, <1>2
  <2> QED BY <2>1, <2>2, ContinuedIsOwned
<1>7. Distinct(f)
  <2> SUFFICES ASSUME NEW j \in DOMAIN f, NEW k \in DOMAIN f, j < k, \A q \in j..k : f[q].kind = "tool"
               PROVE  f[j].calls # f[k].calls
    BY DEF Distinct
  <2>1. j \in j..k /\ k \in j..k /\ j \in Nat /\ k \in Nat
    BY <1>1
  <2>2. j \in DOMAIN l /\ k \in DOMAIN l
    BY <1>1, <1>2, <2>1
  <2>3. \A q \in j..k : l[q].kind = "tool"
    <3> SUFFICES ASSUME NEW q \in j..k PROVE l[q].kind = "tool"
      OBVIOUS
    <3>1. q \in DOMAIN l
      BY <1>1, <2>1, <2>2
    <3> QED BY <1>1, <3>1
  <2> QED BY <1>1, <2>2, <2>3 DEF Good, Distinct
<1>8. HeadFirst(f)
  <2>1. CASE l = <<>>
    <3>1. n = 1
      BY <1>1, <2>1 DEF n
    <3> QED BY <1>1, <2>1, <3>1 DEF HeadFirst
  <2>2. CASE l # <<>>
    <3>1. 1 \in DOMAIN l
      BY <1>1, <2>2
    <3> QED BY <1>1, <2>2, <3>1 DEF Good, HeadFirst
  <2> QED BY <2>1, <2>2
<1>9. Good(f)
  BY <1>1, <1>4, <1>5, <1>6, <1>7, <1>8 DEF Good
<1> QED BY <1>1, <1>2, <1>3, <1>9 DEF f, n

\* The places of a sequence of e + n messages after its first e.
LEMMA PastThePrefix ==
  ASSUME NEW e \in Nat, NEW n \in Nat, NEW i \in 1..(e + n), i \notin 1..e
  PROVE  i > e /\ i - e \in 1..n /\ e + (i - e) = i /\ i \in Nat
OBVIOUS

\* Behind a call, its answers.
LEMMA AnsweredIs ==
  ASSUME NEW l, Good(l), l # <<>>, NEW n \in Nat, n # 0, Last(l).kind = "ai", Last(l).calls = 1..n,
         NEW f \in Seq(Messages), Len(f) = Len(l) + n,
         \A i \in DOMAIN l : f[i] = l[i],
         \A c \in 1..n : f[Len(l) + c] = Message("tool", Last(l).turn, Last(l).round, {c})
  PROVE  Good(f)
<1> DEFINE e == Len(l)
           t == Last(l).turn
           r == Last(l).round
<1>1. /\ l \in Seq(Messages) /\ DOMAIN l = 1..e /\ e \in Nat /\ e \in DOMAIN l /\ e # 0
      /\ DOMAIN f = 1..(e + n) /\ l[e] = Last(l)
  <2>1. l \in Seq(Messages)
    BY DEF Good
  <2> QED BY <2>1 DEF Last
<1>2. l[e].kind = "ai" /\ l[e].turn = t /\ l[e].round = r /\ l[e].calls = 1..n /\ f[e] = l[e]
  BY <1>1
<1>3. \A i \in DOMAIN l : i <= e /\ i \in Nat
  BY <1>1
<1>4. \A i \in DOMAIN f : i \notin DOMAIN l =>
        /\ i > e /\ i - e \in 1..n /\ i \in Nat
        /\ f[i].kind = "tool" /\ f[i].turn = t /\ f[i].round = r /\ f[i].calls = {i - e}
  <2> SUFFICES ASSUME NEW i \in DOMAIN f, i \notin DOMAIN l
               PROVE  /\ i > e /\ i - e \in 1..n /\ i \in Nat
                      /\ f[i].kind = "tool" /\ f[i].turn = t /\ f[i].round = r /\ f[i].calls = {i - e}
    OBVIOUS
  <2>1. i > e /\ i - e \in 1..n /\ e + (i - e) = i /\ i \in Nat
    <3>1. i \in 1..(e + n) /\ i \notin 1..e /\ e \in Nat
      BY <1>1
    <3> HIDE DEF e
    <3> QED BY <3>1, PastThePrefix
  <2>2. f[e + (i - e)] = Message("tool", t, r, {i - e})
    BY <2>1
  <2> QED BY <2>1, <2>2 DEF Message
<1>5. Continues(f, l)
  <2>1. DOMAIN l \subseteq DOMAIN f
    BY <1>1
  <2> QED BY <1>1, <2>1 DEF Continues
<1> HIDE DEF e, t, r
<1>6. \A i \in DOMAIN l : l[i].turn <= t /\ l[i].turn \in Nat
  <2> SUFFICES ASSUME NEW i \in DOMAIN l PROVE l[i].turn <= t /\ l[i].turn \in Nat
    OBVIOUS
  <2>1. l[i] \in Messages
    BY <1>1
  <2>2. l[i].turn \in Nat
    BY <2>1 DEF Messages
  <2>3. CASE i = e
    BY <1>2, <2>2, <2>3
  <2>4. CASE i < e
    BY <1>1, <1>2, <2>2, <2>4 DEF Good, InTurns
  <2> QED BY <1>3, <1>1, <2>3, <2>4
<1>7. InTurns(f)
  <2> SUFFICES ASSUME NEW i \in DOMAIN f, NEW j \in DOMAIN f, i < j PROVE f[i].turn <= f[j].turn
    BY DEF InTurns
  <2>1. CASE i \in DOMAIN l /\ j \in DOMAIN l
    BY <2>1 DEF Good, InTurns
  <2>2. CASE i \in DOMAIN l /\ j \notin DOMAIN l
    BY <1>4, <1>6, <2>2
  <2>3. CASE i \notin DOMAIN l
    <3>1. j \notin DOMAIN l
      BY <1>1, <1>3, <1>4, <2>3
    <3>2. f[i].turn = t /\ f[j].turn = t /\ t \in Nat
      BY <1>1, <1>2, <1>4, <1>6, <2>3, <3>1
    <3> QED BY <3>2
  <2> QED BY <2>1, <2>2, <2>3
<1>8. InRounds(f)
  <2> SUFFICES ASSUME NEW i \in DOMAIN f, NEW j \in DOMAIN f, i < j, f[i].kind = "ai", f[j].kind = "ai"
               PROVE  Before(f[i], f[j])
    BY DEF InRounds
  <2>1. i \in DOMAIN l /\ j \in DOMAIN l
    BY <1>4
  <2> QED BY <2>1 DEF Good, InRounds
<1>9. Owned(f)
  <2> SUFFICES ASSUME NEW j \in DOMAIN f, f[j].kind = "tool" PROVE \E i \in 1..j-1 : OwnedBy(f, i, j)
    BY DEF Owned
  <2>1. CASE j \in DOMAIN l
    BY <1>5, <2>1, ContinuedIsOwned
  <2>2. CASE j \notin DOMAIN l
    <3>1. /\ j > e /\ j - e \in 1..n /\ j \in Nat
          /\ f[j].turn = t /\ f[j].round = r /\ f[j].calls = {j - e}
      BY <1>4, <2>2
    <3>2. \A k \in e+1..j : f[k].kind = "tool"
      <4> SUFFICES ASSUME NEW k \in e+1..j PROVE f[k].kind = "tool"
        OBVIOUS
      <4>1. k \in DOMAIN f /\ k \notin DOMAIN l
        BY <1>1, <3>1
      <4> QED BY <1>4, <4>1
    <3>3. j \in e+1..Len(f) /\ e \in 1..j-1
      BY <1>1, <3>1
    <3>4. j \in Following(f, e)
      BY <3>2, <3>3 DEF Following
    <3>5. Declares(f[e])
      <4>1. 1 \in 1..n
        OBVIOUS
      <4> QED BY <1>2, <4>1 DEF Declares
    <3>6. OwnedBy(f, e, j)
      BY <1>2, <3>1, <3>4, <3>5 DEF OwnedBy
    <3> QED BY <3>3, <3>6
  <2> QED BY <2>1, <2>2
<1>10. Distinct(f)
  <2> SUFFICES ASSUME NEW j \in DOMAIN f, NEW k \in DOMAIN f, j < k, \A q \in j..k : f[q].kind = "tool"
               PROVE  f[j].calls # f[k].calls
    BY DEF Distinct
  <2>1. CASE k \in DOMAIN l
    <3>1. j \in DOMAIN l /\ j \in Nat /\ k \in Nat
      BY <1>1, <2>1
    <3>2. \A q \in j..k : l[q].kind = "tool"
      <4> SUFFICES ASSUME NEW q \in j..k PROVE l[q].kind = "tool"
        OBVIOUS
      <4>1. q \in DOMAIN l
        BY <1>1, <2>1, <3>1
      <4>2. f[q] = l[q]
        BY <4>1
      <4> QED BY <4>2
    <3>3. l[j].calls # l[k].calls
      BY <2>1, <3>1, <3>2 DEF Good, Distinct
    <3> QED BY <2>1, <3>1, <3>3
  <2>2. CASE k \notin DOMAIN l
    <3>1. k > e /\ k \in Nat /\ f[k].calls = {k - e}
      BY <1>4, <2>2
    <3>2. j \notin DOMAIN l
      <4> SUFFICES ASSUME j \in DOMAIN l PROVE FALSE
        OBVIOUS
      <4>1. e \in j..k
        BY <1>1, <1>3, <3>1
      <4> QED BY <1>2, <4>1
    <3>3. j > e /\ j \in Nat /\ f[j].calls = {j - e}
      BY <1>4, <3>2
    <3>4. j - e # k - e
      BY <1>1, <3>1, <3>3
    <3> QED BY <3>1, <3>3, <3>4
  <2> QED BY <2>1, <2>2
<1>11. HeadFirst(f)
  <2>1. 1 \in DOMAIN l
    BY <1>1
  <2>2. f[1] = l[1]
    BY <2>1
  <2> QED BY <2>2 DEF Good, HeadFirst
<1> QED BY <1>7, <1>8, <1>9, <1>10, <1>11 DEF Good

------------------------------------------------------------------------------
(* The checkpoint *)

\* The model has answered in this turn, and its calls wait for their answers.
Waiting == turn.pc \in {"tools", "approval", "running"}

\* No answer of the model in this turn is of round r or later.
AnsweredBefore(r) ==
  \A i \in DOMAIN log : (log[i].kind = "ai" /\ log[i].turn = turn.number) => log[i].round < r

Asked == \E i \in DOMAIN log : log[i].kind = "human" /\ log[i].turn = turn.number

\* The log is good, and fits where the turn is.
LogInv ==
  /\ Good(log)
  /\ \A i \in DOMAIN log : log[i].turn <= turn.number
  /\ turn.pc \in {"compress", "model"} => AnsweredBefore(turn.round)
  /\ Waiting =>
       /\ AnsweredBefore(turn.round + 1)
       /\ calls # <<>> /\ Last(log) = Message("ai", turn.number, turn.round, DOMAIN calls)
  /\ turn.pc # "idle" => ~manual.reading /\ Asked
  /\ turn.pc = "compress" => Last(log).kind = "human" /\ Last(log).turn = turn.number
  /\ manual.reading => manual.read = log /\ log # <<>>

\* A turn that goes on keeps its number, and its round but for the next answer.
LEMMA GoesOn ==
  ASSUME Typed, NEW pc \in Places \ {"idle"}, NextStep(pc)
  PROVE  /\ turn'.number = turn.number
         /\ turn'.pc \in {pc, "idle"}
         /\ turn'.pc = pc => turn'.round = IF pc = "tools" THEN turn.round ELSE turn.round + 1
<1>1. CASE turn.steps + 1 >= RecursionLimit
  <2>1. turn' = [turn EXCEPT !.pc = "idle", !.round = 0, !.steps = 0]
    BY <1>1 DEF NextStep, Over
  <2> QED BY <2>1 DEF Typed, Places
<1>2. CASE ~(turn.steps + 1 >= RecursionLimit)
  <2> DEFINE next == IF pc = "tools" THEN turn.round ELSE turn.round + 1
  <2>1. turn' = [turn EXCEPT !.pc = pc, !.steps = turn.steps + 1, !.round = next]
    BY <1>2 DEF NextStep
  <2>2. turn'.number = turn.number /\ turn'.pc = pc /\ turn'.round = next
    <3> HIDE DEF next
    <3> QED BY <2>1 DEF Typed
  <2> QED BY <2>2
<1> QED BY <1>1, <1>2

\* The calls that the model may make, as a message has them.
LEMMA CallsCount ==
  ASSUME NEW cs \in BoundedSeq(TurnCalls, MaxCalls)
  PROVE  \E n \in 0..MaxCalls : DOMAIN cs = 1..n /\ (cs # <<>> => n # 0)
<1>1. PICK n \in 0..MaxCalls : cs \in [1..n -> TurnCalls]
  BY DEF BoundedSeq, SeqOf
<1>2. n = 0 => cs = <<>>
  BY <1>1
<1> QED BY <1>1, <1>2

LEMMA NumbersAre ==
  ASSUME Typed
  PROVE  /\ turn.number \in Nat /\ turn.round \in Nat
         /\ MaxCalls \in Nat
         /\ \A k \in Kinds, r \in Nat, n \in Nat, c \in SUBSET (1..MaxCalls) :
              Message(k, n, r, c) \in Messages
BY AgentTurnAssumption DEF Typed, AgentTurnAssumption, Message, Messages

LEMMA KindsAre ==
  {"head", "inject", "summary", "human", "ai", "tool"} \subseteq Kinds
BY DEF Kinds, Systems

LEMMA MessagesHave ==
  ASSUME NEW l, Good(l), NEW i \in DOMAIN l
  PROVE  l[i] \in Messages /\ l[i].turn \in Nat /\ l[i].round \in Nat
<1>1. l[i] \in Messages
  BY DEF Good
<1> QED BY <1>1 DEF Messages

\* A log to which the question of the next turn has come.
LEMMA InitialIs ==
  ASSUME NEW l, Good(l), NEW n \in Nat, \A i \in DOMAIN l : l[i].turn <= n,
         NEW first \in BOOLEAN, NEW retrieved \in BOOLEAN, l = <<>> => first,
         MaxCalls \in Nat
  PROVE  LET f == l \o InitialMessages(n, first, retrieved)
         IN  /\ Good(f) /\ f # <<>> /\ Last(f) = Message("human", n, 0, {})
             /\ \A i \in DOMAIN f :
                  \/ f[i].turn = n /\ f[i].kind # "ai"
                  \/ \E j \in DOMAIN l : f[i] = l[j]
<1> DEFINE head == Message("head", n, 0, {})
           inject == Message("inject", n, 0, {})
           human == Message("human", n, 0, {})
           Fresh(f) == \A i \in DOMAIN f :
                         \/ f[i].turn = n /\ f[i].kind # "ai"
                         \/ \E j \in DOMAIN l : f[i] = l[j]
<1>1. /\ head \in Messages /\ head.kind = "head" /\ head.turn = n
      /\ inject \in Messages /\ inject.kind = "inject" /\ inject.turn = n
      /\ human \in Messages /\ human.kind = "human" /\ human.turn = n
  <2>1. {} \in SUBSET (1..MaxCalls) /\ 0 \in Nat
    OBVIOUS
  <2> QED BY <2>1, KindsAre DEF Message, Messages
<1> HIDE DEF head, inject, human
<1>2. ASSUME NEW f, Good(f), Fresh(f), NEW m \in Messages, m.kind \in {"head", "inject", "human"},
             m.turn = n, f = <<>> => m.kind = "head"
      PROVE  /\ Good(Append(f, m)) /\ Fresh(Append(f, m)) /\ Append(f, m) # <<>>
             /\ Last(Append(f, m)) = m /\ f \o <<m>> = Append(f, m)
  <2>1. \A i \in DOMAIN f : f[i].turn <= m.turn
    <3> SUFFICES ASSUME NEW i \in DOMAIN f PROVE f[i].turn <= n
      BY <1>2
    <3> QED BY <1>2
  <2>2. m.kind # "tool" /\ m.kind # "ai" /\ \A i \in DOMAIN f : (f[i].kind = "ai" /\ m.kind = "ai") => Before(f[i], m)
    BY <1>2
  <2>3. /\ Good(Append(f, m)) /\ Append(f, m) # <<>> /\ Last(Append(f, m)) = m
        /\ DOMAIN Append(f, m) = DOMAIN f \cup {Len(f) + 1}
        /\ \A i \in DOMAIN f : Append(f, m)[i] = f[i]
        /\ Append(f, m)[Len(f) + 1] = m
    BY <1>2, <2>1, <2>2, AppendIs
  <2>4. Fresh(Append(f, m))
    <3> SUFFICES ASSUME NEW i \in DOMAIN Append(f, m)
                 PROVE  \/ Append(f, m)[i].turn = n /\ Append(f, m)[i].kind # "ai"
                        \/ \E j \in DOMAIN l : Append(f, m)[i] = l[j]
      OBVIOUS
    <3>1. CASE i \in DOMAIN f
      <4>1. Append(f, m)[i] = f[i]
        BY <2>3, <3>1
      <4> QED BY <1>2, <3>1, <4>1
    <3>2. CASE i = Len(f) + 1
      BY <1>2, <2>2, <2>3, <3>2
    <3> QED BY <2>3, <3>1, <3>2
  <2>5. f \in Seq(Messages)
    BY <1>2 DEF Good
  <2>6. f \o <<m>> = Append(f, m)
    BY <2>5, AppendIsConcat
  <2> QED BY <2>3, <2>4, <2>6
<1>3. Fresh(l)
  OBVIOUS
<1> HIDE DEF Fresh
<1> DEFINE a == IF first THEN Append(l, head) ELSE l
           b == IF retrieved THEN Append(a, inject) ELSE a
           c == Append(b, human)
<1>4. Good(a) /\ Fresh(a) /\ a # <<>> /\ a = l \o (IF first THEN <<head>> ELSE <<>>)
  <2>1. CASE first
    BY <1>1, <1>2, <1>3, <2>1
  <2>2. CASE ~first
    <3>1. l \in Seq(Messages)
      BY DEF Good
    <3> QED BY <1>3, <2>2, <3>1, ConcatEmptySeq
  <2> QED BY <2>1, <2>2
<1> HIDE DEF a
<1>5. Good(b) /\ Fresh(b) /\ b # <<>> /\ b = a \o (IF retrieved THEN <<inject>> ELSE <<>>)
  <2>1. CASE retrieved
    BY <1>1, <1>2, <1>4, <2>1
  <2>2. CASE ~retrieved
    <3>1. a \in Seq(Messages)
      BY <1>4 DEF Good
    <3> QED BY <1>4, <2>2, <3>1, ConcatEmptySeq
  <2> QED BY <2>1, <2>2
<1> HIDE DEF b
<1>6. Good(c) /\ Fresh(c) /\ c # <<>> /\ Last(c) = human /\ c = b \o <<human>>
  BY <1>1, <1>2, <1>5
<1> HIDE DEF c
<1>7. c = l \o InitialMessages(n, first, retrieved)
  <2> DEFINE x == IF first THEN <<head>> ELSE <<>>
             y == IF retrieved THEN <<inject>> ELSE <<>>
  <2>1. l \in Seq(Messages) /\ x \in Seq(Messages) /\ y \in Seq(Messages) /\ <<human>> \in Seq(Messages)
    <3>1. l \in Seq(Messages)
      BY DEF Good
    <3> QED BY <1>1, <3>1
  <2>2. c = ((l \o x) \o y) \o <<human>>
    BY <1>4, <1>5, <1>6
  <2>3. InitialMessages(n, first, retrieved) = (x \o y) \o <<human>>
    BY DEF InitialMessages, head, inject, human
  <2> HIDE DEF x, y
  <2>4. (l \o x) \o y = l \o (x \o y) /\ x \o y \in Seq(Messages)
    BY <2>1, ConcatAssociative, ConcatProperties
  <2>5. (l \o (x \o y)) \o <<human>> = l \o ((x \o y) \o <<human>>)
    BY <2>1, <2>4, ConcatAssociative
  <2> QED BY <2>2, <2>3, <2>4, <2>5
<1> QED BY <1>6, <1>7 DEF Fresh, human

\* A log of which another is derived, as the invariant sees it.
LEMMA DerivedKeeps ==
  ASSUME NEW l, NEW f, Derived(f, l), NEW n, \A i \in DOMAIN l : l[i].turn <= n
  PROVE  /\ \A i \in DOMAIN f : f[i].turn <= n
         /\ \A t, r : (\A i \in DOMAIN l : (l[i].kind = "ai" /\ l[i].turn = t) => l[i].round < r)
              => \A i \in DOMAIN f : (f[i].kind = "ai" /\ f[i].turn = t) => f[i].round < r
BY DEF Derived

LEMMA DerivedTwice ==
  ASSUME NEW l, NEW f, NEW g, Derived(f, l), Derived(g, f)  PROVE Derived(g, l)
<1> SUFFICES ASSUME NEW p \in DOMAIN g
             PROVE  \E i \in DOMAIN l : g[p].turn = l[i].turn /\ (g[p].kind = "ai" => g[p] = l[i])
  BY DEF Derived
<1>1. PICK q \in DOMAIN f : g[p].turn = f[q].turn /\ (g[p].kind = "ai" => g[p] = f[q])
  BY DEF Derived
<1>2. PICK i \in DOMAIN l : f[q].turn = l[i].turn /\ (f[q].kind = "ai" => f[q] = l[i])
  BY DEF Derived
<1> QED BY <1>1, <1>2

\* What the entry node makes of a log that ends with the question.
LEMMA CompressIs ==
  ASSUME NEW l, Good(l), l # <<>>, Last(l).kind = "human", NEW s \in Strategies, NEW pressed,
         NEW kept \in IF pressed THEN Compressed(s, EnsureToolPairing(l)) ELSE {EnsureToolPairing(l)}
  PROVE  /\ Good(Replace(l, l, kept)) /\ Derived(Replace(l, l, kept), l)
         /\ Last(l) \in ToSet(Replace(l, l, kept))
<1> DEFINE r == EnsureToolPairing(l)
<1>1. Good(r) /\ Derived(r, l) /\ r # <<>> /\ r[1] = l[1] /\ Last(r) = Last(l)
  BY PairingIs
<1> HIDE DEF r
<1>2. Reduces(r, kept)
  <2>1. CASE pressed
    BY <1>1, <2>1, CompressedIs DEF r
  <2>2. CASE ~pressed
    <3>1. kept = r
      BY <2>2 DEF r
    <3> QED BY <1>1, <3>1, ReducesItself
  <2> QED BY <2>1, <2>2
<1>3. Good(kept) /\ Derived(kept, l) /\ kept # <<>> /\ kept[1] = l[1] /\ Last(kept) = Last(l)
  BY <1>1, <1>2, DerivedTwice DEF Reduces
<1>4. Last(kept) \in ToSet(Replace(l, l, kept))
  BY <1>3, ReplaceIs
<1> QED BY <1>3, <1>4, ReplaceIs

\* The empty checkpoint.
LEMMA LogInitHolds == Init => LogInv
<1> SUFFICES ASSUME Init PROVE LogInv
  OBVIOUS
<1>1. log = <<>> /\ DOMAIN log = {} /\ turn.pc = "idle" /\ ~manual.reading
  BY DEF Init, NoRequest
<1>2. log \in Seq(Messages)
  BY <1>1
<1>3. Good(log)
  BY <1>1, <1>2 DEF Good, InTurns, InRounds, Owned, Distinct, HeadFirst
<1> QED BY <1>1, <1>3 DEF LogInv, Waiting

LEMMA LogStepHolds == Typed /\ LogInv /\ [Next]_vars => LogInv'
<1> SUFFICES ASSUME Typed, LogInv, [Next]_vars  PROVE  LogInv'
  OBVIOUS
<1>1. /\ Good(log)
      /\ \A i \in DOMAIN log : log[i].turn <= turn.number
      /\ turn.pc \in {"compress", "model"} => AnsweredBefore(turn.round)
      /\ Waiting => /\ AnsweredBefore(turn.round + 1)
                    /\ calls # <<>> /\ Last(log) = Message("ai", turn.number, turn.round, DOMAIN calls)
      /\ turn.pc # "idle" => ~manual.reading /\ Asked
      /\ turn.pc = "compress" => Last(log).kind = "human" /\ Last(log).turn = turn.number
      /\ manual.reading => manual.read = log /\ log # <<>>
  BY DEF LogInv
<1>2. /\ turn.number \in Nat /\ turn.round \in Nat /\ turn.pc \in Places
      /\ log \in Seq(Messages) /\ DOMAIN log = 1..Len(log) /\ Len(log) \in Nat
  <2>1. log \in Seq(Messages)
    BY <1>1 DEF Good
  <2> QED BY <2>1, NumbersAre DEF Typed
<1>3. turn.pc # "idle" => log # <<>>
  <2> SUFFICES ASSUME turn.pc # "idle" PROVE DOMAIN log # {}
    BY <1>2
  <2> QED BY <1>1 DEF Asked
\* Between turns only the log matters.
<1>4. ASSUME turn'.pc = "idle", Good(log'), \A i \in DOMAIN log' : log'[i].turn <= turn'.number,
             manual'.reading => manual'.read = log' /\ log' # <<>>
      PROVE  LogInv'
  BY <1>4 DEF LogInv, Waiting
<1>5. CASE TurnBegins
  <2> DEFINE n == turn.number + 1
  <2>1. PICK first \in BOOLEAN, retrieved \in BOOLEAN :
          /\ log = <<>> => first
          /\ log' = log \o InitialMessages(n, first, retrieved)
    <3>1. PICK retrieved \in BOOLEAN, fails \in BOOLEAN :
            log' = log \o InitialMessages(n, log = <<>> \/ fails, retrieved)
      BY <1>5 DEF TurnBegins
    <3>2. (log = <<>> \/ fails) \in BOOLEAN
      OBVIOUS
    <3> QED BY <3>1, <3>2
  <2>2. turn'.number = n /\ turn'.round = 0 /\ turn'.pc = "compress" /\ manual' = manual /\ ~manual.reading
    BY <1>5 DEF TurnBegins, Locked
  <2>3. n \in Nat /\ MaxCalls \in Nat /\ \A i \in DOMAIN log : log[i].turn <= n /\ log[i].turn # n
    <3> SUFFICES ASSUME NEW i \in DOMAIN log
                 PROVE  n \in Nat /\ MaxCalls \in Nat /\ log[i].turn <= n /\ log[i].turn # n
      BY <1>2, NumbersAre
    <3>1. log[i].turn \in Nat /\ log[i].turn <= turn.number
      BY <1>1, MessagesHave
    <3> QED BY <1>2, <3>1, NumbersAre
  <2> HIDE DEF n
  <2>4. /\ Good(log') /\ log' # <<>> /\ Last(log') = Message("human", n, 0, {})
        /\ \A i \in DOMAIN log' :
             \/ log'[i].turn = n /\ log'[i].kind # "ai"
             \/ \E j \in DOMAIN log : log'[i] = log[j]
    BY <1>1, <2>1, <2>3, InitialIs
  <2>5. \A i \in DOMAIN log' : log'[i].turn <= n
    BY <2>3, <2>4
  <2>6. AnsweredBefore(turn.round)'
    BY <2>2, <2>3, <2>4 DEF AnsweredBefore
  <2>7. Last(log').kind = "human" /\ Last(log').turn = n
    BY <2>4 DEF Message
  <2>8. Asked'
    <3>1. log' \in Seq(Messages) /\ Len(log') \in DOMAIN log'
      BY <2>4 DEF Good
    <3> QED BY <2>2, <2>7, <3>1 DEF Asked, Last
  <2> QED BY <2>2, <2>4, <2>5, <2>6, <2>7, <2>8 DEF LogInv, Waiting
<1>6. CASE Compress
  <2>1. /\ turn.pc = "compress" /\ turn'.pc = "model" /\ turn'.number = turn.number
        /\ turn'.round = turn.round /\ manual' = manual
    BY <1>6 DEF Compress, Typed
  <2>2. PICK s \in InUse, pressed \in BOOLEAN :
          \E kept \in IF pressed THEN Compressed(s, EnsureToolPairing(log)) ELSE {EnsureToolPairing(log)} :
            log' = Replace(log, log, kept)
    BY <1>6 DEF Compress
  <2>3. s \in Strategies
    BY AgentTurnAssumption DEF AgentTurnAssumption
  <2>4. Good(log') /\ Derived(log', log) /\ Last(log) \in ToSet(log')
    BY <1>1, <1>3, <2>1, <2>2, <2>3, CompressIs
  <2>5. /\ \A i \in DOMAIN log' : log'[i].turn <= turn.number
        /\ \A i \in DOMAIN log' :
             (log'[i].kind = "ai" /\ log'[i].turn = turn.number) => log'[i].round < turn.round
    BY <1>1, <2>1, <2>4, DerivedKeeps DEF AnsweredBefore
  <2>6. Asked'
    BY <1>1, <2>1, <2>4 DEF Asked, ToSet
  <2> QED BY <1>1, <2>1, <2>4, <2>5, <2>6 DEF LogInv, Waiting, AnsweredBefore
<1>7. CASE ModelAnswers
  <2>1. PICK cs \in BoundedSeq(TurnCalls, MaxCalls) :
          /\ log' = Append(log, Message("ai", turn.number, turn.round, DOMAIN cs))
          /\ \/ cs = <<>> /\ Over
             \/ cs # <<>> /\ NextStep("tools") /\ calls' = IF turn'.pc = "idle" THEN <<>> ELSE cs
    BY <1>7 DEF ModelAnswers
  <2> DEFINE m == Message("ai", turn.number, turn.round, DOMAIN cs)
  <2>2. turn.pc = "model" /\ manual' = manual
    BY <1>7 DEF ModelAnswers
  <2>3. m \in Messages /\ m.kind = "ai" /\ m.turn = turn.number /\ m.round = turn.round
    <3>1. DOMAIN cs \in SUBSET (1..MaxCalls)
      <4>1. PICK k \in 0..MaxCalls : DOMAIN cs = 1..k
        BY CallsCount
      <4> QED BY <4>1, NumbersAre
    <3> QED BY <1>2, <3>1, NumbersAre, KindsAre DEF Message
  <2> HIDE DEF m
  <2>4. \A i \in DOMAIN log : log[i].kind = "ai" => Before(log[i], m)
    <3> SUFFICES ASSUME NEW i \in DOMAIN log, log[i].kind = "ai" PROVE Before(log[i], m)
      OBVIOUS
    <3>1. log[i].turn \in Nat /\ log[i].turn <= turn.number
      BY <1>1, MessagesHave
    <3>2. log[i].turn = turn.number => log[i].round < turn.round
      BY <1>1, <2>2 DEF AnsweredBefore
    <3> QED BY <1>2, <2>3, <3>1, <3>2 DEF Before
  <2>5. /\ Good(log') /\ Last(log') = m
        /\ DOMAIN log' = DOMAIN log \cup {Len(log) + 1}
        /\ \A i \in DOMAIN log : log'[i] = log[i]
        /\ log'[Len(log) + 1] = m
    <3>1. log' = Append(log, m) /\ m.kind # "tool" /\ log # <<>>
      BY <1>3, <2>1, <2>2, <2>3 DEF m
    <3> QED BY <1>1, <2>3, <2>4, <3>1, AppendIs
  <2>6. \A i \in DOMAIN log' : log'[i].turn <= turn.number
    <3>1. turn.number <= turn.number
      BY <1>2
    <3> QED BY <1>1, <2>3, <2>5, <3>1
  <2>7. CASE turn'.pc = "idle"
    <3>1. turn'.number = turn.number
      BY <2>1, GoesOn DEF Over, Typed, Places
    <3> QED BY <1>1, <1>4, <2>2, <2>5, <2>6, <2>7, <3>1
  <2>8. CASE turn'.pc # "idle"
    <3>1. cs # <<>> /\ NextStep("tools") /\ calls' = cs
      BY <2>1, <2>8 DEF Over, Typed
    <3>2. turn'.pc = "tools" /\ turn'.number = turn.number /\ turn'.round = turn.round
      BY <2>8, <3>1, GoesOn DEF Places
    <3>3. AnsweredBefore(turn.round + 1)'
      <4> SUFFICES ASSUME NEW i \in DOMAIN log', log'[i].kind = "ai", log'[i].turn = turn.number
                   PROVE  log'[i].round < turn.round + 1
        BY <3>2 DEF AnsweredBefore
      <4>1. CASE i \in DOMAIN log
        <5>1. log[i].round < turn.round /\ log[i].round \in Nat /\ log'[i] = log[i]
          BY <1>1, <2>2, <2>5, <4>1, MessagesHave DEF AnsweredBefore
        <5> QED BY <1>2, <5>1
      <4>2. CASE i = Len(log) + 1
        BY <1>2, <2>3, <2>5, <4>2
      <4> QED BY <2>5, <4>1, <4>2
    <3>4. Asked'
      BY <1>1, <2>2, <2>5, <3>2 DEF Asked
    <3> QED BY <1>1, <2>2, <2>5, <2>6, <3>1, <3>2, <3>3, <3>4 DEF LogInv, Waiting, m
  <2> QED BY <2>7, <2>8
<1>8. CASE Gate \/ Resume
  <2>1. /\ Waiting /\ turn'.pc \in {"approval", "running"} /\ UNCHANGED <<log, calls, manual>>
        /\ turn'.number = turn.number /\ turn'.round = turn.round
    BY <1>8 DEF Gate, Resume, Typed, Waiting
  <2> QED BY <1>1, <2>1 DEF LogInv, Waiting, AnsweredBefore, Asked
<1>9. CASE ToolsReturn
  <2>1. /\ turn.pc = "running" /\ NextStep("model") /\ manual' = manual
        /\ log' = log \o [i \in DOMAIN calls |-> Answer(i)]
    BY <1>9 DEF ToolsReturn
  <2>2. PICK n \in 0..MaxCalls : DOMAIN calls = 1..n /\ n # 0
    BY <1>1, <2>1, CallsCount DEF Waiting, Typed
  <2>3. n \in Nat /\ \A c \in 1..n : Answer(c) \in Messages
    <3> SUFFICES ASSUME NEW c \in 1..n PROVE n \in Nat /\ Answer(c) \in Messages
      BY <2>2, NumbersAre
    <3>1. {c} \in SUBSET (1..MaxCalls)
      BY <2>2, NumbersAre
    <3> QED BY <1>2, <2>2, <3>1, NumbersAre, KindsAre DEF Answer
  <2> DEFINE a == [i \in 1..n |-> Answer(i)]
  <2>4. a \in Seq(Messages) /\ Len(a) = n /\ \A c \in 1..n : a[c] = Answer(c)
    BY <2>3
  <2>5. log' = log \o a
    BY <2>1, <2>2
  <2> HIDE DEF a
  <2>6. /\ log' \in Seq(Messages) /\ Len(log') = Len(log) + n
        /\ \A i \in 1..Len(log)+n : log'[i] = IF i <= Len(log) THEN log[i] ELSE a[i - Len(log)]
    BY <1>2, <2>4, <2>5, ConcatProperties
  <2>7. \A i \in DOMAIN log : log'[i] = log[i] /\ i \in DOMAIN log'
    BY <1>2, <2>3, <2>6
  <2>8. \A c \in 1..n : log'[Len(log) + c] = Answer(c)
    <3> SUFFICES ASSUME NEW c \in 1..n PROVE log'[Len(log) + c] = Answer(c)
      OBVIOUS
    <3>1. Len(log) + c \in 1..Len(log)+n /\ ~(Len(log) + c <= Len(log)) /\ (Len(log) + c) - Len(log) = c
      BY <1>2, <2>3
    <3> QED BY <2>4, <2>6, <3>1
  <2>9. Good(log')
    <3>1. Last(log) = Message("ai", turn.number, turn.round, 1..n) /\ log # <<>>
      BY <1>1, <1>3, <2>1, <2>2 DEF Waiting
    <3>2. \A i \in DOMAIN log : log'[i] = log[i]
      BY <2>7
    <3>3. \A c \in 1..n : log'[Len(log) + c] = Message("tool", turn.number, turn.round, {c})
      BY <2>8 DEF Answer
    <3>4. log' \in Seq(Messages) /\ Len(log') = Len(log) + n /\ n \in Nat /\ n # 0 /\ Good(log)
      BY <1>1, <2>2, <2>3, <2>6
    <3>5. Last(log).kind = "ai" /\ Last(log).calls = 1..n
          /\ Last(log).turn = turn.number /\ Last(log).round = turn.round
      BY <3>1 DEF Message
    <3> QED BY <3>1, <3>2, <3>3, <3>4, <3>5, AnsweredIs
  <2>10. \A i \in DOMAIN log' : i \in DOMAIN log \/ \E c \in 1..n : log'[i] = Answer(c)
    <3> SUFFICES ASSUME NEW i \in DOMAIN log', i \notin DOMAIN log
                 PROVE  \E c \in 1..n : log'[i] = Answer(c)
      OBVIOUS
    <3>1. i - Len(log) \in 1..n /\ Len(log) + (i - Len(log)) = i
      BY <1>2, <2>3, <2>6
    <3> QED BY <2>8, <3>1
  <2>11. \A i : Answer(i).turn = turn.number /\ Answer(i).kind = "tool"
    BY DEF Answer, Message
  <2>12. \A i \in DOMAIN log' : log'[i].turn <= turn.number
    <3>1. turn.number <= turn.number
      BY <1>2
    <3>2. ASSUME NEW i \in DOMAIN log' PROVE log'[i].turn <= turn.number
      <4>1. CASE i \in DOMAIN log
        <5>1. log'[i] = log[i]
          BY <2>7, <4>1
        <5> QED BY <1>1, <4>1, <5>1
      <4>2. CASE \E c \in 1..n : log'[i] = Answer(c)
        BY <2>11, <3>1, <4>2
      <4> QED BY <2>10, <4>1, <4>2
    <3> QED BY <3>2
  <2>13. turn'.number = turn.number /\ turn'.pc \in {"model", "idle"}
         /\ (turn'.pc = "model" => turn'.round = turn.round + 1)
    BY <2>1, GoesOn DEF Places
  <2>14. CASE turn'.pc = "idle"
    BY <1>1, <1>4, <2>1, <2>9, <2>12, <2>13, <2>14
  <2>15. CASE turn'.pc = "model"
    <3>1. AnsweredBefore(turn.round)'
      BY <1>1, <2>1, <2>7, <2>10, <2>11, <2>13, <2>15 DEF AnsweredBefore, Waiting
    <3>2. Asked'
      BY <1>1, <2>1, <2>7, <2>13 DEF Asked
    <3> QED BY <1>1, <2>1, <2>9, <2>12, <2>13, <2>15, <3>1, <3>2 DEF LogInv, Waiting
  <2> QED BY <2>13, <2>14, <2>15
<1>10. CASE CutShort
  <2>1. turn.pc # "idle" /\ turn'.pc = "idle" /\ turn'.number = turn.number /\ UNCHANGED <<log, manual>>
    BY <1>10 DEF CutShort, Over, Typed
  <2> QED BY <1>1, <1>4, <2>1
<1>11. CASE ManualReads
  <2>1. /\ turn.pc = "idle" /\ UNCHANGED <<log, turn>> /\ Len(log) >= 2
        /\ manual'.read = log
    BY <1>11 DEF ManualReads, Locked
  <2>2. log # <<>>
    BY <1>2, <2>1
  <2> QED BY <1>1, <1>4, <2>1, <2>2
<1>12. CASE ManualWrites
  <2>1. /\ manual.reading /\ UNCHANGED turn /\ ~manual'.reading
        /\ \E s \in InUse : \E kept \in Compressed(s, manual.read) : log' = Replace(log, manual.read, kept)
    BY <1>12 DEF ManualWrites, NoRequest
  <2>2. manual.read = log /\ log # <<>> /\ turn.pc = "idle"
    BY <1>1, <2>1
  <2>8. PICK s \in InUse : \E kept \in Compressed(s, log) : log' = Replace(log, log, kept)
    BY <2>1, <2>2
  <2>3. PICK kept \in Compressed(s, log) : log' = Replace(log, log, kept)
    BY <2>8
  <2>4. s \in Strategies
    BY AgentTurnAssumption DEF AgentTurnAssumption
  <2>5. Reduces(log, kept)
    BY <1>1, <2>2, <2>4, CompressedIs
  <2>6. Good(log') /\ Derived(log', log)
    BY <1>1, <2>2, <2>3, <2>5, ReplaceIs DEF Reduces
  <2>7. \A i \in DOMAIN log' : log'[i].turn <= turn.number
    BY <1>1, <2>6, DerivedKeeps
  <2> QED BY <1>4, <2>1, <2>2, <2>6, <2>7
<1>13. CASE Clear
  <2>1. turn.pc = "idle" /\ ~manual.reading /\ log' = <<>> /\ UNCHANGED <<turn, manual>>
    BY <1>13 DEF Clear, Locked
  <2>2. log' \in Seq(Messages) /\ DOMAIN log' = {}
    BY <2>1
  <2>3. Good(log')
    BY <2>1, <2>2 DEF Good, InTurns, InRounds, Owned, Distinct, HeadFirst
  <2> QED BY <1>4, <2>1, <2>2, <2>3
<1>14. CASE UNCHANGED vars
  BY <1>1, <1>14 DEF vars, LogInv, Waiting, AnsweredBefore, Asked
<1> QED BY <1>5, <1>6, <1>7, <1>8, <1>9, <1>10, <1>11, <1>12, <1>13, <1>14 DEF Next

\* graph.py and conversations.py: the checkpoint is a good log and fits the turn, always.
THEOREM LogInvAlways == Spec => []LogInv
<1>1. IInv => Typed
  BY DEF IInv
<1> QED BY <1>1, IInvAlways, LogInitHolds, LogStepHolds, PTL DEF Spec

\* conversations.py:417-435 and graph.py:177-216: whatever was compressed, read and written back
\* later, or cut short, the checkpoint is in the order of the conversation.
THEOREM ChronologicalHolds == Spec => []Chronological
<1>1. LogInv => Chronological
  BY DEF LogInv, Good, InTurns, Chronological
<1> QED BY <1>1, LogInvAlways, PTL

\* sliding_window.py:26-30 and full_summary.py:82-85: no strategy, and no turn that was stopped
\* before, takes the running turn's question or the head of the session from the model.
THEOREM QuestionStandsHolds == Spec => []QuestionStands
<1>1. LogInv => QuestionStands
  <2> SUFFICES ASSUME LogInv, turn.pc # "idle"
               PROVE  /\ \E m \in ToSet(log) : m.kind = "head"
                      /\ \E m \in ToSet(log) : m.kind = "human" /\ m.turn = turn.number
    BY DEF QuestionStands
  <2>1. Good(log) /\ \E i \in DOMAIN log : log[i].kind = "human" /\ log[i].turn = turn.number
    BY DEF LogInv, Asked
  <2>2. log \in Seq(Messages) /\ 1 \in DOMAIN log /\ log # <<>>
    <3>1. log \in Seq(Messages) /\ DOMAIN log # {}
      BY <2>1 DEF Good
    <3> QED BY <3>1
  <2>3. log[1].kind = "head"
    BY <2>1, <2>2 DEF Good, HeadFirst
  <2> QED BY <2>1, <2>2, <2>3 DEF ToSet
<1> QED BY <1>1, LogInvAlways, PTL

\* compression/base.py:182-243 and graph.py:754-770: each call that the model is shown is answered
\* once and directly behind it, however turns were stopped and whatever was compressed.
THEOREM ModelSeesPairsHolds == Spec => []ModelSeesPairs
<1>1. LogInv => ModelSeesPairs
  BY PairingIs DEF LogInv, ModelSeesPairs, View
<1> QED BY <1>1, LogInvAlways, PTL
================================================================================
