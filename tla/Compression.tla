----------------------------- MODULE Compression -----------------------------
(* Conversation compression (agent/compression/) and the repair of tool calls, as
   operators on a sequence of messages.

   Sizes in tokens, the summarising model's answer and thinking blocks are
   abstracted: a strategy yields every sequence that some sizes, and some
   success or failure of the summary, could give. *)
EXTENDS Naturals, Sequences, FiniteSets, SequencesExt

CONSTANT RecentTurns  \* context.compress.recent_turns

ASSUME CompressionAssumption == RecentTurns \in Nat \ {0}

Systems == {"head", "summary", "inject"}
Kinds == Systems \cup {"human", "ai", "tool"}

\* turn and round identify a message among those of its kind; calls are the ids
\* that an "ai" declares, or the one that a "tool" answers.
Message(kind, turn, round, calls) ==
  [kind |-> kind, turn |-> turn, round |-> round, calls |-> calls]

\* Dated by the last message that it stands for.
SummaryOf(middle) == Message("summary", Last(middle).turn, 0, {})

Declares(m) == m.kind = "ai" /\ m.calls # {}

\* The messages at some of the positions, in their order.
Sift(log, kept) == FlattenSeq([i \in DOMAIN log |-> IF i \in kept THEN <<log[i]>> ELSE <<>>])

\* The tool messages that follow position i directly.
Following(log, i) ==
  {j \in i+1..Len(log) : \A k \in i+1..j : log[k].kind = "tool"}

\* Those of them that answer a call declared at i.
Answers(log, i) == {j \in Following(log, i) : log[j].calls \subseteq log[i].calls}

\* An answer for each call that has none, as FlattenSeq needs it.
Placeholders(m, answered) ==
  SetToSeq({Message("tool", m.turn, m.round, {c}) : c \in m.calls \ answered})

\* A slip: calls without an answer are left as they are.
PairingUnfilled(log) ==
  Sift(log, {j \in DOMAIN log : log[j].kind # "tool"
                \/ \E i \in DOMAIN log : Declares(log[i]) /\ log[j].calls \subseteq log[i].calls})

\* What stands for the message at i: a call has its answers behind it.
Repaired(log, i) ==
  IF Declares(log[i])
  THEN <<log[i]>> \o Sift(log, Answers(log, i))
         \o Placeholders(log[i], UNION {log[j].calls : j \in Answers(log, i)})
  ELSE IF log[i].kind = "tool" THEN <<>> ELSE <<log[i]>>

\* ensure_tool_pairing: answers stay behind their call, those that belong to no
\* call just before them go, and missing ones are filled in.
EnsureToolPairing(log) == FlattenSeq([i \in DOMAIN log |-> Repaired(log, i)])

\* What a provider accepts: every call answered, once, directly behind it, and no
\* answer elsewhere.
Paired(log) ==
  /\ \A i \in DOMAIN log : Declares(log[i]) =>
       LET run == Following(log, i)
       IN  /\ Cardinality(run) = Cardinality(log[i].calls)
           /\ UNION {log[j].calls : j \in run} = log[i].calls
  /\ \A i \in DOMAIN log : log[i].kind = "tool" =>
       \E j \in 1..i-1 : Declares(log[j]) /\ i \in Following(log, j)

------------------------------------------------------------------------------
(* Units and turns are stretches of the log, known by the positions they begin at. *)

IsSystem(m) == m.kind \in Systems

\* group_atomic_units: a call and the answers behind it, or a single message.
InUnitOf(log, i, j) ==
  /\ Declares(log[i])
  /\ j \in Following(log, i)
  /\ \A k \in i+1..j : log[k].calls \subseteq log[i].calls

Units(log) == {j \in DOMAIN log : ~\E i \in 1..j-1 : InUnitOf(log, i, j)}

\* A slip: nothing protects the head.
NoHead(log) == 0 * Len(log)

\* leading_system_unit_count: a system message is a unit of its own.
HeadUnits(log) == Cardinality({p \in DOMAIN log : \A q \in 1..p : IsSystem(log[q])})

\* leading_protected_head_count: without the summaries that end the head.
ProtectedHead(log) ==
  LET n == HeadUnits(log)
  IN  Cardinality({p \in 1..n : \E q \in p..n : log[q].kind # "summary"})

\* split_turns, behind the head: a turn is a human message with the system messages
\* just before it and everything up to the next turn.  What precedes the first is in
\* none, unless there is no human message at all.
Turns(log) ==
  LET head == ProtectedHead(log)
      human == {p \in head+1..Len(log) : log[p].kind = "human"}
      injected(p) == {q \in head+1..p : \A r \in q..p-1 : IsSystem(log[r])}
  IN  IF human = {} THEN {head + 1} ELSE {Min(injected(p)) : p \in human}

------------------------------------------------------------------------------
(* Strategies *)

From(log, p) == SubSeq(log, p, Len(log))

\* SlidingWindowCompressor: the oldest units behind the head go, the last stays.
SlidingWindow(log) ==
  LET head == HeadUnits(log)
  IN  {SubSeq(log, 1, head) \o From(log, cut) :
         cut \in {p \in Units(log) : p > head} \cup {head + 1}}

\* FullSummaryCompressor (recent = 1) and SummaryRecentCompressor: the last turns
\* stay, as many as fit, and a summary replaces the turns before them.
Summarised(log, recent) ==
  LET middle(p) == SubSeq(log, Min(Turns(log)), p - 1)
  IN  {IF middle(p) = <<>> THEN log
       ELSE SubSeq(log, 1, ProtectedHead(log)) \o <<SummaryOf(middle(p))>> \o From(log, p) :
         p \in {p \in Turns(log) : Cardinality({t \in Turns(log) : t >= p}) <= recent}}

Strategies == {"sliding_window", "full_summary", "summary_recent"}

\* Without a summary, or without room for it, the oldest units go.
Compressed(strategy, log) ==
  SlidingWindow(log)
    \cup (CASE strategy = "sliding_window" -> {}
            [] strategy = "full_summary" -> Summarised(log, 1)
            [] strategy = "summary_recent" -> Summarised(log, RecentTurns))

\* _messages_state_update applied by the reducer: what only loses messages loses them
\* in place; anything else is taken out and appended anew.
Replace(current, before, after) ==
  LET gone == ToSet(before) \ ToSet(after)
  IN  IF ToSet(after) \subseteq ToSet(before)
      THEN Sift(current, {i \in DOMAIN current : current[i] \notin gone})
      ELSE Sift(current, {i \in DOMAIN current : current[i] \notin ToSet(before)}) \o after
==============================================================================
