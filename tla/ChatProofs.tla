------------------------------ MODULE ChatProofs ------------------------------
(***************************************************************************)
(* Proofs about ConversationStore and FrameRelay, what is kept and what is *)
(* shown of the turns of chat, for any number of workers, conversations,   *)
(* endpoints, requests, turns and connections.                             *)
(*                                                                         *)
(* Both invariants of the store are about what a turn may still do: before *)
(* its question it has left no trace anywhere; from its question on it     *)
(* holds the lock of its conversation as long as it may still write, so    *)
(* that its messages stay the last ones, and nothing of it has been wiped; *)
(* after that it writes no more.  That a worker's steps come in such an    *)
(* order is a property of what it has still to do (Sound), which holds of  *)
(* the programs and of whatever is left of them, also by a stop.  Turns    *)
(* from QQ take no lock; of the conversation that they write to nothing is *)
(* claimed.                                                                *)
(*                                                                         *)
(* From the same invariant, every other conversation is a Dialogue: the    *)
(* turn that began and holds the lock has the floor; nobody else moves.    *)
(*                                                                         *)
(* RelayKeepsFaith is about what an inbox holds at each state of its turn  *)
(* (Served, Told), and about what a connection that stops a turn may count *)
(* on (Stopping, Hears).                                                   *)
(***************************************************************************)
EXTENDS ConversationStore, FrameRelay, SequenceTheorems, TLAPS

------------------------------------------------------------------------------
(* What is left of a program *)

In(s, p) == \E k \in 1..Len(p) : p[k] = s

TurnSteps == {"ask", "trace", "think", "answer"}
SweepSteps == {"wipe", "untrace", "drop", "forget"}
QQSteps == TurnSteps \cup {"name?", "name"}
Inner == TurnSteps \cup SweepSteps
Steps ==
  Inner \cup {"where", "lock", "unlock", "provider", "window", "name?", "name", "endpoint", "model"}

\* Whether the step a may come before b, anywhere in a program, and next to it.
Before(a, b) ==
  /\ b # "where"
  /\ b \in {"ask", "lock"} => a \in {"where", "provider", "window"} \cup (IF b = "ask" THEN {"lock"} ELSE {})
  /\ b \in {"think", "answer"} => a # "answer"
  /\ b = "unlock" => a # "unlock"
  /\ b \in Inner => a # "unlock"
  /\ b \in TurnSteps => a \notin SweepSteps
NextTo(a, b) ==
  /\ b = "untrace" => a = "wipe"
  /\ b = "forget" => a \in {"untrace", "drop"}

Sound(p) ==
  /\ p \in Seq(Steps)
  /\ \A i, j \in 1..Len(p) : i < j => Before(p[i], p[j])
  /\ \A i \in 1..(Len(p) - 1) : NextTo(p[i], p[i + 1])
  /\ (In("lock", p) \/ In("where", p)) /\ (\E s \in TurnSteps : In(s, p)) => In("ask", p)
  /\ In("where", p) => In("lock", p)

\* Whatever takes the lock or needs it gives it back.
Guarded(p) == (\E s \in Inner \cup {"lock"} : In(s, p)) => In("unlock", p)
FromQQ(p) == \A k \in 1..Len(p) : p[k] \in QQSteps

InTurn(p) == \E s \in TurnSteps : In(s, p)

------------------------------------------------------------------------------
(* The state *)

Pairs == [endpoint : Bindable \cup {Unbound}, model : Bindable \cup {Unbound}]

Jobs ==
  [todo : Seq(Steps), conv : Convs \cup {Nowhere}, turn : Nat, pair : Pairs,
   window : Bindable \cup {Unbound}, before : SUBSET Nat]

Typed ==
  /\ conv \in [Convs -> [state : {"unborn", "there", "gone"}, name : {"none", "user", "auto"},
                         endpoint : Bindable \cup {Unbound}, model : Bindable \cup {Unbound}]]
  /\ log \in [Convs -> Seq({"user", "assistant"} \X Nat)]
  /\ trail \in [Convs -> SUBSET Nat] /\ thread \in [Convs -> SUBSET Nat]
  /\ keeper \in [Convs -> Actors \cup {Nowhere}]
  /\ work \in [Actors -> {Resting} \cup Jobs]
  /\ dedicated \in Convs \cup {Nowhere} /\ qq \in Convs \cup {Nowhere}
  /\ known \in [count : Nat, turns : Nat, begun : [Convs -> SUBSET Nat], wiped : [Convs -> SUBSET Nat]]

Holds(w) == In("unlock", work[w].todo) /\ ~In("lock", work[w].todo)

\* What is left to a worker makes sense, and it holds the lock when it has to.
Planned(w) ==
  LET p == work[w].todo IN
  AtWork(w) =>
    /\ p # <<>> /\ Sound(p)
    /\ Guarded(p) \/ (Of(w) = qq /\ FromQQ(p))
    /\ ~In("where", p) => Of(w) \in Convs
    /\ work[w].turn <= known.turns
    /\ InTurn(p) => work[w].turn # 0
    /\ work[w].turn # 0 /\ In("lock", p) => In("ask", p)
    /\ \A s \in SweepSteps : In(s, p) => work[w].turn = 0
    /\ Holds(w) => keeper[Of(w)] = w

\* Nothing of a turn that has not begun is anywhere.
Unbegun(w) ==
  AtWork(w) /\ In("ask", work[w].todo) =>
    \A c \in Convs :
      /\ work[w].turn \notin known.begun[c]
      /\ \A k \in 1..Len(log[c]) : log[c][k][2] # work[w].turn

\* The messages of a turn that may still write are the last ones.
Pending(w) ==
  AtWork(w) /\ InTurn(work[w].todo) /\ ~In("ask", work[w].todo) /\ Of(w) # qq =>
    \A j, k \in 1..Len(log[Of(w)]) :
      log[Of(w)][j][2] = work[w].turn /\ j <= k => log[Of(w)][k][2] = work[w].turn

\* It has begun.
Begun(w) ==
  AtWork(w) /\ InTurn(work[w].todo) /\ ~In("ask", work[w].todo) =>
    Of(w) \in Convs /\ work[w].turn \in known.begun[Of(w)]

\* What may still be written was not wiped.
Unwiped(w) ==
  AtWork(w) /\ InTurn(work[w].todo) /\ ~In("ask", work[w].todo) /\ Of(w) # qq =>
    work[w].turn \notin known.wiped[Of(w)]

\* What a clearing or a deletion has come to.
Swept(w) ==
  LET c == Of(w) IN
  Doing(w) \in {"untrace", "forget"} =>
    /\ work[w].before \subseteq known.begun[c] /\ conv[c].state # "unborn"
    /\ c # qq => log[c] = <<>> /\ (Doing(w) = "forget" /\ There(c) => trail[c] = {})

WorkInv(w) == Planned(w) /\ Unbegun(w) /\ Pending(w) /\ Begun(w) /\ Unwiped(w) /\ Swept(w)

Numbered ==
  /\ known.turns <= known.count /\ known.count <= Bound
  /\ \A v, w \in Actors :
       AtWork(v) /\ AtWork(w) /\ work[v].turn = work[w].turn /\ work[v].turn # 0 => v = w
  /\ \A c \in Convs :
       /\ known.wiped[c] \subseteq known.begun[c]
       /\ known.begun[c] \cup trail[c] \cup thread[c] \subseteq 1..known.turns
       /\ \A k \in 1..Len(log[c]) : log[c][k][2] \in 1..known.turns
       /\ conv[c].state = "unborn" => known.wiped[c] = {}

IInv ==
  /\ Typed
  /\ \A w \in Actors : WorkInv(w)
  /\ Numbered
  /\ AnswersFollow /\ WipedStaysWiped

------------------------------------------------------------------------------
(* Programs, and what is left of them *)

LEMMA PlanTail ==
  ASSUME NEW p, Sound(p), p # <<>>
  PROVE  /\ Sound(Tail(p)) /\ Head(p) \in Steps
         /\ \A s : In(s, p) <=> s = Head(p) \/ In(s, Tail(p))
         /\ \A s : In(s, Tail(p)) => Before(Head(p), s)
         /\ Tail(p) # <<>> => In(Head(Tail(p)), Tail(p)) /\ NextTo(Head(p), Head(Tail(p)))
         /\ Guarded(p) => Guarded(Tail(p))
         /\ FromQQ(p) => FromQQ(Tail(p))
<1> DEFINE q == Tail(p)
<1>1. /\ p \in Seq(Steps) /\ Len(p) \in Nat /\ Len(p) # 0
      /\ q \in Seq(Steps) /\ Len(q) = Len(p) - 1
      /\ Head(p) = p[1] /\ Head(p) \in Steps /\ \A i \in 1..Len(q) : q[i] = p[i + 1]
  BY EmptySeq DEF Sound
<1>2. q # <<>> => 1 \in 1..Len(q) /\ Head(q) = q[1]
  BY <1>1, EmptySeq
<1> HIDE DEF q
<1>3. ASSUME NEW s PROVE In(s, p) <=> s = Head(p) \/ In(s, q)
  <2>1. ASSUME In(s, p) PROVE s = Head(p) \/ In(s, q)
    <3>1. PICK k \in 1..Len(p) : p[k] = s
      BY <2>1 DEF In
    <3>2. k # 1 => k - 1 \in 1..Len(q) /\ q[k - 1] = s
      BY <1>1, <3>1
    <3> QED
      BY <1>1, <3>1, <3>2 DEF In
  <2>2. ASSUME In(s, q) PROVE In(s, p)
    <3>1. PICK k \in 1..Len(q) : q[k] = s
      BY <2>2 DEF In
    <3>2. k + 1 \in 1..Len(p) /\ p[k + 1] = s
      BY <1>1, <3>1
    <3> QED
      BY <3>2 DEF In
  <2>3. 1 \in 1..Len(p)
    BY <1>1
  <2> QED
    BY <1>1, <2>1, <2>2, <2>3 DEF In
<1>4. ASSUME NEW s, In(s, q) PROVE Before(Head(p), s)
  <2>1. PICK k \in 1..Len(q) : q[k] = s
    BY <1>4 DEF In
  <2>2. k + 1 \in 1..Len(p) /\ 1 \in 1..Len(p) /\ 1 < k + 1 /\ p[k + 1] = s
    BY <1>1, <2>1
  <2> QED
    BY <1>1, <2>2 DEF Sound
<1>5. q # <<>> => In(Head(q), q) /\ NextTo(Head(p), Head(q))
  BY <1>1, <1>2 DEF In, Sound
<1>6. \A i, j \in 1..Len(q) : i < j => Before(q[i], q[j])
  BY <1>1 DEF Sound
<1>7. \A i \in 1..(Len(q) - 1) : NextTo(q[i], q[i + 1])
  BY <1>1 DEF Sound
<1>8. (In("lock", q) \/ In("where", q)) /\ (\E s \in TurnSteps : In(s, q)) => In("ask", q)
  <2> SUFFICES ASSUME In("lock", q) \/ In("where", q), \E s \in TurnSteps : In(s, q) PROVE In("ask", q)
    OBVIOUS
  <2>1. In("ask", p)
    BY <1>3 DEF Sound
  <2>2. Head(p) # "ask"
    BY <1>4 DEF Before
  <2> QED
    BY <1>3, <2>1, <2>2
<1>9. ~In("where", q)
  BY <1>3, <1>4 DEF Before, Sound
<1>10. Guarded(p) => Guarded(q)
  <2> SUFFICES ASSUME Guarded(p), NEW s \in Inner \cup {"lock"}, In(s, q) PROVE In("unlock", q)
    BY DEF Guarded
  <2>1. In("unlock", p)
    BY <1>3 DEF Guarded
  <2>2. Head(p) # "unlock"
    BY <1>4 DEF Before
  <2> QED
    BY <1>3, <2>1, <2>2
<1>11. FromQQ(p) => FromQQ(q)
  BY <1>1 DEF FromQQ
<1> QED
  BY <1>1, <1>3, <1>4, <1>5, <1>6, <1>7, <1>8, <1>9, <1>10, <1>11 DEF q, Sound

\* The programs, and what is left when one breaks off.
Broken == {<<"unlock">>, <<"answer", "trace", "unlock">>, <<"answer", "trace">>}
Programmes == {Turn, LockedTurn, PromptTurn, QQTurn, Clear, Delete, Bind}

LEMMA Positions ==
  /\ \A p \in {Turn, LockedTurn, PromptTurn} :
       In("ask", p) /\ In("answer", p) /\ In("lock", p) /\ In("unlock", p)
  /\ In("ask", QQTurn) /\ In("answer", QQTurn)
  /\ \A p \in {Clear, Delete} : In("lock", p) /\ In("unlock", p)
  /\ \A p \in {Clear, Delete, Bind, <<"unlock">>} : ~InTurn(p)
  /\ ~In("unlock", QQTurn) /\ ~In("lock", QQTurn) /\ ~In("unlock", Bind)
  /\ \A p \in (Programmes \cup Broken) \ {PromptTurn} : ~In("where", p)
  /\ \A p \in Broken : ~In("lock", p) /\ ~In("ask", p) /\ ~In("think", p)
  /\ \A p \in Broken \ {<<"answer", "trace">>} : In("unlock", p)
  /\ \A p \in (Programmes \cup Broken) \ {Clear, Delete} : \A s \in SweepSteps : ~In(s, p)
<1>1. /\ Turn[4] = "ask" /\ Turn[7] = "answer" /\ Turn[3] = "lock" /\ Turn[9] = "unlock"
      /\ {3, 4, 7, 9} \subseteq 1..Len(Turn)
  BY DEF Turn
<1>2. /\ LockedTurn[4] = "ask" /\ LockedTurn[7] = "answer" /\ LockedTurn[1] = "lock"
      /\ LockedTurn[9] = "unlock" /\ {1, 4, 7, 9} \subseteq 1..Len(LockedTurn)
  BY DEF LockedTurn
<1>3. /\ PromptTurn[4] = "ask" /\ PromptTurn[7] = "answer" /\ PromptTurn[2] = "lock"
      /\ PromptTurn[9] = "unlock" /\ {2, 4, 7, 9} \subseteq 1..Len(PromptTurn)
  BY DEF PromptTurn
<1>4. /\ QQTurn[1] = "ask" /\ QQTurn[4] = "answer" /\ {1, 4} \subseteq 1..Len(QQTurn)
  BY DEF QQTurn
<1>5. /\ Clear[1] = "lock" /\ Clear[5] = "unlock" /\ {1, 5} \subseteq 1..Len(Clear)
      /\ Delete[1] = "lock" /\ Delete[4] = "unlock" /\ {1, 4} \subseteq 1..Len(Delete)
  BY DEF Clear, Delete
<1>6. \A p \in {Clear, Delete, Bind, <<"unlock">>} : ~InTurn(p)
  BY DEF Clear, Delete, Bind, InTurn, TurnSteps, In
<1>7. ~In("unlock", QQTurn) /\ ~In("lock", QQTurn) /\ ~In("unlock", Bind)
  BY DEF QQTurn, Bind, In
<1>8. \A p \in {Turn, LockedTurn, QQTurn, Clear, Delete, Bind} \cup Broken : ~In("where", p)
  BY DEF Turn, LockedTurn, QQTurn, Clear, Delete, Bind, Broken, In
<1>9. \A p \in Broken : ~In("lock", p) /\ ~In("ask", p) /\ ~In("think", p)
  BY DEF Broken, In
<1>10. \A p \in Broken \ {<<"answer", "trace">>} : In("unlock", p)
  <2>1. <<"unlock">>[1] = "unlock" /\ 1 \in 1..Len(<<"unlock">>)
    OBVIOUS
  <2>2. <<"answer", "trace", "unlock">>[3] = "unlock" /\ 3 \in 1..Len(<<"answer", "trace", "unlock">>)
    OBVIOUS
  <2> QED
    BY <2>1, <2>2 DEF Broken, In
<1>11. \A p \in {Turn, LockedTurn, PromptTurn} :
         In("ask", p) /\ In("answer", p) /\ In("lock", p) /\ In("unlock", p)
  BY <1>1, <1>2, <1>3 DEF In
<1>12. In("ask", QQTurn) /\ In("answer", QQTurn)
  BY <1>4 DEF In
<1>13. \A p \in {Clear, Delete} : In("lock", p) /\ In("unlock", p)
  BY <1>5 DEF In
<1>14. \A p \in (Programmes \cup Broken) \ {Clear, Delete} : \A s \in SweepSteps : ~In(s, p)
  <2> DEFINE Right(p) == \A s \in SweepSteps : ~In(s, p)
  <2>1. Right(Turn) /\ Right(LockedTurn)
    BY DEF Turn, LockedTurn, SweepSteps, In
  <2>2. Right(PromptTurn) /\ Right(QQTurn) /\ Right(Bind)
    BY DEF PromptTurn, QQTurn, Bind, SweepSteps, In
  <2>3. \A p \in Broken : Right(p)
    BY DEF Broken, SweepSteps, In
  <2> QED
    BY <2>1, <2>2, <2>3 DEF Programmes
<1> QED
  BY <1>6, <1>7, <1>8, <1>9, <1>10, <1>11, <1>12, <1>13, <1>14 DEF Programmes

LEMMA ProgramsAreSound ==
  \A p \in Programmes \cup Broken :
    /\ Sound(p) /\ p # <<>>
    /\ Guarded(p) \/ (p \in {QQTurn, <<"answer", "trace">>} /\ FromQQ(p))
    /\ ~(In("unlock", p) /\ ~In("lock", p)) \/ p \in Broken
    /\ InTurn(p) => In("ask", p) \/ p \in Broken
    /\ Head(p) \notin {"untrace", "forget"}
<1> DEFINE All == Programmes \cup Broken
<1>1. \A p \in All : p \in Seq(Steps) /\ p # <<>> /\ Head(p) \notin {"untrace", "forget"}
  <2> DEFINE Right(p) == p \in Seq(Steps) /\ p # <<>> /\ Head(p) \notin {"untrace", "forget"}
  <2>1. Right(Turn) /\ Right(LockedTurn) /\ Right(PromptTurn) /\ Right(QQTurn)
    BY DEF Turn, LockedTurn, PromptTurn, QQTurn, Steps, Inner, TurnSteps, SweepSteps
  <2>2. Right(Clear) /\ Right(Delete) /\ Right(Bind)
    BY DEF Clear, Delete, Bind, Steps, Inner, TurnSteps, SweepSteps
  <2>3. Right(<<"unlock">>)
    BY DEF Steps
  <2>4. Right(<<"answer", "trace">>) /\ Right(<<"answer", "trace", "unlock">>)
    BY DEF Steps, Inner, TurnSteps
  <2> QED
    BY <2>1, <2>2, <2>3, <2>4 DEF Programmes, Broken
<1>2. \A p \in All : \A i, j \in 1..Len(p) : i < j => Before(p[i], p[j])
  <2> DEFINE Right(p) == \A i, j \in 1..Len(p) : i < j => Before(p[i], p[j])
  <2>1. Right(Turn)
    BY DEF Turn, Before, Inner, TurnSteps, SweepSteps
  <2>2. Right(LockedTurn)
    BY DEF LockedTurn, Before, Inner, TurnSteps, SweepSteps
  <2>3. Right(PromptTurn)
    BY DEF PromptTurn, Before, Inner, TurnSteps, SweepSteps
  <2>4. Right(QQTurn)
    BY DEF QQTurn, Before, Inner, TurnSteps, SweepSteps
  <2>5. Right(Clear) /\ Right(Delete) /\ Right(Bind)
    BY DEF Clear, Delete, Bind, Before, Inner, TurnSteps, SweepSteps
  <2>6. \A p \in Broken : Right(p)
    BY DEF Broken, Before, Inner, TurnSteps, SweepSteps
  <2> QED
    BY <2>1, <2>2, <2>3, <2>4, <2>5, <2>6 DEF Programmes
<1>3. \A p \in All : \A i \in 1..(Len(p) - 1) : NextTo(p[i], p[i + 1])
  BY SMTT(30) DEF Programmes, Broken, Turn, LockedTurn, PromptTurn, QQTurn, Clear, Delete, Bind, NextTo
<1>4. FromQQ(QQTurn) /\ FromQQ(<<"answer", "trace">>)
  BY DEF QQTurn, FromQQ, QQSteps, TurnSteps
<1>5. Guarded(Bind)
  BY DEF Bind, Guarded, Inner, TurnSteps, SweepSteps, In
<1>6. ~In("lock", Bind) /\ \A s \in {"ask", "think"}, p \in {Bind, Clear, Delete} : ~In(s, p)
  BY DEF Bind, Clear, Delete, In
<1> HIDE DEF All
<1>7. \A p \in All \ {QQTurn, <<"answer", "trace">>} : Guarded(p)
  BY <1>5, Positions DEF Guarded, All, Programmes, Broken
<1>8. \A p \in All :
        /\ (In("lock", p) \/ In("where", p)) /\ InTurn(p) => In("ask", p)
        /\ In("where", p) => In("lock", p)
  BY <1>6, Positions DEF All, Programmes, Broken
<1>9. \A p \in All : Sound(p)
  BY <1>1, <1>2, <1>3, <1>8 DEF Sound, InTurn
<1>10. \A p \in All :
         /\ ~(In("unlock", p) /\ ~In("lock", p)) \/ p \in Broken
         /\ InTurn(p) => In("ask", p) \/ p \in Broken
  BY Positions DEF All, Programmes, Broken
<1> QED
  BY <1>1, <1>4, <1>7, <1>9, <1>10 DEF All

\* What may be left of p, when its first step is done.
Left(q, p) ==
  /\ q # <<>> /\ Sound(q) /\ ~In("where", q)
  /\ Guarded(p) => Guarded(q)
  /\ FromQQ(p) => FromQQ(q)
  /\ InTurn(q) => InTurn(p)
  /\ \A s \in {"ask", "lock", "unlock"} \cup SweepSteps : In(s, q) => In(s, p)
  /\ In("lock", q) /\ In("ask", p) => In("ask", q)
  /\ In("lock", p) => In("lock", q) \/ Head(p) = "lock"
  /\ In("ask", p) => In("ask", q) \/ Head(p) = "ask" \/ ~InTurn(q)
  /\ Head(p) = "unlock" => ~In("unlock", q)
  /\ Head(p) \in Inner => ~In("ask", q)
  /\ Head(p) \in SweepSteps => ~InTurn(q)
  /\ Head(q) \notin {"untrace", "forget"} \/ NextTo(Head(p), Head(q))

LEMMA TailIsLeft ==
  ASSUME NEW p, Sound(p), p # <<>>, Tail(p) # <<>>, Guarded(p) \/ FromQQ(p)
  PROVE  Left(Tail(p), p)
<1> DEFINE q == Tail(p)
<1>1. /\ Sound(q) /\ \A s : In(s, p) <=> s = Head(p) \/ In(s, q)
      /\ \A s : In(s, q) => Before(Head(p), s)
      /\ NextTo(Head(p), Head(q)) /\ (Guarded(p) => Guarded(q)) /\ (FromQQ(p) => FromQQ(q))
  BY PlanTail
<1> HIDE DEF q
<1>2. ~In("where", q)
  BY <1>1 DEF Before
<1>3. InTurn(q) => InTurn(p)
  BY <1>1 DEF InTurn
<1>4. /\ Head(p) = "unlock" => ~In("unlock", q)
      /\ Head(p) \in Inner => ~In("ask", q)
      /\ In("lock", q) /\ In("ask", p) => In("ask", q)
  BY <1>1 DEF Before, Inner, TurnSteps, SweepSteps
<1>5. Head(p) \in SweepSteps => ~InTurn(q)
  BY <1>1 DEF InTurn, Before
<1> QED
  BY <1>1, <1>2, <1>3, <1>4, <1>5 DEF q, Left

\* What is left when a sweep gives up, or when a turn breaks off that has its lock,
\* or never takes one; and what it said is kept only once it has asked.
LEMMA WhatBreaksOff ==
  ASSUME NEW p, Sound(p), p # <<>>, Guarded(p) \/ FromQQ(p), ~In("lock", p)
  PROVE  /\ Head(p) \in SweepSteps => Left(<<"unlock">>, p)
         /\ Head(p) \in Stoppable /\ In("unlock", p) => Left(<<"unlock">>, p)
         /\ Head(p) \in {"trace", "think", "answer"} /\ In("unlock", p) =>
              Left(<<"answer", "trace", "unlock">>, p)
         /\ Head(p) \in {"trace", "think", "answer"} /\ ~In("unlock", p) =>
              Left(<<"answer", "trace">>, p)
<1>1. /\ \A s : In(s, p) <=> s = Head(p) \/ In(s, Tail(p))
      /\ \A s : In(s, Tail(p)) => Before(Head(p), s)
  BY PlanTail
<1>2. Head(p) \in {"trace", "think", "answer"} \cup SweepSteps => ~In("ask", p)
  BY <1>1 DEF Before, SweepSteps
<1>3. FromQQ(p) => Head(p) \in QQSteps /\ ~In("unlock", p)
  <2>1. p \in Seq(Steps) /\ Len(p) \in Nat /\ Len(p) # 0 /\ Head(p) = p[1]
    BY EmptySeq DEF Sound
  <2>2. 1 \in 1..Len(p)
    BY <2>1
  <2> QED
    BY <2>1, <2>2 DEF FromQQ, In, QQSteps, TurnSteps
<1>4. Head(p) \in SweepSteps => In("unlock", p) /\ ~FromQQ(p)
  <2>1. SweepSteps \cap QQSteps = {}
    BY DEF SweepSteps, QQSteps, TurnSteps
  <2> QED
    BY <1>1, <1>3, <2>1 DEF Guarded, Inner
<1>5. Head(p) \in {"trace", "think", "answer"} => InTurn(p) /\ Head(p) \in Inner
  BY <1>1 DEF InTurn, TurnSteps, Inner
<1>6. /\ \A q \in Broken : Sound(q) /\ q # <<>> /\ ~In("where", q) /\ ~In("lock", q) /\ ~In("ask", q)
      /\ Guarded(<<"unlock">>) /\ Guarded(<<"answer", "trace", "unlock">>)
      /\ FromQQ(<<"answer", "trace">>) /\ ~InTurn(<<"unlock">>)
      /\ \A q \in Broken : \A s \in SweepSteps : ~In(s, q)
  <2>1. \A q \in Broken : Sound(q) /\ q # <<>>
    BY ProgramsAreSound
  <2>2. \A q \in Broken : ~In("where", q) /\ ~In("lock", q) /\ ~In("ask", q)
    <3>1. PromptTurn \notin Broken
      BY Positions
    <3> QED
      BY <3>1, Positions
  <2>3. In("unlock", <<"unlock">>) /\ In("unlock", <<"answer", "trace", "unlock">>)
    BY Positions DEF Broken
  <2>4. FromQQ(<<"answer", "trace">>)
    BY DEF FromQQ, QQSteps, TurnSteps
  <2>5. ~InTurn(<<"unlock">>)
    BY Positions
  <2>6. \A q \in Broken : \A s \in SweepSteps : ~In(s, q)
    <3>1. \A q \in Broken : ~In("lock", q)
      BY Positions
    <3>2. Clear \notin Broken /\ Delete \notin Broken
      BY <3>1, Positions
    <3> QED
      BY <3>2, Positions
  <2> QED
    BY <2>1, <2>2, <2>3, <2>4, <2>5, <2>6 DEF Guarded
<1>7. /\ ~In("unlock", <<"answer", "trace">>)
      /\ Head(<<"unlock">>) = "unlock" /\ Head(<<"answer", "trace">>) = "answer"
      /\ Head(<<"answer", "trace", "unlock">>) = "answer"
  BY DEF In
<1>8. SweepSteps \cap {"answer", "unlock", "trace", "think", "ask", "lock"} = {} /\ "unlock" \notin Stoppable
      /\ Stoppable \cap SweepSteps = {}
  BY DEF SweepSteps, Stoppable
<1>9. Head(p) \in SweepSteps => Left(<<"unlock">>, p)
  BY <1>2, <1>4, <1>6, <1>7, <1>8 DEF Left, Broken
<1>10. Head(p) \in Stoppable /\ In("unlock", p) => Left(<<"unlock">>, p)
  BY <1>3, <1>6, <1>7, <1>8 DEF Left, Broken
<1>11. Head(p) \in {"trace", "think", "answer"} /\ In("unlock", p) =>
         Left(<<"answer", "trace", "unlock">>, p)
  BY <1>2, <1>3, <1>5, <1>6, <1>7, <1>8 DEF Left, Broken
<1>12. Head(p) \in {"trace", "think", "answer"} /\ ~In("unlock", p) => Left(<<"answer", "trace">>, p)
  BY <1>1, <1>2, <1>5, <1>6, <1>7, <1>8 DEF Left, Broken, Guarded
<1> QED
  BY <1>9, <1>10, <1>11, <1>12

------------------------------------------------------------------------------
(* The worker of a step *)

\* What a step leaves to its worker.
Moved(w) ==
  /\ work' \in [Actors -> {Resting} \cup Jobs]
  /\ \A v \in Actors \ {w} : work'[v] = work[v]
  /\ \/ work'[w] = Resting
     \/ /\ work'[w] \in Jobs /\ Left(work'[w].todo, work[w].todo)
        /\ work'[w].turn = work[w].turn
        /\ work'[w].conv \in Convs /\ (Doing(w) # "where" => work'[w].conv = work[w].conv)

LEMMA AtWorkOn ==
  ASSUME Typed, NEW w \in Actors, Planned(w), AtWork(w) \/ Doing(w) # "none"
  PROVE  /\ AtWork(w) /\ work[w] \in Jobs /\ Doing(w) = Head(work[w].todo)
         /\ work[w].todo # <<>> /\ Sound(work[w].todo) /\ Doing(w) \in Steps
         /\ Guarded(work[w].todo) \/ (Of(w) = qq /\ FromQQ(work[w].todo))
         /\ ~In("where", work[w].todo) => Of(w) \in Convs
         /\ InTurn(work[w].todo) => work[w].turn # 0
         /\ In(Doing(w), work[w].todo) /\ (Doing(w) # "where" => ~In("where", work[w].todo))
         /\ FromQQ(work[w].todo) => Doing(w) \in QQSteps
<1>1. AtWork(w) /\ work[w] \in Jobs /\ Doing(w) = Head(work[w].todo)
  BY DEF Typed, AtWork, Doing
<1> DEFINE p == work[w].todo
<1>2. /\ p # <<>> /\ Sound(p)
      /\ Guarded(p) \/ (Of(w) = qq /\ FromQQ(p))
      /\ ~In("where", p) => Of(w) \in Convs
      /\ InTurn(p) => work[w].turn # 0
  BY <1>1 DEF Planned
<1> HIDE DEF p
<1>3. /\ Head(p) \in Steps /\ \A s : In(s, p) <=> s = Head(p) \/ In(s, Tail(p))
      /\ \A s : In(s, Tail(p)) => Before(Head(p), s)
  BY <1>2, PlanTail
<1>4. FromQQ(p) => Head(p) \in QQSteps
  <2>1. p \in Seq(Steps) /\ Len(p) \in Nat /\ Len(p) # 0 /\ Head(p) = p[1]
    BY <1>2, EmptySeq DEF Sound
  <2>2. 1 \in 1..Len(p)
    BY <2>1
  <2> QED
    BY <2>1, <2>2 DEF FromQQ
<1>5. Head(p) # "where" => ~In("where", p)
  BY <1>3 DEF Before
<1> QED
  BY <1>1, <1>2, <1>3, <1>4, <1>5 DEF p

\* Who has begun its turn, or sweeps, holds the lock, but for QQ.
LEMMA Holder ==
  ASSUME Typed, NEW w \in Actors, Planned(w), AtWork(w)
  PROVE  /\ InTurn(work[w].todo) /\ ~In("ask", work[w].todo) /\ Of(w) # qq => Holds(w)
         /\ Doing(w) \in TurnSteps /\ Of(w) # qq => Holds(w)
         /\ Doing(w) \in SweepSteps \cup {"unlock"} => Holds(w)
         /\ Holds(w) => Of(w) \in Convs /\ keeper[Of(w)] = w
<1> DEFINE p == work[w].todo
<1>1. /\ Doing(w) = Head(p) /\ p # <<>> /\ Sound(p) /\ In(Head(p), p)
      /\ Guarded(p) \/ (Of(w) = qq /\ FromQQ(p))
      /\ ~In("where", p) => Of(w) \in Convs
      /\ FromQQ(p) => Head(p) \in QQSteps
  BY AtWorkOn
<1>2. Holds(w) => keeper[Of(w)] = w
  BY DEF Planned
<1>3. Holds(w) <=> In("unlock", p) /\ ~In("lock", p)
  BY DEF Holds
<1> HIDE DEF p
<1>4. Holds(w) => Of(w) \in Convs /\ keeper[Of(w)] = w
  BY <1>1, <1>2, <1>3 DEF Sound
<1>5. ASSUME InTurn(p), ~In("ask", p), Of(w) # qq PROVE Holds(w)
  <2>1. In("unlock", p)
    BY <1>1, <1>5 DEF Guarded, InTurn, Inner
  <2>2. ~In("lock", p)
    BY <1>1, <1>5 DEF Sound, InTurn
  <2> QED
    BY <1>3, <2>1, <2>2
<1>6. ASSUME Doing(w) \in Inner \cup {"unlock"} PROVE ~In("lock", p)
  <2>1. /\ In("lock", p) => In("lock", Tail(p)) \/ Head(p) = "lock"
        /\ In("lock", Tail(p)) => Before(Head(p), "lock")
    BY <1>1, PlanTail
  <2> QED
    BY <1>1, <1>6, <2>1 DEF Before, Inner, TurnSteps, SweepSteps
<1>7. Doing(w) \in Inner /\ Guarded(p) => In("unlock", p)
  BY <1>1 DEF Guarded
<1>8. SweepSteps \cap QQSteps = {} /\ SweepSteps \subseteq Inner /\ TurnSteps \subseteq Inner
  BY DEF SweepSteps, TurnSteps, QQSteps, Inner
<1> QED
  BY <1>1, <1>3, <1>4, <1>5, <1>6, <1>7, <1>8 DEF p

LEMMA ThenMoves ==
  ASSUME Typed, NEW w \in Actors, Planned(w), AtWork(w), NEW job \in Jobs,
         job.todo = work[w].todo, job.turn = work[w].turn,
         job.conv \in Convs, Doing(w) # "where" => job.conv = work[w].conv,
         Then(w, job)
  PROVE  /\ Moved(w)
         /\ AtWork(w)' => /\ work'[w].todo = Tail(work[w].todo)
                          /\ work'[w].conv = job.conv /\ work'[w].before = job.before
<1> DEFINE p == work[w].todo
<1>1. /\ p # <<>> /\ Sound(p)
      /\ Guarded(p) \/ FromQQ(p)
  BY AtWorkOn
<1> HIDE DEF p
<1>2. Tail(p) \in Seq(Steps)
  BY <1>1, EmptySeq DEF Sound
<1>3. Tail(p) # <<>> => Left(Tail(p), p)
  BY <1>1, TailIsLeft
<1>4. work \in [Actors -> {Resting} \cup Jobs]
  BY DEF Typed
<1>5. CASE Tail(p) = <<>>
  <2>1. work' = [work EXCEPT ![w] = Resting]
    BY <1>5 DEF Then, Jobs, p
  <2> QED
    BY <1>4, <2>1 DEF Moved, AtWork
<1>6. CASE Tail(p) # <<>>
  <2> DEFINE rest == [job EXCEPT !.todo = Tail(p)]
             bare == [rest EXCEPT !.pair = NoPair, !.window = Unbound]
  <2>1. /\ rest \in Jobs /\ rest.todo = Tail(p) /\ rest.turn = work[w].turn
        /\ rest.conv = job.conv /\ rest.before = job.before
    BY <1>2 DEF Jobs
  <2>2. /\ bare \in Jobs /\ bare.todo = Tail(p) /\ bare.turn = work[w].turn
        /\ bare.conv = job.conv /\ bare.before = job.before
    BY <1>2, <2>1 DEF Jobs, Pairs, NoPair
  <2>3. work' = [work EXCEPT ![w] = rest] \/ work' = [work EXCEPT ![w] = bare]
    BY <1>6, <2>1 DEF Then, p
  <2> HIDE DEF rest, bare
  <2>4. /\ work'[w] \in Jobs /\ work'[w].todo = Tail(p) /\ work'[w].turn = work[w].turn
        /\ work'[w].conv = job.conv /\ work'[w].before = job.before
        /\ \A v \in Actors \ {w} : work'[v] = work[v]
        /\ work' \in [Actors -> {Resting} \cup Jobs]
    BY <1>4, <2>1, <2>2, <2>3
  <2> QED
    BY <1>3, <1>6, <2>4 DEF Moved, p
<1> QED
  BY <1>5, <1>6

LEMMA MovedIsPlanned ==
  ASSUME Typed, NEW w \in Actors, Planned(w), AtWork(w), Moved(w), qq' = qq,
         known'.turns = known.turns,
         Doing(w) = "lock" => keeper' = [keeper EXCEPT ![Of(w)] = w],
         Doing(w) \notin {"lock", "unlock"} => keeper' = keeper
  PROVE  Planned(w)'
<1> DEFINE p == work[w].todo
           q == work'[w].todo
<1> SUFFICES ASSUME AtWork(w)' PROVE Planned(w)'
  BY DEF Planned
<1>1. /\ work'[w] # Resting /\ Left(q, p) /\ work'[w].turn = work[w].turn
      /\ work'[w].conv \in Convs /\ (Doing(w) # "where" => work'[w].conv = work[w].conv)
  BY DEF Moved, AtWork
<1>2. /\ Doing(w) = Head(p) /\ Sound(p) /\ In(Head(p), p)
      /\ Guarded(p) \/ (Of(w) = qq /\ FromQQ(p))
      /\ InTurn(p) => work[w].turn # 0
      /\ FromQQ(p) => Doing(w) \in QQSteps
      /\ Doing(w) # "where" => Of(w) \in Convs
  BY AtWorkOn
<1>3. /\ work[w].turn <= known.turns /\ (Holds(w) => keeper[Of(w)] = w)
      /\ work[w].turn # 0 /\ In("lock", p) => In("ask", p)
      /\ \A s \in SweepSteps : In(s, p) => work[w].turn = 0
  BY DEF Planned
<1>4. Holds(w) <=> In("unlock", p) /\ ~In("lock", p)
  BY DEF Holds
<1>5. Holds(w)' <=> In("unlock", q) /\ ~In("lock", q)
  BY DEF Holds
<1>6. /\ Planned(w)' <=> /\ q # <<>> /\ Sound(q)
                         /\ Guarded(q) \/ (work'[w].conv = qq /\ FromQQ(q))
                         /\ ~In("where", q) => work'[w].conv \in Convs
                         /\ work'[w].turn <= known.turns
                         /\ InTurn(q) => work'[w].turn # 0
                         /\ work'[w].turn # 0 /\ In("lock", q) => In("ask", q)
                         /\ \A s \in SweepSteps : In(s, q) => work'[w].turn = 0
                         /\ Holds(w)' => keeper'[work'[w].conv] = w
  BY DEF Planned, Of
<1> HIDE DEF p, q
<1>7. Guarded(q) \/ (work'[w].conv = qq /\ FromQQ(q))
  BY <1>1, <1>2 DEF Left, QQSteps, TurnSteps, Of
<1>8. /\ InTurn(q) => work'[w].turn # 0
      /\ work'[w].turn # 0 /\ In("lock", q) => In("ask", q)
      /\ \A s \in SweepSteps : In(s, q) => work'[w].turn = 0
  BY <1>1, <1>2, <1>3 DEF Left
<1>9. ASSUME Holds(w)' PROVE keeper'[work'[w].conv] = w
  <2>1. In("unlock", q) /\ ~In("lock", q) /\ In("unlock", p) /\ Head(p) # "unlock"
    BY <1>1, <1>5, <1>9 DEF Left
  <2>2. CASE Head(p) = "lock"
    BY <1>1, <1>2, <2>2 DEF Typed, Of
  <2>3. CASE Head(p) # "lock"
    <3>1. ~In("lock", p) /\ Holds(w) /\ Head(p) # "where"
      BY <1>1, <1>2, <1>4, <2>1, <2>3 DEF Left, Sound
    <3> QED
      BY <1>1, <1>2, <1>3, <2>1, <2>3, <3>1 DEF Of
  <2> QED
    BY <2>2, <2>3
<1> QED
  BY <1>1, <1>3, <1>6, <1>7, <1>8, <1>9 DEF Left

\* A step outside of turns and sweeps leaves what its worker is bound to.
LEMMA SilentKeeps ==
  ASSUME Typed, NEW w \in Actors, WorkInv(w), AtWork(w), Moved(w), qq' = qq,
         Doing(w) \notin Inner, log' = log, known' = known
  PROVE  Unbegun(w)' /\ Pending(w)' /\ Begun(w)' /\ Unwiped(w)' /\ Swept(w)'
<1> DEFINE p == work[w].todo
           q == work'[w].todo
<1>1. AtWork(w)' => /\ work'[w] # Resting /\ Left(q, p) /\ work'[w].turn = work[w].turn
                    /\ work'[w].conv \in Convs /\ (Doing(w) # "where" => Of(w)' = Of(w))
  BY DEF Moved, AtWork, Of
<1>2. Doing(w) = Head(p) /\ Sound(p) /\ In(Head(p), p)
  BY AtWorkOn DEF WorkInv
<1>3. Doing(w)' = IF AtWork(w)' THEN Head(q) ELSE "none"
  BY DEF Doing
<1>4. /\ Unbegun(w) /\ Pending(w) /\ Begun(w) /\ Unwiped(w)
      /\ AtWork(w)' =>
           /\ InTurn(q) /\ ~In("ask", q) => InTurn(p) /\ ~In("ask", p) /\ Doing(w) # "where"
           /\ In("ask", q) => In("ask", p)
  <2>1. Unbegun(w) /\ Pending(w) /\ Begun(w) /\ Unwiped(w)
    BY DEF WorkInv
  <2>2. "ask" \in Inner
    BY DEF Inner, TurnSteps
  <2> HIDE DEF p, q
  <2>3. ASSUME InTurn(q), ~In("ask", q), AtWork(w)' PROVE InTurn(p) /\ ~In("ask", p) /\ Doing(w) # "where"
    BY <1>1, <1>2, <2>2, <2>3 DEF Left, Sound, InTurn
  <2> QED
    BY <1>1, <2>1, <2>3 DEF Left
<1>5. Unbegun(w)'
  BY <1>1, <1>4 DEF Unbegun
<1>6. Pending(w)' /\ Begun(w)'
  BY <1>1, <1>4 DEF Pending, Begun
<1>7. Unwiped(w)'
  BY <1>1, <1>4 DEF Unwiped
<1>8. Doing(w)' \notin {"untrace", "forget"}
  <2> HIDE DEF p, q
  <2> QED
    BY <1>1, <1>2, <1>3 DEF Left, NextTo, Inner, SweepSteps
<1> QED
  BY <1>5, <1>6, <1>7, <1>8 DEF Swept

------------------------------------------------------------------------------
(* The other workers *)

\* What a step of w may do to conversations: only who holds the lock of one
\* changes what it keeps, and nothing is written of another's turn.
Apart(w) ==
  /\ qq' = qq /\ known'.turns >= known.turns
  /\ \A v \in Actors \ {w} : work'[v] = work[v]
  /\ \A c \in Convs :
       /\ keeper'[c] # keeper[c] => keeper[c] \in {w, Nowhere}
       /\ conv'[c].state = "unborn" => conv[c].state = "unborn"
       /\ known.begun[c] \subseteq known'.begun[c]
       /\ \A t \in known'.begun[c] : t \in known.begun[c] \/ (t = work[w].turn /\ AtWork(w))
       /\ \A k \in 1..Len(log'[c]) :
            \/ log'[c][k][2] = work[w].turn /\ AtWork(w)
            \/ \E j \in 1..Len(log[c]) : log'[c][k][2] = log[c][j][2]
       /\ c # qq /\ keeper[c] # w =>
            /\ log'[c] = log[c] /\ trail'[c] = trail[c] /\ known'.wiped[c] = known.wiped[c]
            /\ conv'[c].state = conv[c].state
                 \/ (conv[c].state = "unborn" /\ conv'[c].state = "there")

LEMMA OthersKeep ==
  ASSUME Typed, Typed', Nowhere \notin Actors, NEW w \in Actors, Apart(w), Numbered,
         NEW v \in Actors, v # w, WorkInv(v)
  PROVE  WorkInv(v)'
<1>1. work'[v] = work[v]
  BY DEF Apart
<1>2. /\ Of(v)' = Of(v) /\ Doing(v)' = Doing(v) /\ AtWork(v)' = AtWork(v) /\ Holds(v)' = Holds(v)
  BY <1>1 DEF Of, Doing, AtWork, Holds
<1> SUFFICES ASSUME AtWork(v) PROVE WorkInv(v)'
  BY <1>2 DEF WorkInv, Planned, Unbegun, Pending, Begun, Unwiped, Swept, Doing
<1> DEFINE p == work[v].todo
           c == Of(v)
<1>4. /\ Planned(v) /\ Unbegun(v) /\ Pending(v) /\ Begun(v) /\ Unwiped(v) /\ Swept(v)
      /\ qq' = qq /\ known'.turns >= known.turns
  BY DEF WorkInv, Apart
<1>5. /\ InTurn(p) /\ ~In("ask", p) /\ c # qq => Holds(v)
      /\ Doing(v) \in SweepSteps => Holds(v)
      /\ Holds(v) => c \in Convs /\ keeper[c] = v
  BY <1>4, Holder
<1>6. v # Nowhere
  OBVIOUS
<1>7. Holds(v) => keeper'[c] = v
  BY <1>5, <1>6 DEF Apart
<1>8. Holds(v) /\ c # qq =>
        /\ log'[c] = log[c] /\ trail'[c] = trail[c] /\ known'.wiped[c] = known.wiped[c]
        /\ conv'[c].state = conv[c].state
             \/ (conv[c].state = "unborn" /\ conv'[c].state = "there")
  BY <1>5 DEF Apart
<1>9. work[v] \in Jobs
  BY DEF Typed, AtWork
<1>10. known.turns \in Nat /\ known'.turns \in Nat /\ work[v].turn \in Nat
  BY <1>9 DEF Typed, Jobs
<1>11. Planned(v)'
  BY <1>1, <1>2, <1>4, <1>7, <1>10 DEF Planned
<1>12. InTurn(p) => work[v].turn # 0 /\ (AtWork(w) => work[w].turn # work[v].turn)
  BY <1>4 DEF Planned, Numbered
<1>13. In("ask", p) => InTurn(p)
  BY DEF InTurn, TurnSteps
<1>14. Unbegun(v)'
  <2> SUFFICES ASSUME In("ask", p), NEW d \in Convs
               PROVE  /\ work[v].turn \notin known'.begun[d]
                      /\ \A k \in 1..Len(log'[d]) : log'[d][k][2] # work[v].turn
    BY <1>1, <1>2 DEF Unbegun
  <2>1. /\ work[v].turn \notin known.begun[d]
        /\ \A k \in 1..Len(log[d]) : log[d][k][2] # work[v].turn
    BY <1>4 DEF Unbegun
  <2>2. AtWork(w) => work[w].turn # work[v].turn
    BY <1>12, <1>13
  <2> QED
    BY <2>1, <2>2 DEF Apart
<1>15. Pending(v)'
  BY <1>1, <1>2, <1>4, <1>5, <1>8 DEF Pending
<1>16. Begun(v)' /\ Unwiped(v)'
  <2>1. \A d \in Convs : known.begun[d] \subseteq known'.begun[d]
    BY DEF Apart
  <2> QED
    BY <1>1, <1>2, <1>4, <1>5, <1>8, <2>1 DEF Begun, Unwiped
<1>17. Swept(v)'
  <2> SUFFICES ASSUME Doing(v) \in {"untrace", "forget"}
               PROVE  /\ work[v].before \subseteq known'.begun[c] /\ conv'[c].state # "unborn"
                      /\ c # qq => log'[c] = <<>> /\ (Doing(v) = "forget" /\ There(c)' => trail'[c] = {})
    BY <1>1, <1>2, <1>4 DEF Swept
  <2>1. Holds(v) /\ c \in Convs
    BY <1>5 DEF SweepSteps
  <2>2. /\ work[v].before \subseteq known.begun[c] /\ conv[c].state # "unborn"
        /\ c # qq => log[c] = <<>> /\ (Doing(v) = "forget" /\ There(c) => trail[c] = {})
    BY <1>4 DEF Swept
  <2>3. c # qq /\ There(c)' => There(c)
    BY <1>2, <1>8, <2>1, <2>2 DEF There
  <2> QED
    BY <1>8, <2>1, <2>2, <2>3 DEF Apart
<1> QED
  BY <1>11, <1>14, <1>15, <1>16, <1>17 DEF WorkInv

------------------------------------------------------------------------------
(* The steps *)

\* Once the step of w is known to keep its own part and the stores, it keeps all.
LEMMA Together ==
  ASSUME IInv, NEW w \in Actors, Apart(w), Typed', WorkInv(w)', Numbered',
         AnswersFollow', WipedStaysWiped'
  PROVE  IInv'
<1>1. Nowhere \notin Actors
  BY StoreAssumption
<1>2. ASSUME NEW v \in Actors PROVE WorkInv(v)'
  <2>1. CASE v = w
    BY <2>1
  <2>2. CASE v # w
    BY <1>1, <2>2, OthersKeep DEF IInv
  <2> QED
    BY <2>1, <2>2
<1> QED
  BY <1>2 DEF IInv

LEMMA NumbersStay ==
  ASSUME Typed, NEW w \in Actors, AtWork(w), Moved(w), Numbered,
         NEW v \in Actors, NEW u \in Actors, AtWork(v)', AtWork(u)',
         work'[v].turn = work'[u].turn, work'[v].turn # 0
  PROVE  v = u
<1>1. \A x \in Actors : AtWork(x)' => AtWork(x) /\ work'[x].turn = work[x].turn
  BY DEF Moved, AtWork
<1> QED
  BY <1>1 DEF Numbered

ConvRows == [Convs -> [state : {"unborn", "there", "gone"}, name : {"none", "user", "auto"},
                       endpoint : Bindable \cup {Unbound}, model : Bindable \cup {Unbound}]]

LEMMA QuietStep ==
  ASSUME IInv, NEW w \in Actors, AtWork(w), Doing(w) \notin Inner, Moved(w),
         UNCHANGED <<log, trail, thread, qq, known>>,
         conv' \in ConvRows, dedicated' \in Convs \cup {Nowhere},
         \A c \in Convs : \/ conv'[c].state = conv[c].state
                          \/ conv[c].state = "unborn" /\ conv'[c].state = "there",
         \/ keeper' = keeper /\ Doing(w) # "lock"
         \/ /\ Doing(w) = "lock" /\ keeper[Of(w)] = Nowhere
            /\ keeper' = [keeper EXCEPT ![Of(w)] = w]
         \/ Doing(w) = "unlock" /\ keeper' = [keeper EXCEPT ![Of(w)] = Nowhere]
  PROVE  IInv'
<1>1. Typed /\ Numbered /\ WorkInv(w) /\ AnswersFollow /\ WipedStaysWiped
  BY DEF IInv
<1>2. keeper' \in [Convs -> Actors \cup {Nowhere}]
  <2>1. keeper \in [Convs -> Actors \cup {Nowhere}]
    BY <1>1 DEF Typed
  <2>2. PICK k \in Actors \cup {Nowhere} :
          keeper' = keeper \/ keeper' = [keeper EXCEPT ![Of(w)] = k]
    OBVIOUS
  <2> QED
    BY <2>1, <2>2
<1>3. Typed'
  BY <1>1, <1>2 DEF Typed, Moved, ConvRows
<1>4. /\ Doing(w) = "unlock" => Of(w) \in Convs /\ keeper[Of(w)] = w
      /\ Doing(w) = "lock" => Of(w) \in Convs
  BY <1>1, Holder, AtWorkOn DEF WorkInv
<1>5. \A c \in Convs : keeper'[c] # keeper[c] => keeper[c] \in {w, Nowhere}
  BY <1>1, <1>4 DEF Typed
<1>6. Apart(w)
  <2>1. known'.turns >= known.turns
    BY <1>1 DEF Typed
  <2> QED
    BY <1>5, <2>1 DEF Apart, Moved
<1>7. WorkInv(w)'
  <2>1. Planned(w)'
    BY <1>1, MovedIsPlanned DEF WorkInv
  <2> QED
    BY <1>1, <2>1, SilentKeeps DEF WorkInv
<1>8. Numbered'
  <2>1. \A c \in Convs : conv'[c].state = "unborn" => known'.wiped[c] = {}
    BY <1>1 DEF Numbered
  <2>2. \A v, u \in Actors :
          AtWork(v)' /\ AtWork(u)' /\ work'[v].turn = work'[u].turn /\ work'[v].turn # 0 => v = u
    BY <1>1, NumbersStay
  <2> QED
    BY <1>1, <2>1, <2>2 DEF Numbered, Bound
<1>9. AnswersFollow'
  BY <1>1 DEF AnswersFollow
<1>10. WipedStaysWiped'
  <2>1. \A c \in Convs : There(c)' => There(c) \/ known.wiped[c] = {}
    BY <1>1 DEF There, Numbered
  <2> QED
    BY <1>1, <2>1 DEF WipedStaysWiped
<1> QED
  BY <1>3, <1>6, <1>7, <1>8, <1>9, <1>10, Together

LEMMA GoesOn ==
  ASSUME IInv, NEW w \in Actors, Doing(w) \notin {"none", "where"}, Next1(w)
  PROVE  /\ AtWork(w) /\ Of(w) \in Convs /\ Moved(w)
         /\ AtWork(w)' => work'[w].todo = Tail(work[w].todo)
<1>1. Typed /\ Planned(w)
  BY DEF IInv, WorkInv
<1>2. AtWork(w) /\ work[w] \in Jobs /\ Of(w) \in Convs
  BY <1>1, AtWorkOn
<1> QED
  BY <1>1, <1>2, ThenMoves DEF Next1, Of

LEMMA Ends ==
  ASSUME IInv, NEW w \in Actors, work' = [work EXCEPT ![w] = Resting]
  PROVE  Moved(w) /\ ~AtWork(w)'
BY DEF IInv, Typed, Moved, AtWork

LEMMA WhereStep ==
  ASSUME IInv, NEW w \in Actors, GoesWhere(w), qq' = qq
  PROVE  IInv' /\ Moved(w)
<1>1. Typed /\ Planned(w) /\ Doing(w) = "where"
  BY DEF IInv, WorkInv, GoesWhere
<1>2. AtWork(w) /\ work[w] \in Jobs /\ Doing(w) \notin Inner
  BY <1>1, AtWorkOn DEF Inner, TurnSteps, SweepSteps
<1>3. UNCHANGED <<log, trail, thread, keeper, known>>
  BY DEF GoesWhere
<1>4. CASE There(Of(w))
  <2>1. Next1(w) /\ UNCHANGED <<conv, dedicated>>
    BY <1>4 DEF GoesWhere
  <2>2. work[w].conv \in Convs
    BY <1>2, <1>4 DEF Jobs, There, Of
  <2>3. Moved(w)
    BY <1>1, <1>2, <2>1, <2>2, ThenMoves DEF Next1
  <2> QED
    BY <1>1, <1>2, <1>3, <2>1, <2>3, QuietStep DEF Typed, ConvRows
<1>5. CASE ~There(Of(w)) /\ dedicated # Nowhere
  <2> DEFINE job == [work[w] EXCEPT !.conv = dedicated]
  <2>1. Then(w, job) /\ UNCHANGED <<conv, dedicated>>
    BY <1>5 DEF GoesWhere
  <2>2. job \in Jobs /\ job.conv \in Convs /\ job.todo = work[w].todo /\ job.turn = work[w].turn
    BY <1>1, <1>2, <1>5 DEF Jobs, Typed
  <2> HIDE DEF job
  <2>3. Moved(w)
    BY <1>1, <1>2, <2>1, <2>2, ThenMoves
  <2> QED
    BY <1>1, <1>2, <1>3, <2>1, <2>3, QuietStep DEF Typed, ConvRows
<1>6. CASE ~There(Of(w)) /\ dedicated = Nowhere
  <2>1. PICK c \in Convs :
          /\ conv[c].state = "unborn" /\ conv' = [conv EXCEPT ![c] = Row("there")]
          /\ dedicated' = c /\ Then(w, [work[w] EXCEPT !.conv = c])
    BY <1>6 DEF GoesWhere
  <2> DEFINE job == [work[w] EXCEPT !.conv = c]
  <2>2. job \in Jobs /\ job.conv \in Convs /\ job.todo = work[w].todo /\ job.turn = work[w].turn
    BY <1>2 DEF Jobs
  <2>3. Then(w, job)
    BY <2>1
  <2> HIDE DEF job
  <2>4. Moved(w)
    BY <1>1, <1>2, <2>2, <2>3, ThenMoves
  <2>5. conv' \in ConvRows
    BY <1>1, <2>1 DEF Typed, ConvRows, Row
  <2>6. \A d \in Convs : \/ conv'[d].state = conv[d].state
                         \/ conv[d].state = "unborn" /\ conv'[d].state = "there"
    BY <1>1, <2>1 DEF Typed, Row
  <2>7. dedicated' \in Convs \cup {Nowhere}
    BY <2>1
  <2> QED
    BY <1>1, <1>2, <1>3, <2>4, <2>5, <2>6, <2>7, QuietStep
<1> QED
  BY <1>4, <1>5, <1>6

LEMMA ReadSteps ==
  ASSUME IInv, NEW w \in Actors, ReadsProvider(w) \/ ReadsWindow(w), qq' = qq
  PROVE  IInv' /\ Moved(w)
<1>1. Typed /\ Planned(w) /\ Doing(w) \in {"provider", "window"}
  BY DEF IInv, WorkInv, ReadsProvider, ReadsWindow
<1>2. AtWork(w) /\ work[w] \in Jobs /\ Of(w) \in Convs /\ Doing(w) \notin Inner
  BY <1>1, AtWorkOn DEF Inner, TurnSteps, SweepSteps
<1>3. UNCHANGED <<conv, log, trail, thread, keeper, dedicated, known>>
  BY DEF ReadsProvider, ReadsWindow
<1>4. PICK job : /\ job \in Jobs /\ job.conv = work[w].conv /\ job.todo = work[w].todo
                 /\ job.turn = work[w].turn /\ Then(w, job)
  <2> DEFINE row == conv[Of(w)]
             read == [work[w] EXCEPT !.pair = [endpoint |-> row.endpoint, model |-> row.model]]
             seen == [work[w] EXCEPT !.window = row.endpoint]
  <2>1. /\ read \in Jobs /\ read.conv = work[w].conv /\ read.todo = work[w].todo
        /\ read.turn = work[w].turn
    BY <1>1, <1>2 DEF Jobs, Pairs, Typed
  <2>2. /\ seen \in Jobs /\ seen.conv = work[w].conv /\ seen.todo = work[w].todo
        /\ seen.turn = work[w].turn
    BY <1>1, <1>2 DEF Jobs, Typed
  <2>3. Then(w, read) \/ Then(w, seen) \/ Then(w, work[w])
    <3>1. ReadsProvider(w) => Then(w, IF There(Of(w)) THEN read ELSE work[w])
      BY DEF ReadsProvider
    <3>2. ReadsWindow(w) => Then(w, IF There(Of(w)) THEN seen ELSE work[w])
      BY DEF ReadsWindow
    <3> HIDE DEF read, seen
    <3> QED
      BY <3>1, <3>2
  <2> HIDE DEF read, seen
  <2> QED
    BY <1>2, <2>1, <2>2, <2>3
<1>5. Moved(w)
  BY <1>1, <1>2, <1>4, ThenMoves DEF Of
<1> QED
  BY <1>1, <1>2, <1>3, <1>5, QuietStep DEF Typed, ConvRows

LEMMA LockSteps ==
  ASSUME IInv, NEW w \in Actors, GetsLock(w) \/ Unlocks1(w), qq' = qq
  PROVE  IInv' /\ Moved(w)
<1>1. Typed /\ Doing(w) \in {"lock", "unlock"} /\ Doing(w) \notin Inner
  BY DEF IInv, GetsLock, Unlocks1, Inner, TurnSteps, SweepSteps
<1>2. AtWork(w) /\ Moved(w)
  BY <1>1, GoesOn DEF GetsLock, Unlocks1
<1>3. UNCHANGED <<conv, log, trail, thread, dedicated, known>>
  BY DEF GetsLock, Unlocks1
<1> QED
  BY <1>1, <1>2, <1>3, QuietStep DEF Typed, ConvRows, GetsLock, Unlocks1

LEMMA RowSteps ==
  ASSUME IInv, NEW w \in Actors, BindsField(w) \/ LooksForName(w) \/ GivesName(w), qq' = qq
  PROVE  IInv' /\ Moved(w)
<1>1. /\ Typed /\ Planned(w) /\ Doing(w) \in {"endpoint", "model", "name?", "name"}
      /\ Doing(w) \notin Inner
  BY DEF IInv, WorkInv, BindsField, LooksForName, GivesName, Inner, TurnSteps, SweepSteps
<1>2. AtWork(w) /\ work[w] \in Jobs /\ Of(w) \in Convs
  BY <1>1, AtWorkOn
<1>3. Moved(w)
  BY <1>1, GoesOn, Ends DEF BindsField, LooksForName, GivesName
<1>4. UNCHANGED <<log, trail, thread, keeper, dedicated, known>>
  BY DEF BindsField, LooksForName, GivesName
<1>5. /\ conv' \in ConvRows
      /\ \A c \in Convs : conv'[c].state = conv[c].state
  <2>1. conv \in ConvRows /\ work[w].pair \in Pairs
    BY <1>1, <1>2 DEF Typed, ConvRows, Jobs
  <2>2. CASE conv' = conv
    BY <2>1, <2>2
  <2>3. CASE conv' = [conv EXCEPT ![Of(w)].endpoint = work[w].pair.endpoint]
    BY <1>2, <2>1, <2>3 DEF ConvRows, Pairs
  <2>4. CASE conv' = [conv EXCEPT ![Of(w)].model = work[w].pair.model]
    BY <1>2, <2>1, <2>4 DEF ConvRows, Pairs
  <2>5. CASE conv' = [conv EXCEPT ![Of(w)].name = "auto"]
    BY <1>2, <2>1, <2>5 DEF ConvRows
  <2> QED
    BY <2>2, <2>3, <2>4, <2>5 DEF BindsField, LooksForName, GivesName
<1> QED
  BY <1>1, <1>2, <1>3, <1>4, <1>5, QuietStep DEF Typed

LEMMA InnerFacts ==
  ASSUME IInv, NEW w \in Actors, Doing(w) \in Inner
  PROVE  /\ Typed /\ Numbered /\ WorkInv(w) /\ Planned(w) /\ AnswersFollow /\ WipedStaysWiped
         /\ AtWork(w) /\ work[w] \in Jobs /\ Of(w) \in Convs
         /\ Of(w) # qq \/ Doing(w) \in SweepSteps => keeper[Of(w)] = w
         /\ Doing(w) = "ask" => In("ask", work[w].todo)
         /\ Doing(w) # "ask" => ~In("ask", work[w].todo)
         /\ Doing(w) \in TurnSteps => InTurn(work[w].todo) /\ work[w].turn \in 1..known.turns
<1> DEFINE p == work[w].todo
<1>1. Typed /\ Numbered /\ WorkInv(w) /\ Planned(w) /\ AnswersFollow /\ WipedStaysWiped
  BY DEF IInv, WorkInv
<1>2. "where" \notin Inner /\ "none" \notin Inner /\ SweepSteps \cup TurnSteps = Inner
  BY DEF Inner, TurnSteps, SweepSteps
<1>3. /\ AtWork(w) /\ work[w] \in Jobs /\ Doing(w) = Head(p) /\ p # <<>> /\ Sound(p)
      /\ In(Doing(w), p) /\ Of(w) \in Convs /\ (InTurn(p) => work[w].turn # 0)
  BY <1>1, <1>2, AtWorkOn
<1>4. Of(w) # qq \/ Doing(w) \in SweepSteps => keeper[Of(w)] = w
  BY <1>1, <1>2, <1>3, Holder
<1>5. work[w].turn <= known.turns /\ work[w].turn \in Nat /\ known.turns \in Nat
  BY <1>1, <1>3 DEF Planned, Jobs, Typed
<1> HIDE DEF p
<1>6. /\ \A s : In(s, p) <=> s = Head(p) \/ In(s, Tail(p))
      /\ \A s : In(s, Tail(p)) => Before(Head(p), s)
  BY <1>3, PlanTail
<1>7. Doing(w) # "ask" => ~In("ask", p)
  BY <1>3, <1>6 DEF Before, Inner, TurnSteps, SweepSteps
<1>9. Doing(w) \in TurnSteps => InTurn(p)
  BY <1>3 DEF InTurn
<1>10. InTurn(p) => work[w].turn \in 1..known.turns
  BY <1>3, <1>5
<1> QED
  BY <1>1, <1>3, <1>4, <1>7, <1>9, <1>10 DEF p

LEMMA InnerMoves ==
  ASSUME IInv, NEW w \in Actors, Doing(w) \in Inner, Moved(w), qq' = qq, keeper' = keeper,
         known'.turns = known.turns
  PROVE  /\ Planned(w)' /\ Unbegun(w)'
         /\ AtWork(w)' =>
              /\ Of(w)' = Of(w) /\ work'[w].turn = work[w].turn
              /\ ~In("ask", work'[w].todo)
              /\ InTurn(work'[w].todo) => InTurn(work[w].todo) /\ Doing(w) \notin SweepSteps
              /\ Doing(w)' = Head(work'[w].todo)
         /\ Doing(w)' = "untrace" => Doing(w) = "wipe"
         /\ Doing(w)' = "forget" => Doing(w) \in {"untrace", "drop"}
<1> DEFINE p == work[w].todo
           q == work'[w].todo
<1>1. Typed /\ Planned(w) /\ AtWork(w)
  BY InnerFacts
<1>2. Doing(w) \notin {"lock", "unlock", "where"}
  BY DEF Inner, TurnSteps, SweepSteps
<1>3. Planned(w)'
  BY <1>1, <1>2, MovedIsPlanned
<1>4. Doing(w) = Head(p)
  BY <1>1 DEF Doing
<1>5. AtWork(w)' => /\ work'[w] # Resting /\ Left(q, p) /\ work'[w].turn = work[w].turn
                    /\ Of(w)' = Of(w)
  BY <1>2 DEF Moved, AtWork, Of
<1>6. Doing(w)' = IF AtWork(w)' THEN Head(q) ELSE "none"
  BY DEF Doing
<1>7. Unbegun(w)' <=> (AtWork(w)' /\ In("ask", q) =>
        \A c \in Convs : /\ work'[w].turn \notin known'.begun[c]
                         /\ \A k \in 1..Len(log'[c]) : log'[c][k][2] # work'[w].turn)
  BY DEF Unbegun
<1> HIDE DEF p, q
<1>8. AtWork(w)' => /\ ~In("ask", q)
                    /\ InTurn(q) => InTurn(p) /\ Doing(w) \notin SweepSteps
  BY <1>4, <1>5 DEF Left
<1>9. AtWork(w)' /\ Head(q) \in {"untrace", "forget"} => NextTo(Head(p), Head(q))
  BY <1>5 DEF Left
<1> QED
  BY <1>3, <1>4, <1>5, <1>6, <1>7, <1>8, <1>9 DEF NextTo, p, q

LEMMA WriteStep ==
  ASSUME IInv, NEW w \in Actors, Writes1(w), qq' = qq
  PROVE  IInv' /\ Moved(w)
<1> DEFINE c == Of(w)
           t == work[w].turn
<1>1. Doing(w) \in {"ask", "answer"} /\ Doing(w) \in Inner /\ Doing(w) \in TurnSteps \ SweepSteps
  BY DEF Writes1, Inner, TurnSteps, SweepSteps
<1>2. /\ Typed /\ Numbered /\ WorkInv(w) /\ AnswersFollow /\ WipedStaysWiped
      /\ AtWork(w) /\ c \in Convs /\ (c # qq => keeper[c] = w)
      /\ Doing(w) = "ask" => In("ask", work[w].todo)
      /\ Doing(w) = "answer" => ~In("ask", work[w].todo)
      /\ InTurn(work[w].todo) /\ t \in 1..known.turns
  BY <1>1, InnerFacts
<1>3. UNCHANGED <<conv, trail, thread, keeper, dedicated>>
  BY DEF Writes1
<1>4. Moved(w)
  BY <1>1, GoesOn DEF Writes1
<1>5. /\ known' \in [count : Nat, turns : Nat, begun : [Convs -> SUBSET Nat], wiped : [Convs -> SUBSET Nat]]
      /\ known'.turns = known.turns /\ known'.count = known.count /\ known'.wiped = known.wiped
      /\ known'.begun = known.begun \/ (Doing(w) = "ask" /\ known'.begun = [known.begun EXCEPT ![c] = @ \cup {t}])
      /\ Doing(w) = "ask" => t \in known'.begun[c]
  <2>1. known \in [count : Nat, turns : Nat, begun : [Convs -> SUBSET Nat], wiped : [Convs -> SUBSET Nat]]
    BY <1>2 DEF Typed
  <2>2. t \in Nat
    BY <1>2
  <2>3. CASE Doing(w) = "ask"
    <3>1. known' = [known EXCEPT !.begun[c] = @ \cup {t}]
      BY <2>3 DEF Writes1, TurnBegun
    <3> HIDE DEF c, t
    <3> QED
      BY <1>2, <2>1, <2>2, <2>3, <3>1
  <2>4. CASE Doing(w) # "ask"
    BY <2>1, <2>4 DEF Writes1
  <2> QED
    BY <2>3, <2>4
<1>6. \/ log' = log
      \/ There(c) /\ log' = [log EXCEPT ![c] = Append(log[c], <<Speaker(w), t>>)]
  BY DEF Writes1, AddsMessage
<1>7. Speaker(w) = (IF Doing(w) = "ask" THEN "user" ELSE "assistant")
  BY DEF Speaker
<1>8. log \in [Convs -> Seq({"user", "assistant"} \X Nat)]
  BY <1>2 DEF Typed
<1> HIDE DEF c, t
<1>9. log' \in [Convs -> Seq({"user", "assistant"} \X Nat)]
  <2>1. <<Speaker(w), t>> \in {"user", "assistant"} \X Nat
    BY <1>2, <1>7
  <2>2. Append(log[c], <<Speaker(w), t>>) \in Seq({"user", "assistant"} \X Nat)
    BY <1>2, <1>8, <2>1
  <2> QED
    BY <1>2, <1>6, <1>8, <2>2
<1>10. Typed'
  BY <1>2, <1>3, <1>4, <1>5, <1>9 DEF Typed, Moved
\* What the messages of the conversation are after it.
<1>11. ASSUME NEW d \in Convs, NEW k \in 1..Len(log'[d])
       PROVE  \/ k \in 1..Len(log[d]) /\ log'[d][k] = log[d][k]
              \/ /\ d = c /\ There(c) /\ Len(log[c]) \in Nat
                 /\ k = Len(log[c]) + 1 /\ k = Len(log'[c]) /\ log'[c][k] = <<Speaker(w), t>>
  <2>1. CASE log'[d] = log[d]
    BY <2>1
  <2>2. CASE d = c /\ There(c) /\ log'[c] = Append(log[c], <<Speaker(w), t>>)
    <3> DEFINE m == <<Speaker(w), t>>
    <3>1. /\ log[c] \in Seq({"user", "assistant"} \X Nat) /\ Len(log[c]) \in Nat
          /\ m \in {"user", "assistant"} \X Nat
      BY <1>2, <1>7, <1>8
    <3> HIDE DEF m
    <3>2. /\ Len(Append(log[c], m)) = Len(log[c]) + 1
          /\ Append(log[c], m)[Len(log[c]) + 1] = m
          /\ \A i \in 1..Len(log[c]) : Append(log[c], m)[i] = log[c][i]
      BY <3>1
    <3> QED
      BY <2>2, <3>1, <3>2 DEF m
  <2>3. \/ log'[d] = log[d]
        \/ d = c /\ There(c) /\ log'[c] = Append(log[c], <<Speaker(w), t>>)
    BY <1>2, <1>6, <1>8
  <2> QED
    BY <2>1, <2>2, <2>3
<1>12. \A d \in Convs : /\ known.begun[d] \subseteq known'.begun[d]
                         /\ \A x \in known'.begun[d] : x \in known.begun[d] \/ x = t
  <2>1. known.begun \in [Convs -> SUBSET Nat]
    BY <1>2 DEF Typed
  <2> QED
    BY <1>5, <2>1
<1>13. Apart(w)
  <2>1. ASSUME NEW d \in Convs, NEW k \in 1..Len(log'[d])
        PROVE  \/ log'[d][k][2] = t
               \/ \E j \in 1..Len(log[d]) : log'[d][k][2] = log[d][j][2]
    BY <1>11
  <2>2. \A d \in Convs : d # qq /\ keeper[d] # w => log'[d] = log[d]
    BY <1>2, <1>6, <1>8
  <2>3. known'.turns >= known.turns
    BY <1>2, <1>5 DEF Typed
  <2> QED
    BY <1>2, <1>3, <1>4, <1>5, <1>12, <2>1, <2>2, <2>3 DEF Apart, Moved, t
<1>14. /\ Planned(w)' /\ Unbegun(w)'
       /\ AtWork(w)' => Of(w)' = c /\ work'[w].turn = t
       /\ Doing(w)' \notin {"untrace", "forget"}
  BY <1>1, <1>3, <1>4, <1>5, InnerMoves DEF c, t, SweepSteps
<1>15. \* what is known of the turn: it is new, or its messages are the last ones
       /\ Doing(w) = "ask" => \A d \in Convs : \A k \in 1..Len(log[d]) : log[d][k][2] # t
       /\ Doing(w) = "answer" /\ c # qq =>
            \A j, k \in 1..Len(log[c]) : log[c][j][2] = t /\ j <= k => log[c][k][2] = t
       /\ c # qq => t \notin known.wiped[c]
       /\ Doing(w) = "answer" => t \in known.begun[c]
  <2>1. Unbegun(w) /\ Pending(w) /\ Begun(w) /\ Unwiped(w)
    BY <1>2 DEF WorkInv
  <2>2. Doing(w) = "ask" => t \notin known.wiped[c]
    BY <1>2, <2>1 DEF Unbegun, Numbered, t
  <2>3. Doing(w) = "answer" /\ c # qq => t \notin known.wiped[c]
    BY <1>2, <2>1 DEF Unwiped, c, t
  <2>4. Doing(w) = "answer" => t \in known.begun[c]
    BY <1>2, <2>1 DEF Begun, c, t
  <2> QED
    BY <1>1, <1>2, <2>1, <2>2, <2>3, <2>4 DEF Unbegun, Pending, c, t
<1>16. Pending(w)' /\ Begun(w)'
  <2>1. t \in known'.begun[c]
    BY <1>1, <1>2, <1>5, <1>12, <1>15
  <2>2. Begun(w)'
    BY <1>2, <1>14, <2>1 DEF Begun
  <2>3. Pending(w)'
    <3> SUFFICES ASSUME AtWork(w)', c # qq, NEW j \in 1..Len(log'[c]), NEW k \in 1..Len(log'[c]),
                        log'[c][j][2] = t, j <= k
                 PROVE  log'[c][k][2] = t
      BY <1>14 DEF Pending
    <3>1. CASE k \in 1..Len(log[c]) /\ log'[c][k] = log[c][k]
      <4>1. j \in 1..Len(log[c]) /\ log'[c][j] = log[c][j]
        BY <1>2, <1>11, <3>1
      <4> QED
        BY <1>1, <1>2, <1>15, <3>1, <4>1
    <3>2. CASE log'[c][k] = <<Speaker(w), t>>
      BY <3>2
    <3> QED
      BY <1>2, <1>11, <3>1, <3>2
  <2> QED
    BY <2>2, <2>3
<1>17. Unwiped(w)'
  BY <1>2, <1>5, <1>14, <1>15 DEF Unwiped
<1>18. WorkInv(w)'
  BY <1>14, <1>16, <1>17 DEF WorkInv, Swept
<1>19. Numbered'
  <2>1. \A v, u \in Actors :
          AtWork(v)' /\ AtWork(u)' /\ work'[v].turn = work'[u].turn /\ work'[v].turn # 0 => v = u
    BY <1>2, <1>4, NumbersStay
  <2>2. \A d \in Convs : \A k \in 1..Len(log'[d]) : log'[d][k][2] \in 1..known.turns
    <3>1. \A d \in Convs : \A k \in 1..Len(log[d]) : log[d][k][2] \in 1..known.turns
      BY <1>2 DEF Numbered
    <3>2. t \in 1..known.turns
      BY <1>2
    <3>3. ASSUME NEW d \in Convs, NEW k \in 1..Len(log'[d]) PROVE log'[d][k][2] \in 1..known.turns
      <4>1. CASE k \in 1..Len(log[d]) /\ log'[d][k] = log[d][k]
        BY <3>1, <4>1
      <4>2. CASE d = c /\ log'[c][k] = <<Speaker(w), t>>
        BY <3>2, <4>2
      <4> QED
        BY <1>11, <4>1, <4>2
    <3> QED
      BY <3>3
  <2>3. \A d \in Convs : known'.begun[d] \subseteq 1..known.turns /\ known.begun[d] \subseteq known'.begun[d]
    BY <1>2, <1>12 DEF Numbered
  <2> QED
    BY <1>2, <1>3, <1>5, <2>1, <2>2, <2>3 DEF Numbered, Bound
<1>20. AnswersFollow'
  <2> SUFFICES ASSUME NEW d \in Convs, d # qq, NEW j \in 1..Len(log'[d]), NEW k \in 1..Len(log'[d]),
                      log'[d][j][2] = log'[d][k][2], j < k
               PROVE  log'[d][k][1] = "assistant" /\ \A i \in j..k : log'[d][i][2] = log'[d][j][2]
    <3>1. \A d \in Convs : DOMAIN log'[d] = 1..Len(log'[d])
      BY <1>9
    <3>2. AnswersFollow' <=>
            \A d \in Convs \ {qq} : \A j, k \in DOMAIN log'[d] :
              log'[d][j][2] = log'[d][k][2] /\ j < k =>
                log'[d][k][1] = "assistant" /\ \A i \in j..k : log'[d][i][2] = log'[d][j][2]
      BY DEF AnswersFollow
    <3>3. \A d \in Convs \ {qq} : \A j, k \in DOMAIN log'[d] :
              log'[d][j][2] = log'[d][k][2] /\ j < k =>
                log'[d][k][1] = "assistant" /\ \A i \in j..k : log'[d][i][2] = log'[d][j][2]
      BY <3>1
    <3> QED
      BY <3>2, <3>3
  <2>1. CASE k \in 1..Len(log[d]) /\ log'[d][k] = log[d][k]
    <3>1. j \in 1..Len(log[d]) /\ log'[d][j] = log[d][j]
      <4>1. \/ j \in 1..Len(log[d]) /\ log'[d][j] = log[d][j]
            \/ d = c /\ Len(log[c]) \in Nat /\ j = Len(log[c]) + 1
        BY <1>11
      <4> QED
        BY <2>1, <4>1
    <3>2. log[d][k][1] = "assistant" /\ \A i \in j..k : log[d][i][2] = log[d][j][2]
      <4>1. DOMAIN log[d] = 1..Len(log[d])
        BY <1>8
      <4>2. AnswersFollow
        BY <1>2
      <4> QED
        BY <2>1, <3>1, <4>1, <4>2 DEF AnswersFollow
    <3>3. \A i \in j..k : log'[d][i] = log[d][i]
      <4> SUFFICES ASSUME NEW i \in j..k PROVE log'[d][i] = log[d][i]
        OBVIOUS
      <4>1. i \in 1..Len(log'[d]) /\ i \in 1..Len(log[d])
        BY SMTT(30), <1>8, <1>9, <2>1, <3>1
      <4> QED
        BY <1>11, <4>1
    <3> QED
      BY <2>1, <3>1, <3>2, <3>3
  <2>2. CASE /\ d = c /\ Len(log[c]) \in Nat
             /\ k = Len(log[c]) + 1 /\ log'[c][k] = <<Speaker(w), t>>
    <3>1. j \in 1..Len(log[c]) /\ log'[c][j] = log[c][j] /\ log[c][j][2] = t
      BY <1>11, <2>2
    <3>2. Doing(w) = "answer" /\ Speaker(w) = "assistant"
      BY <1>1, <1>2, <1>7, <1>15, <3>1
    <3>3. ASSUME NEW i \in j..k PROVE log'[c][i][2] = t
      <4>1. CASE i = k
        BY <2>2, <4>1
      <4>2. CASE i # k
        <5>1. i \in 1..Len(log[c]) /\ i \in 1..Len(log'[c]) /\ j <= i
          BY <2>2, <3>1, <4>2
        <5>2. log'[c][i] = log[c][i]
          BY SMTT(30), <1>2, <1>11, <5>1
        <5> QED
          BY <1>15, <2>2, <3>1, <3>2, <5>1, <5>2
      <4> QED
        BY <4>1, <4>2
    <3> QED
      BY <2>2, <3>1, <3>2, <3>3
  <2> QED
    BY <1>11, <2>1, <2>2
<1>21. WipedStaysWiped'
  <2> SUFFICES ASSUME NEW d \in Convs, d # qq
               PROVE  LET back == {log'[d][k][2] : k \in DOMAIN log'[d]} \cup thread[d]
                                    \cup (IF There(d) THEN trail[d] ELSE {})
                      IN  back \cap known.wiped[d] = {}
    BY <1>3, <1>5 DEF WipedStaysWiped, There
  <2>1. (thread[d] \cup (IF There(d) THEN trail[d] ELSE {})) \cap known.wiped[d] = {}
    BY <1>2 DEF WipedStaysWiped
  <2>2. \A k \in 1..Len(log[d]) : log[d][k][2] \notin known.wiped[d]
    BY <1>2, <1>8 DEF WipedStaysWiped
  <2>3. \A k \in DOMAIN log'[d] : log'[d][k][2] \notin known.wiped[d]
    <3>1. DOMAIN log'[d] = 1..Len(log'[d])
      BY <1>9
    <3>2. SUFFICES ASSUME NEW k \in 1..Len(log'[d]) PROVE log'[d][k][2] \notin known.wiped[d]
      BY <3>1
    <3> QED
      BY <1>11, <1>15, <2>2
  <2> QED
    BY <2>1, <2>3
<1> QED
  BY <1>4, <1>10, <1>13, <1>18, <1>19, <1>20, <1>21, Together

LEMMA LeavesMark ==
  ASSUME IInv, NEW w \in Actors, Doing(w) \in {"trace", "think", "answer"}, Moved(w),
         UNCHANGED <<conv, log, keeper, dedicated, known, qq>>,
         trail' = trail \/ trail' = [trail EXCEPT ![Of(w)] = @ \cup {work[w].turn}],
         thread' = thread \/ thread' = [thread EXCEPT ![Of(w)] = @ \cup {work[w].turn}]
  PROVE  IInv'
<1> DEFINE c == Of(w)
           t == work[w].turn
<1>1. Doing(w) \in Inner /\ Doing(w) \in TurnSteps \ SweepSteps
  BY DEF Inner, TurnSteps, SweepSteps
<1>2. /\ Typed /\ Numbered /\ WorkInv(w) /\ AnswersFollow /\ WipedStaysWiped
      /\ AtWork(w) /\ c \in Convs /\ (c # qq => keeper[c] = w)
      /\ ~In("ask", work[w].todo) /\ InTurn(work[w].todo) /\ t \in 1..known.turns
  BY <1>1, InnerFacts
<1>3. trail \in [Convs -> SUBSET Nat] /\ thread \in [Convs -> SUBSET Nat] /\ known.turns \in Nat
  BY <1>2 DEF Typed
<1>4. c # qq => t \notin known.wiped[c]
  BY <1>2 DEF WorkInv, Unwiped
<1>5. /\ Planned(w)' /\ Unbegun(w)'
      /\ AtWork(w)' => Of(w)' = c /\ work'[w].turn = t
      /\ Doing(w)' \notin {"untrace", "forget"}
  BY <1>1, InnerMoves DEF c, t, SweepSteps
<1>6. WorkInv(w)'
  <2>1. Pending(w)' /\ Begun(w)'
    BY <1>2, <1>5 DEF WorkInv, Pending, Begun
  <2>2. Unwiped(w)'
    BY <1>4, <1>5 DEF Unwiped
  <2> QED
    BY <1>5, <2>1, <2>2 DEF WorkInv, Swept
<1> HIDE DEF c, t
<1>7. /\ trail' = trail \/ trail' = [trail EXCEPT ![c] = @ \cup {t}]
      /\ thread' = thread \/ thread' = [thread EXCEPT ![c] = @ \cup {t}]
  BY DEF c, t
<1>8. ASSUME NEW d \in Convs
      PROVE  /\ trail'[d] = trail[d] \/ (d = c /\ trail'[d] = trail[d] \cup {t})
             /\ thread'[d] = thread[d] \/ (d = c /\ thread'[d] = thread[d] \cup {t})
  BY <1>2, <1>3, <1>7
<1>9. trail' \in [Convs -> SUBSET Nat] /\ thread' \in [Convs -> SUBSET Nat]
  <2>1. t \in Nat
    BY <1>2
  <2> QED
    BY <1>2, <1>3, <1>7, <2>1
<1>10. Typed'
  BY <1>2, <1>9 DEF Typed, Moved
<1>11. Apart(w)
  BY <1>2, <1>3, <1>8 DEF Apart, Moved
<1>12. Numbered'
  <2>1. \A v, u \in Actors :
          AtWork(v)' /\ AtWork(u)' /\ work'[v].turn = work'[u].turn /\ work'[v].turn # 0 => v = u
    BY <1>2, NumbersStay
  <2>2. \A d \in Convs : known.begun[d] \cup trail'[d] \cup thread'[d] \subseteq 1..known.turns
    BY <1>2, <1>8 DEF Numbered
  <2> QED
    BY <1>2, <2>1, <2>2 DEF Numbered, Bound
<1>13. AnswersFollow'
  BY <1>2 DEF AnswersFollow
<1>14. WipedStaysWiped'
  <2> SUFFICES ASSUME NEW d \in Convs, d # qq
               PROVE  LET back == {log[d][k][2] : k \in DOMAIN log[d]} \cup thread'[d]
                                    \cup (IF There(d) THEN trail'[d] ELSE {})
                      IN  back \cap known.wiped[d] = {}
    BY DEF WipedStaysWiped, There
  <2>1. LET back == {log[d][k][2] : k \in DOMAIN log[d]} \cup thread[d]
                                    \cup (IF There(d) THEN trail[d] ELSE {})
        IN  back \cap known.wiped[d] = {}
    BY <1>2 DEF WipedStaysWiped
  <2> QED
    BY <1>4, <1>8, <2>1
<1> QED
  BY <1>6, <1>10, <1>11, <1>12, <1>13, <1>14, Together

\* A turn that is stopped before its question, or at it, may at most give back the lock.
LEMMA StopsEarly ==
  ASSUME IInv, NEW w \in Actors, AtWork(w), Moved(w),
         UNCHANGED <<conv, log, trail, thread, keeper, dedicated, known, qq>>,
         \/ work'[w] = Resting
         \/ work'[w].todo = <<"unlock">> /\ Doing(w) \notin {"lock", "unlock"}
  PROVE  IInv'
<1>1. Typed /\ Numbered /\ WorkInv(w) /\ AnswersFollow /\ WipedStaysWiped
  BY DEF IInv
<1>2. Typed'
  BY <1>1 DEF Typed, Moved
<1>3. Apart(w)
  BY <1>1 DEF Apart, Moved, Typed
<1>4. WorkInv(w)'
  <2>1. CASE work'[w] = Resting
    BY <2>1 DEF WorkInv, Planned, Unbegun, Pending, Begun, Unwiped, Swept, AtWork, Doing
  <2>2. CASE work'[w].todo = <<"unlock">> /\ Doing(w) \notin {"lock", "unlock"}
    <3>1. Planned(w)'
      BY <1>1, <2>2, MovedIsPlanned DEF WorkInv
    <3>2. ~In("ask", <<"unlock">>) /\ ~InTurn(<<"unlock">>) /\ Head(<<"unlock">>) = "unlock"
      BY Positions DEF In
    <3>3. Unbegun(w)' /\ Pending(w)' /\ Begun(w)' /\ Unwiped(w)'
      BY <2>2, <3>2 DEF Unbegun, Pending, Begun, Unwiped
    <3>4. Doing(w)' \in {"unlock", "none"}
      BY <2>2, <3>2 DEF Doing
    <3> QED
      BY <3>1, <3>3, <3>4 DEF WorkInv, Swept
  <2> QED
    BY <2>1, <2>2
<1>5. Numbered'
  <2>1. \A v, u \in Actors :
          AtWork(v)' /\ AtWork(u)' /\ work'[v].turn = work'[u].turn /\ work'[v].turn # 0 => v = u
    BY <1>1, NumbersStay
  <2> QED
    BY <1>1, <2>1 DEF Numbered, Bound
<1>6. AnswersFollow' /\ WipedStaysWiped'
  BY <1>1 DEF AnswersFollow, WipedStaysWiped, There
<1> QED
  BY <1>2, <1>3, <1>4, <1>5, <1>6, Together

\* What a turn that breaks off has still to do.
LEMMA Broke ==
  ASSUME IInv, NEW w \in Actors, Breaks(w)
  PROVE  /\ AtWork(w) /\ Moved(w) /\ Doing(w) \in Stoppable
         /\ Holds(w) => AtWork(w)' /\ In("unlock", work'[w].todo)
         /\ \/ Doing(w) \in {"trace", "think", "answer"}
            \/ work'[w] = Resting
            \/ work'[w].todo = <<"unlock">> /\ Doing(w) # "lock"
<1> DEFINE p == work[w].todo
           broken(q) == [work[w] EXCEPT !.todo = q]
           locked == In("unlock", p) /\ ~In("lock", p)
<1>1. Typed /\ Planned(w) /\ Doing(w) \in Stoppable /\ Doing(w) # "none"
  BY DEF IInv, WorkInv, Breaks, Stoppable
<1>2. /\ work[w] \in Jobs /\ AtWork(w) /\ Sound(p) /\ p # <<>> /\ Doing(w) = Head(p)
      /\ Guarded(p) \/ FromQQ(p)
      /\ In(Doing(w), p)
      /\ Doing(w) # "where" => ~In("where", p)
      /\ ~In("where", p) => Of(w) \in Convs
  BY <1>1, AtWorkOn
<1>3. \A s : s \in Ahead(w) <=> In(s, p)
  <2>1. DOMAIN p = 1..Len(p)
    BY <1>2 DEF Sound
  <2> QED
    BY <2>1 DEF Ahead, In
<1>4. PICK q : /\ work' = [work EXCEPT ![w] = IF q = <<>> THEN Resting ELSE broken(q)]
               /\ q \in {IF locked THEN <<"unlock">> ELSE <<>>}
                         \cup (IF Said(w) THEN {IF locked THEN <<"answer", "trace", "unlock">>
                                                ELSE <<"answer", "trace">>} ELSE {})
  BY <1>3 DEF Breaks
<1>5. Said(w) => Doing(w) \in {"trace", "think", "answer"}
  BY DEF Said
<1>6. Doing(w) \in {"trace", "think", "answer"} => ~In("lock", p)
  <2>1. \A s : In(s, p) => s = Head(p) \/ Before(Head(p), s)
    BY <1>2, PlanTail
  <2> QED
    BY <1>2, <2>1 DEF Before
<1>7. In("where", p) => In("lock", p)
  BY <1>2 DEF Sound
<1>8. /\ locked => Left(<<"unlock">>, p)
      /\ locked /\ Said(w) => Left(<<"answer", "trace", "unlock">>, p)
      /\ ~locked /\ Said(w) => Left(<<"answer", "trace">>, p) /\ ~In("lock", p)
  BY <1>1, <1>2, <1>5, <1>6, WhatBreaksOff
<1>9. /\ In("unlock", <<"unlock">>) /\ In("unlock", <<"answer", "trace", "unlock">>)
      /\ <<"unlock">> # <<>> /\ <<"answer", "trace", "unlock">> # <<>> /\ <<"answer", "trace">> # <<>>
  BY Positions DEF Broken
<1>10. \A x : Left(x, p) => x \in Seq(Steps)
  BY DEF Left, Sound
<1>11. ASSUME q # <<>>
       PROVE  /\ Left(q, p) /\ work'[w] = broken(q) /\ broken(q) \in Jobs /\ broken(q).todo = q
              /\ broken(q).turn = work[w].turn /\ broken(q).conv = work[w].conv
              /\ ~In("lock", p)
              /\ \A v \in Actors \ {w} : work'[v] = work[v]
              /\ work' \in [Actors -> {Resting} \cup Jobs]
  <2>1. Left(q, p) /\ ~In("lock", p)
    <3> HIDE DEF p
    <3> QED
      BY <1>4, <1>8, <1>11
  <2>2. /\ broken(q) \in Jobs /\ broken(q).todo = q
        /\ broken(q).turn = work[w].turn /\ broken(q).conv = work[w].conv
    <3>1. q \in Seq(Steps)
      BY <1>10, <2>1
    <3> QED
      BY <1>2, <3>1 DEF Jobs
  <2> HIDE DEF broken
  <2>3. work' = [work EXCEPT ![w] = broken(q)]
    BY <1>4, <1>11
  <2>4. work \in [Actors -> {Resting} \cup Jobs]
    BY <1>1 DEF Typed
  <2> QED
    BY <2>1, <2>2, <2>3, <2>4
<1>12. q = <<>> => work' = [work EXCEPT ![w] = Resting]
  BY <1>4
<1>13. Holds(w) <=> locked
  BY DEF Holds
<1> HIDE DEF p, broken, locked
<1>14. Moved(w)
  <2>1. CASE q = <<>>
    BY <1>12, <2>1, Ends
  <2>2. CASE q # <<>>
    BY <1>2, <1>7, <1>11, <2>2 DEF Moved, Of, p
  <2> QED
    BY <2>1, <2>2
<1>15. Holds(w) => AtWork(w)' /\ In("unlock", work'[w].todo)
  <2>1. Holds(w) => q # <<>> /\ In("unlock", q)
    BY <1>4, <1>9, <1>13
  <2>2. Resting.todo = <<>>
    BY DEF Resting
  <2> QED
    BY <1>11, <2>1, <2>2 DEF AtWork
<1>16. \/ Doing(w) \in {"trace", "think", "answer"}
       \/ work'[w] = Resting
       \/ work'[w].todo = <<"unlock">> /\ Doing(w) # "lock"
  <2> SUFFICES ASSUME Doing(w) \notin {"trace", "think", "answer"}, q # <<>>
               PROVE  work'[w].todo = <<"unlock">> /\ Doing(w) # "lock"
    <3>1. CASE q = <<>>
      BY <1>1, <1>12, <3>1 DEF Typed
    <3> QED
      BY <3>1
  <2>1. q = <<"unlock">>
    BY <1>4, <1>5
  <2> QED
    BY <1>2, <1>11, <2>1
<1> QED
  BY <1>1, <1>2, <1>14, <1>15, <1>16

LEMMA TurnSteps1 ==
  ASSUME IInv, NEW w \in Actors, Traces(w) \/ Thinks(w) \/ Breaks(w), qq' = qq
  PROVE  IInv' /\ Moved(w)
<1>1. CASE Traces(w) \/ Thinks(w)
  <2>1. Moved(w) /\ Doing(w) \in {"trace", "think"}
    BY <1>1, GoesOn DEF Traces, Thinks
  <2> QED
    BY <1>1, <2>1, LeavesMark DEF Traces, Thinks
<1>2. CASE Breaks(w)
  <2>1. /\ AtWork(w) /\ Moved(w)
        /\ \/ Doing(w) \in {"trace", "think", "answer"}
           \/ work'[w] = Resting
           \/ work'[w].todo = <<"unlock">> /\ Doing(w) # "lock"
    BY <1>2, Broke
  <2>2. /\ UNCHANGED <<conv, log, trail, keeper, dedicated, known, qq>> /\ Doing(w) # "unlock"
        /\ thread' = thread \/ thread' = [thread EXCEPT ![Of(w)] = @ \cup {work[w].turn}]
        /\ Doing(w) \notin {"trace", "think", "answer"} => thread' = thread
    BY <1>2 DEF Breaks, Stoppable
  <2>3. CASE Doing(w) \in {"trace", "think", "answer"}
    BY <2>1, <2>2, <2>3, LeavesMark
  <2>4. CASE Doing(w) \notin {"trace", "think", "answer"}
    BY <2>1, <2>2, <2>4, StopsEarly
  <2> QED
    BY <2>1, <2>3, <2>4
<1> QED
  BY <1>1, <1>2

\* A sweep takes away, from the conversation of its worker only.
LEMMA SweepStep ==
  ASSUME IInv, NEW w \in Actors, Doing(w) \in SweepSteps, Moved(w),
         UNCHANGED <<keeper, dedicated, qq>>,
         conv' = conv \/ conv' = [conv EXCEPT ![Of(w)] = Row("gone")],
         log' = log \/ log' = [log EXCEPT ![Of(w)] = <<>>],
         trail' = trail \/ trail' = [trail EXCEPT ![Of(w)] = {}],
         thread' = thread \/ thread' = [thread EXCEPT ![Of(w)] = {}],
         known' = known \/ (/\ work[w].before \subseteq known.begun[Of(w)] /\ conv' = conv
                            /\ conv[Of(w)].state # "unborn"
                            /\ known' = [known EXCEPT !.wiped[Of(w)] = @ \cup work[w].before]),
         Swept(w)', WipedStaysWiped'
  PROVE  IInv'
<1> DEFINE c == Of(w)
<1>1. Doing(w) \in Inner
  BY DEF Inner
<1>2. /\ Typed /\ Numbered /\ WorkInv(w) /\ AnswersFollow
      /\ AtWork(w) /\ work[w] \in Jobs /\ c \in Convs /\ keeper[c] = w
  BY <1>1, InnerFacts
<1>3. /\ known' \in [count : Nat, turns : Nat, begun : [Convs -> SUBSET Nat], wiped : [Convs -> SUBSET Nat]]
      /\ known'.turns = known.turns /\ known'.count = known.count /\ known'.begun = known.begun
      /\ \A d \in Convs :
           known'.wiped[d] = known.wiped[d]
             \/ (d = c /\ conv' = conv /\ conv[c].state # "unborn"
                   /\ known'.wiped[d] = known.wiped[d] \cup work[w].before
                   /\ work[w].before \subseteq known.begun[c])
  <2>1. /\ known \in [count : Nat, turns : Nat, begun : [Convs -> SUBSET Nat], wiped : [Convs -> SUBSET Nat]]
        /\ work[w].before \in SUBSET Nat
    BY <1>2 DEF Typed, Jobs
  <2>2. CASE known' = known
    BY <2>1, <2>2
  <2>3. CASE /\ work[w].before \subseteq known.begun[c] /\ conv' = conv /\ conv[c].state # "unborn"
             /\ known' = [known EXCEPT !.wiped[c] = @ \cup work[w].before]
    <3> HIDE DEF c
    <3> QED
      BY <1>2, <2>1, <2>3
  <2> QED
    BY <2>2, <2>3
<1>4. /\ Planned(w)' /\ Unbegun(w)'
      /\ AtWork(w)' => ~InTurn(work'[w].todo)
  BY <1>1, <1>3, InnerMoves
<1>5. WorkInv(w)'
  BY <1>4 DEF WorkInv, Pending, Begun, Unwiped
<1> HIDE DEF c
<1>6. /\ log \in [Convs -> Seq({"user", "assistant"} \X Nat)]
      /\ trail \in [Convs -> SUBSET Nat] /\ thread \in [Convs -> SUBSET Nat] /\ conv \in ConvRows
  BY <1>2 DEF Typed, ConvRows
<1>7. /\ log' \in [Convs -> Seq({"user", "assistant"} \X Nat)]
      /\ trail' \in [Convs -> SUBSET Nat] /\ thread' \in [Convs -> SUBSET Nat] /\ conv' \in ConvRows
  <2>1. log' \in [Convs -> Seq({"user", "assistant"} \X Nat)]
    <3>1. CASE log' = [log EXCEPT ![Of(w)] = <<>>]
      <4>1. <<>> \in Seq({"user", "assistant"} \X Nat)
        OBVIOUS
      <4> QED
        BY <1>6, <3>1, <4>1
    <3> QED
      BY <1>6, <3>1
  <2>2. trail' \in [Convs -> SUBSET Nat]
    BY <1>6
  <2>3. thread' \in [Convs -> SUBSET Nat]
    BY <1>6
  <2>4. conv' \in ConvRows
    <3>1. CASE conv' = conv
      BY <1>6, <3>1
    <3>2. CASE conv' = [conv EXCEPT ![Of(w)] = Row("gone")]
      BY <1>6, <3>2 DEF ConvRows, Row
    <3> QED
      BY <3>1, <3>2
  <2> QED
    BY <2>1, <2>2, <2>3, <2>4
<1>8. ASSUME NEW d \in Convs
      PROVE  /\ log'[d] = log[d] \/ (d = c /\ log'[d] = <<>>)
             /\ trail'[d] = trail[d] \/ (d = c /\ trail'[d] = {})
             /\ thread'[d] = thread[d] \/ (d = c /\ thread'[d] = {})
             /\ conv'[d].state = conv[d].state \/ (d = c /\ conv'[d].state = "gone")
  BY <1>2, <1>6 DEF ConvRows, Row, c
<1>9. Typed'
  BY <1>2, <1>3, <1>7 DEF Typed, Moved, ConvRows
<1>10. \A d \in Convs : \A k \in 1..Len(log'[d]) : k \in 1..Len(log[d]) /\ log'[d][k] = log[d][k]
  <2>1. Len(<<>>) = 0
    OBVIOUS
  <2> QED
    BY <1>8, <2>1
<1>11. Apart(w)
  <2>1. known'.turns >= known.turns
    BY <1>2, <1>3 DEF Typed
  <2>2. \A d \in Convs : d # qq /\ keeper[d] # w => /\ log'[d] = log[d] /\ trail'[d] = trail[d]
                                                 /\ known'.wiped[d] = known.wiped[d]
                                                 /\ conv'[d].state = conv[d].state
    BY <1>2, <1>3, <1>8
  <2> QED
    BY <1>3, <1>8, <1>10, <2>1, <2>2 DEF Apart, Moved
<1>12. Numbered'
  <2>1. \A v, u \in Actors :
          AtWork(v)' /\ AtWork(u)' /\ work'[v].turn = work'[u].turn /\ work'[v].turn # 0 => v = u
    BY <1>2, NumbersStay
  <2>2. \A d \in Convs : /\ known'.wiped[d] \subseteq known.begun[d]
                         /\ known.begun[d] \cup trail'[d] \cup thread'[d] \subseteq 1..known.turns
                         /\ \A k \in 1..Len(log'[d]) : log'[d][k][2] \in 1..known.turns
                         /\ conv'[d].state = "unborn" => known'.wiped[d] = {}
    BY <1>2, <1>3, <1>8, <1>10 DEF Numbered
  <2> QED
    BY <1>2, <1>3, <2>1, <2>2 DEF Numbered, Bound
<1>13. AnswersFollow'
  <2>1. \A d \in Convs : DOMAIN log'[d] = 1..Len(log'[d]) /\ DOMAIN log[d] = 1..Len(log[d])
    BY <1>6, <1>7
  <2> QED
    BY SMTT(30), <1>2, <1>10, <2>1 DEF AnswersFollow
<1> QED
  BY <1>5, <1>9, <1>11, <1>12, <1>13, Together

LEMMA GivesUpStep ==
  ASSUME IInv, NEW w \in Actors, Doing(w) \in SweepSteps, GivesUp(w),
         UNCHANGED <<conv, log, trail, thread, keeper, dedicated, qq, known>>
  PROVE  IInv' /\ Moved(w)
<1> DEFINE job == [work[w] EXCEPT !.todo = <<"unlock">>]
<1>1. Doing(w) \in Inner /\ Doing(w) # "where"
  BY DEF Inner, SweepSteps
<1>2. /\ Typed /\ AtWork(w) /\ work[w] \in Jobs /\ Of(w) \in Convs /\ WipedStaysWiped /\ Planned(w)
  BY <1>1, InnerFacts
<1>3. Left(<<"unlock">>, work[w].todo) /\ <<"unlock">> \in Seq(Steps)
  <2>1. ~In("lock", work[w].todo)
    BY <1>2, Holder DEF Holds
  <2>2. Left(<<"unlock">>, work[w].todo)
    BY <1>2, <2>1, AtWorkOn, WhatBreaksOff
  <2> QED
    BY <2>2 DEF Left, Sound
<1>4. /\ job \in Jobs /\ job.todo = <<"unlock">> /\ job.turn = work[w].turn /\ job.conv = work[w].conv
  BY <1>2, <1>3 DEF Jobs
<1>5. work' = [work EXCEPT ![w] = job]
  BY <1>2 DEF GivesUp
<1> HIDE DEF job
<1>6. work'[w] = job /\ Moved(w)
  BY <1>2, <1>3, <1>4, <1>5 DEF Moved, Typed, Of
<1>7. Doing(w)' \notin {"untrace", "forget"}
  <2>1. Head(<<"unlock">>) = "unlock"
    OBVIOUS
  <2> QED
    BY <1>4, <1>6, <2>1 DEF Doing
<1>8. Swept(w)'
  BY <1>7 DEF Swept
<1>9. WipedStaysWiped'
  BY <1>2 DEF WipedStaysWiped, There
<1> QED
  BY <1>6, <1>8, <1>9, SweepStep

\* What is under way when a sweep begins is what it is to wipe.
LEMMA Sweeping ==
  ASSUME IInv, NEW w \in Actors, Doing(w) \in SweepSteps, Sweeps(w)
  PROVE  Moved(w) /\ (AtWork(w)' => Of(w)' = Of(w) /\ work'[w].before = known.begun[Of(w)])
<1> DEFINE job == [work[w] EXCEPT !.before = known.begun[Of(w)]]
<1>1. Doing(w) \in Inner /\ Doing(w) # "where"
  BY DEF Inner, SweepSteps
<1>2. Typed /\ AtWork(w) /\ work[w] \in Jobs /\ Of(w) \in Convs /\ Planned(w)
  BY <1>1, InnerFacts
<1>3. /\ job \in Jobs /\ job.todo = work[w].todo /\ job.turn = work[w].turn /\ job.conv = work[w].conv
      /\ job.before = known.begun[Of(w)]
  BY <1>2 DEF Jobs, Typed
<1>4. Then(w, job)
  BY DEF Sweeps
<1> HIDE DEF job
<1>5. /\ Moved(w)
      /\ AtWork(w)' => work'[w].conv = job.conv /\ work'[w].before = job.before
  BY <1>2, <1>3, <1>4, ThenMoves DEF Of
<1> QED
  BY <1>3, <1>5 DEF Of

LEMMA SweptSteps ==
  ASSUME IInv, NEW w \in Actors, Wipes(w) \/ Untraces(w) \/ Drops(w) \/ Forgets(w), qq' = qq
  PROVE  IInv' /\ Moved(w)
<1> DEFINE c == Of(w)
<1>1. Doing(w) \in SweepSteps /\ Doing(w) \in Inner /\ Doing(w) \notin {"none", "where"}
  BY DEF Wipes, Untraces, Drops, Forgets, Inner, SweepSteps
<1>2. /\ Typed /\ Numbered /\ WorkInv(w) /\ WipedStaysWiped
      /\ AtWork(w) /\ work[w] \in Jobs /\ c \in Convs /\ keeper[c] = w
  BY <1>1, InnerFacts
<1>3. /\ log \in [Convs -> Seq({"user", "assistant"} \X Nat)]
      /\ trail \in [Convs -> SUBSET Nat] /\ thread \in [Convs -> SUBSET Nat] /\ conv \in ConvRows
      /\ known \in [count : Nat, turns : Nat, begun : [Convs -> SUBSET Nat], wiped : [Convs -> SUBSET Nat]]
  BY <1>2 DEF Typed, ConvRows
<1>4. Swept(w)
  BY <1>2 DEF WorkInv
<1>5. ASSUME Moved(w), keeper' = keeper, known'.turns = known.turns
      PROVE  /\ AtWork(w)' => Of(w)' = c
             /\ Doing(w)' = "untrace" => Doing(w) = "wipe" /\ AtWork(w)'
             /\ Doing(w)' = "forget" => Doing(w) \in {"untrace", "drop"} /\ AtWork(w)'
  BY <1>1, <1>5, InnerMoves DEF Doing
<1>6. CASE GivesUp(w) /\ UNCHANGED <<conv, log, trail, thread, known>>
  BY <1>1, <1>6, GivesUpStep DEF Wipes, Untraces, Drops, Forgets
<1>7. CASE /\ Doing(w) = "wipe" /\ There(c) /\ log' = [log EXCEPT ![c] = <<>>] /\ Sweeps(w)
           /\ UNCHANGED <<conv, trail, thread, keeper, dedicated, known>>
  <2>1. /\ Moved(w) /\ (AtWork(w)' => work'[w].before = known.begun[c])
        /\ log'[c] = <<>> /\ \A d \in Convs : log'[d] = log[d] \/ log'[d] = <<>>
    BY <1>1, <1>2, <1>3, <1>7, Sweeping
  <2>2. Swept(w)'
    BY <1>5, <1>7, <2>1 DEF Swept, There
  <2>3. WipedStaysWiped'
    BY <1>2, <1>7, <2>1 DEF WipedStaysWiped, There
  <2> QED
    BY <1>1, <1>7, <2>1, <2>2, <2>3, SweepStep
<1>8. CASE /\ Doing(w) = "untrace" /\ trail' = [trail EXCEPT ![c] = {}] /\ Next1(w)
           /\ UNCHANGED <<conv, log, thread, keeper, dedicated, known>>
  <2>1. Moved(w) /\ trail'[c] = {} /\ \A d \in Convs : trail'[d] \subseteq trail[d]
    BY <1>1, <1>2, <1>3, <1>8, GoesOn
  <2>2. AtWork(w)' => work'[w].before = work[w].before
    BY <1>1, <1>2, <1>8, ThenMoves DEF Next1, WorkInv, Of
  <2>3. Swept(w)'
    BY <1>4, <1>5, <1>8, <2>1, <2>2 DEF Swept, There
  <2>4. WipedStaysWiped'
    BY <1>2, <1>8, <2>1 DEF WipedStaysWiped, There
  <2> QED
    BY <1>1, <1>8, <2>1, <2>3, <2>4, SweepStep
<1>9. CASE /\ Doing(w) = "drop" /\ There(c) /\ conv' = [conv EXCEPT ![c] = Row("gone")]
           /\ log' = [log EXCEPT ![c] = <<>>] /\ Sweeps(w)
           /\ trail' = (IF Cascades THEN [trail EXCEPT ![c] = {}] ELSE trail)
           /\ UNCHANGED <<thread, keeper, dedicated, known>>
  <2>1. /\ Moved(w) /\ (AtWork(w)' => work'[w].before = known.begun[c])
        /\ log'[c] = <<>> /\ \A d \in Convs : log'[d] = log[d] \/ log'[d] = <<>>
        /\ conv'[c].state = "gone" /\ \A d \in Convs : conv'[d].state = "gone" \/ conv'[d] = conv[d]
        /\ \A d \in Convs : trail'[d] \subseteq trail[d]
    <3>1. Moved(w) /\ (AtWork(w)' => work'[w].before = known.begun[c])
      BY <1>1, <1>9, Sweeping
    <3>2. log'[c] = <<>> /\ \A d \in Convs : log'[d] = log[d] \/ log'[d] = <<>>
      BY <1>2, <1>3, <1>9
    <3>3. conv'[c].state = "gone" /\ \A d \in Convs : conv'[d].state = "gone" \/ conv'[d] = conv[d]
      BY <1>2, <1>3, <1>9 DEF ConvRows, Row
    <3>4. \A d \in Convs : trail'[d] \subseteq trail[d]
      BY <1>2, <1>3, <1>9
    <3> QED
      BY <3>1, <3>2, <3>3, <3>4
  <2>2. Swept(w)'
    BY <1>5, <1>9, <2>1 DEF Swept, There
  <2>3. WipedStaysWiped'
    BY <1>2, <1>9, <2>1 DEF WipedStaysWiped, There
  <2> QED
    BY <1>1, <1>9, <2>1, <2>2, <2>3, SweepStep
<1>10. CASE /\ Doing(w) = "forget" /\ thread' = [thread EXCEPT ![c] = {}] /\ Next1(w)
            /\ known' = [known EXCEPT !.wiped[c] = @ \cup work[w].before]
            /\ UNCHANGED <<conv, log, trail, keeper, dedicated>>
  <2>1. /\ Moved(w) /\ thread'[c] = {} /\ \A d \in Convs : thread'[d] \subseteq thread[d]
        /\ known'.turns = known.turns
        /\ known'.wiped[c] = known.wiped[c] \cup work[w].before
        /\ \A d \in Convs : d # c => known'.wiped[d] = known.wiped[d]
    <3> HIDE DEF c
    <3>1. Moved(w)
      BY <1>1, <1>10, GoesOn
    <3>2. thread'[c] = {} /\ \A d \in Convs : thread'[d] \subseteq thread[d]
      BY <1>2, <1>3, <1>10
    <3>3. /\ known'.turns = known.turns
          /\ known'.wiped[c] = known.wiped[c] \cup work[w].before
          /\ \A d \in Convs : d # c => known'.wiped[d] = known.wiped[d]
      BY <1>2, <1>3, <1>10
    <3> QED
      BY <3>1, <3>2, <3>3
  <2>2. Swept(w)'
    BY <1>5, <1>10, <2>1 DEF Swept
  <2>3. WipedStaysWiped'
    <3> SUFFICES ASSUME NEW d \in Convs, d # qq
                 PROVE  LET back == {log[d][k][2] : k \in DOMAIN log[d]} \cup thread'[d]
                                      \cup (IF There(d) THEN trail[d] ELSE {})
                        IN  back \cap known'.wiped[d] = {}
      BY <1>10 DEF WipedStaysWiped, There
    <3>1. CASE d = c
      BY <1>4, <1>10, <2>1, <3>1 DEF Swept
    <3>2. CASE d # c
      BY <1>2, <1>10, <2>1, <3>2 DEF WipedStaysWiped
    <3> QED
      BY <3>1, <3>2
  <2> QED
    BY <1>1, <1>4, <1>10, <2>1, <2>2, <2>3, SweepStep DEF Swept
<1> QED
  BY <1>6, <1>7, <1>8, <1>9, <1>10 DEF Wipes, Untraces, Drops, Forgets

\* A request is accepted, and a turn gets a new number.
LEMMA AcceptStep ==
  ASSUME IInv, NEW w \in Actors, NEW todo \in Programmes, NEW c \in Convs \cup {Nowhere},
         NEW turn \in Nat, NEW pair \in Pairs, Accepted(w, todo, c, turn, pair), qq' = qq,
         turn = IF InTurn(todo) THEN known.turns + 1 ELSE 0,
         c = Nowhere => todo = PromptTurn, todo = QQTurn => c = qq
  PROVE  IInv'
<1> DEFINE job == [todo |-> todo, conv |-> c, turn |-> turn, pair |-> pair, window |-> Unbound,
                   before |-> {}]
<1>1. Typed /\ Numbered /\ AnswersFollow /\ WipedStaysWiped
  BY DEF IInv
<1>2. /\ Sound(todo) /\ todo # <<>>
      /\ Guarded(todo) \/ (todo = QQTurn /\ FromQQ(todo))
      /\ ~(In("unlock", todo) /\ ~In("lock", todo))
      /\ InTurn(todo) => In("ask", todo)
      /\ Head(todo) \notin {"untrace", "forget"}
      /\ ~In("where", todo) => c \in Convs
      /\ \A s \in SweepSteps : In(s, todo) => ~InTurn(todo)
  <2>1. Broken \cap Programmes = {}
    <3>1. \A p \in Broken : ~In("lock", p) /\ ~In("ask", p)
      BY Positions
    <3>2. \A p \in Programmes \ {Bind} : In("lock", p) \/ In("ask", p)
      BY Positions DEF Programmes
    <3>3. Bind \notin Broken
      BY DEF Bind, Broken
    <3> QED
      BY <3>1, <3>2, <3>3
  <2>2. In("where", PromptTurn)
    <3>1. PromptTurn[1] = "where" /\ 1 \in 1..Len(PromptTurn)
      BY DEF PromptTurn
    <3> QED
      BY <3>1 DEF In
  <2>3. \A s \in SweepSteps : In(s, todo) => ~InTurn(todo)
    BY Positions
  <2> QED
    BY <2>1, <2>2, <2>3, ProgramsAreSound DEF Broken
<1>3. /\ ~AtWork(w) /\ known.count < Bound /\ work' = [work EXCEPT ![w] = job]
      /\ known' = [known EXCEPT !.count = @ + 1, !.turns = @ + IF turn = 0 THEN 0 ELSE 1]
      /\ UNCHANGED <<conv, log, trail, thread, keeper, dedicated>>
  BY DEF Accepted
<1>4. /\ job \in Jobs /\ job.todo = todo /\ job.turn = turn /\ job.conv = c
      /\ job # Resting
  BY <1>2 DEF Jobs, Sound, Resting
<1> HIDE DEF job
<1>5. /\ work' \in [Actors -> {Resting} \cup Jobs]
      /\ work'[w] = job /\ \A v \in Actors \ {w} : work'[v] = work[v]
  BY <1>1, <1>3, <1>4 DEF Typed
<1>6. /\ known \in [count : Nat, turns : Nat, begun : [Convs -> SUBSET Nat], wiped : [Convs -> SUBSET Nat]]
      /\ known.turns \in Nat /\ known.count \in Nat
  BY <1>1 DEF Typed
<1>7. /\ known' \in [count : Nat, turns : Nat, begun : [Convs -> SUBSET Nat], wiped : [Convs -> SUBSET Nat]]
      /\ known'.count = known.count + 1 /\ known'.begun = known.begun /\ known'.wiped = known.wiped
      /\ known'.turns = known.turns + IF turn = 0 THEN 0 ELSE 1
  <2> DEFINE more == IF turn = 0 THEN 0 ELSE 1
  <2>1. more \in Nat
    OBVIOUS
  <2> HIDE DEF more
  <2>2. known' = [known EXCEPT !.count = known.count + 1, !.turns = known.turns + more]
    BY <1>3 DEF more
  <2>3. known.count + 1 \in Nat /\ known.turns + more \in Nat
    BY <1>6, <2>1
  <2> QED
    BY <1>6, <2>2, <2>3 DEF more
<1>8. turn <= known'.turns /\ known'.turns >= known.turns /\ turn \in {0, known.turns + 1}
  BY <1>6, <1>7
<1>9. Typed'
  BY <1>1, <1>3, <1>5, <1>7 DEF Typed
<1>10. Apart(w)
  BY <1>3, <1>5, <1>7, <1>8 DEF Apart
<1>11. /\ AtWork(w)' /\ Doing(w)' = Head(todo) /\ Of(w)' = c /\ ~Holds(w)'
  BY <1>2, <1>4, <1>5 DEF AtWork, Doing, Of, Holds
<1>12. WorkInv(w)'
  <2>1. Planned(w)'
    BY <1>2, <1>4, <1>5, <1>6, <1>8, <1>11 DEF Planned
  <2>2. Unbegun(w)'
    <3>1. In("ask", todo) => InTurn(todo) /\ turn = known.turns + 1
      BY DEF InTurn, TurnSteps
    <3>2. turn = known.turns + 1 => \A d \in Convs : /\ turn \notin known.begun[d]
                                                   /\ \A k \in 1..Len(log[d]) : log[d][k][2] # turn
      BY <1>1, <1>6 DEF Numbered
    <3> QED
      BY <1>3, <1>4, <1>5, <1>7, <3>1, <3>2 DEF Unbegun
  <2>4. Pending(w)' /\ Begun(w)' /\ Unwiped(w)'
    BY <1>2, <1>4, <1>5 DEF Pending, Begun, Unwiped
  <2>5. Swept(w)'
    BY <1>2, <1>11 DEF Swept
  <2> QED
    BY <2>1, <2>2, <2>4, <2>5 DEF WorkInv
<1>13. Numbered'
  <2>1. ASSUME NEW v \in Actors, AtWork(v)', v # w PROVE work'[v].turn = 0 \/ work'[v].turn # work'[w].turn
    <3>1. AtWork(v) /\ work'[v] = work[v] /\ work[v] \in Jobs
      BY <1>1, <1>5, <2>1 DEF AtWork, Typed
    <3>2. work[v].turn <= known.turns /\ work[v].turn \in Nat
      BY <3>1 DEF IInv, WorkInv, Planned, Jobs
    <3> QED
      BY <1>4, <1>5, <1>6, <1>8, <3>1, <3>2
  <2>2. \A v, u \in Actors :
          AtWork(v)' /\ AtWork(u)' /\ work'[v].turn = work'[u].turn /\ work'[v].turn # 0 => v = u
    <3>1. \A v \in Actors \ {w} : (AtWork(v)' <=> AtWork(v)) /\ work'[v] = work[v]
      BY <1>5 DEF AtWork
    <3> QED
      BY <1>1, <2>1, <3>1 DEF Numbered
  <2>3. known'.turns <= known'.count /\ known'.count <= Bound' /\ known'.turns \in Nat
    <3>1. Bound \in Nat /\ Bound' = Bound
      BY StoreAssumption DEF Bound
    <3> QED
      BY <1>1, <1>3, <1>6, <1>7, <3>1 DEF Numbered
  <2>4. 1..known.turns \subseteq 1..known'.turns
    BY <1>6, <1>8, <2>3
  <2> QED
    BY <1>1, <1>3, <1>7, <2>2, <2>3, <2>4 DEF Numbered
<1>14. AnswersFollow' /\ WipedStaysWiped'
  BY <1>1, <1>3, <1>7 DEF AnswersFollow, WipedStaysWiped, There
<1> QED
  BY <1>9, <1>10, <1>12, <1>13, <1>14, Together

LEMMA RenameStep ==
  ASSUME IInv, NEW w \in Actors, NEW c \in Convs, Renames(w, c), qq' = qq
  PROVE  IInv'
<1>1. Typed /\ Numbered /\ AnswersFollow /\ WipedStaysWiped /\ WorkInv(w)
  BY DEF IInv
<1>2. /\ ~AtWork(w) /\ known.count < Bound /\ conv' = [conv EXCEPT ![c].name = "user"]
      /\ known' = [known EXCEPT !.count = @ + 1]
      /\ UNCHANGED <<log, trail, thread, keeper, work, dedicated>>
  BY DEF Renames
<1>3. conv' \in ConvRows /\ \A d \in Convs : conv'[d].state = conv[d].state
  <2>1. conv \in ConvRows
    BY <1>1 DEF Typed, ConvRows
  <2> QED
    BY <1>2, <2>1 DEF ConvRows
<1>4. /\ known' \in [count : Nat, turns : Nat, begun : [Convs -> SUBSET Nat], wiped : [Convs -> SUBSET Nat]]
      /\ known'.count = known.count + 1 /\ known'.begun = known.begun /\ known'.wiped = known.wiped
      /\ known'.turns = known.turns
      /\ known.turns \in Nat /\ known.count \in Nat
  <2>1. known \in [count : Nat, turns : Nat, begun : [Convs -> SUBSET Nat], wiped : [Convs -> SUBSET Nat]]
    BY <1>1 DEF Typed
  <2>2. known.count + 1 \in Nat
    BY <2>1
  <2> QED
    BY <1>2, <2>1, <2>2
<1>5. Typed'
  BY <1>1, <1>2, <1>3, <1>4 DEF Typed, ConvRows
<1>6. Apart(w)
  BY <1>2, <1>3, <1>4 DEF Apart
<1>7. WorkInv(w)'
  BY <1>2 DEF WorkInv, Planned, Unbegun, Pending, Begun, Unwiped, Swept, AtWork, Doing
<1>8. Numbered'
  <2>1. Bound \in Nat /\ Bound' = Bound
    BY StoreAssumption DEF Bound
  <2> QED
    BY <1>1, <1>2, <1>3, <1>4, <2>1 DEF Numbered, AtWork
<1>9. AnswersFollow' /\ WipedStaysWiped'
  BY <1>1, <1>2, <1>3, <1>4 DEF AnswersFollow, WipedStaysWiped, There
<1> QED
  BY <1>5, <1>6, <1>7, <1>8, <1>9, Together

LEMMA StartSteps ==
  ASSUME IInv, NEW w \in Actors, qq' = qq,
         \/ \E c \in Convs : \/ StartsTurn(w, c) \/ StartsClear(w, c) \/ StartsDelete(w, c)
                             \/ \E e, m \in Bindable \cup {Unbound} : StartsBinding(w, c, e, m)
         \/ \E c \in Convs \cup {Nowhere} : StartsTask(w, c)
         \/ StartsFromQQ(w)
  PROVE  IInv'
<1>1. /\ Typed /\ known.turns + 1 \in Nat /\ NoPair \in Pairs /\ Nowhere \notin Convs
      /\ qq \in Convs \cup {Nowhere}
  BY StoreAssumption DEF IInv, Typed, NoPair, Pairs
<1>2. /\ \A p \in {Turn, LockedTurn, PromptTurn, QQTurn} : InTurn(p)
      /\ \A p \in {Clear, Delete, Bind} : ~InTurn(p)
  BY Positions DEF InTurn, TurnSteps
<1>3. /\ \A p \in {Turn, LockedTurn, PromptTurn, Clear, Delete} : In("lock", p)
      /\ ~In("lock", QQTurn) /\ ~In("unlock", Bind) /\ In("ask", QQTurn)
  BY Positions
<1>4. QQTurn \notin {Turn, LockedTurn, PromptTurn, Clear, Delete, Bind}
  BY <1>2, <1>3
<1>5. ASSUME NEW c \in Convs, NEW p \in {Turn, LockedTurn}, Accepted(w, p, c, known.turns + 1, NoPair)
      PROVE  IInv'
  BY <1>1, <1>2, <1>4, <1>5, AcceptStep DEF Programmes
<1>6. ASSUME NEW c \in Convs, NEW p \in {Clear, Delete, Bind}, NEW pair \in Pairs,
             Accepted(w, p, c, 0, pair)
      PROVE  IInv'
  BY <1>1, <1>2, <1>4, <1>6, AcceptStep DEF Programmes
<1>7. ASSUME NEW c \in Convs \cup {Nowhere}, StartsTask(w, c) PROVE IInv'
  BY <1>1, <1>2, <1>4, <1>7, AcceptStep DEF Programmes, StartsTask
<1>8. ASSUME StartsFromQQ(w) PROVE IInv'
  BY <1>1, <1>2, <1>4, <1>8, AcceptStep DEF Programmes, StartsFromQQ
<1>9. ASSUME NEW c \in Convs, NEW e \in Bindable \cup {Unbound}, NEW m \in Bindable \cup {Unbound},
             StartsBinding(w, c, e, m)
      PROVE  IInv'
  <2>1. [endpoint |-> e, model |-> m] \in Pairs
    BY DEF Pairs
  <2> QED
    BY <1>6, <1>9, <2>1 DEF StartsBinding
<1> QED
  BY <1>1, <1>5, <1>6, <1>7, <1>8, <1>9 DEF StartsTurn, StartsClear, StartsDelete

LEMMA InitInv == StoreInit => IInv
<1> SUFFICES ASSUME StoreInit PROVE IInv
  OBVIOUS
<1>1. /\ log = [c \in Convs |-> <<>>] /\ trail = [c \in Convs |-> {}] /\ thread = [c \in Convs |-> {}]
      /\ keeper = [c \in Convs |-> Nowhere] /\ work = [w \in Actors |-> Resting] /\ dedicated = Nowhere
      /\ known = [count |-> 0, turns |-> 0, begun |-> [c \in Convs |-> {}], wiped |-> [c \in Convs |-> {}]]
      /\ conv \in [Convs -> {Row("there"), Row("unborn")}] /\ qq \in Convs \cup {Nowhere}
  BY DEF StoreInit
<1>2. Typed
  <2>1. conv \in ConvRows
    BY <1>1 DEF ConvRows, Row
  <2>2. log \in [Convs -> Seq({"user", "assistant"} \X Nat)]
    BY <1>1
  <2> QED
    BY <1>1, <2>1, <2>2 DEF Typed, ConvRows
<1>3. \A w \in Actors : ~AtWork(w)
  BY <1>1 DEF AtWork
<1>4. \A w \in Actors : WorkInv(w)
  BY <1>3 DEF WorkInv, Planned, Unbegun, Pending, Begun, Unwiped, Swept, Doing
<1>5. Bound \in Nat
  BY StoreAssumption DEF Bound
<1>6. Numbered
  BY <1>1, <1>3, <1>5 DEF Numbered
<1>7. AnswersFollow /\ WipedStaysWiped
  BY <1>1 DEF AnswersFollow, WipedStaysWiped
<1> QED
  BY <1>2, <1>4, <1>6, <1>7 DEF IInv

LEMMA NextInv == IInv /\ [StoreNext]_storeVars => IInv'
<1> SUFFICES ASSUME IInv, [StoreNext]_storeVars PROVE IInv'
  OBVIOUS
<1>1. CASE StoreNext
  <2>1. PICK w \in Actors :
       \/ \E c \in Convs : \/ StartsTurn(w, c) \/ StartsClear(w, c) \/ StartsDelete(w, c) \/ Renames(w, c)
                           \/ \E e, m \in Bindable \cup {Unbound} : StartsBinding(w, c, e, m)
       \/ \E c \in Convs \cup {Nowhere} : StartsTask(w, c)
       \/ StartsFromQQ(w)
       \/ GoesWhere(w) \/ ReadsProvider(w) \/ ReadsWindow(w) \/ GetsLock(w) \/ Writes1(w) \/ Traces(w)
       \/ Thinks(w) \/ Breaks(w) \/ Unlocks1(w) \/ Wipes(w) \/ Untraces(w) \/ Drops(w) \/ Forgets(w)
       \/ BindsField(w) \/ LooksForName(w) \/ GivesName(w)
    BY <1>1 DEF StoreNext
  <2>2. qq' = qq
    BY <1>1 DEF StoreNext
  <2> QED
    BY <2>1, <2>2, StartSteps, RenameStep, WhereStep, ReadSteps, LockSteps, RowSteps, WriteStep,
       TurnSteps1, SweptSteps
<1>2. CASE UNCHANGED storeVars
  <2>1. UNCHANGED <<conv, log, trail, thread, keeper, work, dedicated, qq, known>>
    BY <1>2 DEF storeVars
  <2>2. Typed' /\ Numbered' /\ AnswersFollow' /\ WipedStaysWiped'
    <3>1. Typed'
      BY <2>1 DEF IInv, Typed
    <3>2. Numbered'
      BY <2>1 DEF IInv, Numbered, AtWork, Bound
    <3>3. AnswersFollow' /\ WipedStaysWiped'
      BY <2>1 DEF IInv, AnswersFollow, WipedStaysWiped, There
    <3> QED
      BY <3>1, <3>2, <3>3
  <2>3. ASSUME NEW w \in Actors PROVE WorkInv(w)'
    <3>1. WorkInv(w)
      BY DEF IInv
    <3>2. Planned(w)' /\ Unbegun(w)'
      BY <2>1, <3>1 DEF WorkInv, Planned, Unbegun, AtWork, Of, Holds
    <3>3. Pending(w)' /\ Begun(w)' /\ Unwiped(w)'
      BY <2>1, <3>1 DEF WorkInv, Pending, Begun, Unwiped, AtWork, Of
    <3>4. Swept(w)'
      BY <2>1, <3>1 DEF WorkInv, Swept, Doing, AtWork, Of, There
    <3> QED
      BY <3>2, <3>3, <3>4 DEF WorkInv
  <2> QED
    BY <2>2, <2>3 DEF IInv
<1> QED
  BY <1>1, <1>2

------------------------------------------------------------------------------
(* Every conversation but QQ's is a dialogue *)

\* What is ahead of a worker, as a set.
LEMMA AheadIs ==
  ASSUME NEW p \in Seq(Steps), NEW s
  PROVE  s \in {p[k] : k \in DOMAIN p} <=> In(s, p)
<1>1. DOMAIN p = 1..Len(p)
  OBVIOUS
<1> QED
  BY <1>1 DEF In

\* Who has the floor is at work, has begun its turn and holds the lock.
LEMMA AskedIs ==
  ASSUME IInv, NEW w \in Actors
  PROVE  /\ Asked(w) <=> /\ AtWork(w) /\ In("unlock", work[w].todo) /\ Of(w) \in Convs
                         /\ work[w].turn \in known.begun[Of(w)]
         /\ Asked(w) => /\ work[w] \in Jobs /\ work[w].turn # 0 /\ ~In("ask", work[w].todo)
                        /\ Holds(w) /\ keeper[Of(w)] = w
<1>1. Typed /\ Planned(w) /\ Unbegun(w) /\ Numbered
  BY DEF IInv, WorkInv
<1>2. work[w].todo \in Seq(Steps)
  <2>1. Resting.todo = <<>> /\ <<>> \in Seq(Steps)
    BY DEF Resting
  <2> QED
    BY <1>1, <2>1 DEF Typed, Jobs
<1>3. "unlock" \in Ahead(w) <=> In("unlock", work[w].todo)
  BY <1>2, AheadIs DEF Ahead
<1>4. ~AtWork(w) => ~In("unlock", work[w].todo)
  BY DEF AtWork, Resting, In
<1>5. Asked(w) <=> /\ AtWork(w) /\ In("unlock", work[w].todo) /\ Of(w) \in Convs
                   /\ work[w].turn \in known.begun[Of(w)]
  BY <1>3, <1>4 DEF Asked
<1>6. ASSUME Asked(w)
      PROVE  /\ work[w] \in Jobs /\ work[w].turn # 0 /\ ~In("ask", work[w].todo)
             /\ Holds(w) /\ keeper[Of(w)] = w
  <2>1. AtWork(w) /\ work[w] \in Jobs /\ Of(w) \in Convs
    BY <1>1, <1>5, <1>6 DEF Typed, AtWork
  <2>2. work[w].turn \in 1..known.turns
    BY <1>1, <1>5, <1>6 DEF Numbered
  <2>3. ~In("ask", work[w].todo)
    BY <1>1, <1>5, <1>6 DEF Unbegun
  <2>4. ~In("lock", work[w].todo)
    BY <1>1, <2>1, <2>2, <2>3 DEF Planned
  <2> QED
    BY <1>1, <1>5, <1>6, <2>1, <2>2, <2>3, <2>4 DEF Holds, Planned
<1> QED
  BY <1>5, <1>6

LEMMA AskedIsNext ==
  ASSUME IInv', NEW w \in Actors
  PROVE  Asked(w)' <=> /\ AtWork(w)' /\ In("unlock", work'[w].todo) /\ Of(w)' \in Convs
                       /\ work'[w].turn \in known'.begun[Of(w)']
<1> DEFINE q == work'[w].todo
<1>1. q \in Seq(Steps)
  <2>1. Resting.todo = <<>> /\ <<>> \in Seq(Steps)
    BY DEF Resting
  <2> QED
    BY <2>1 DEF IInv, Typed, Jobs
<1>2. "unlock" \in Ahead(w)' <=> In("unlock", q)
  BY <1>1, AheadIs DEF Ahead
<1>3. ~AtWork(w)' => ~In("unlock", q)
  BY DEF AtWork, Resting, In
<1> QED
  BY <1>2, <1>3 DEF Asked

\* A turn that has asked has the floor, but for QQ's.
LEMMA HasFloor ==
  ASSUME IInv, NEW w \in Actors, Doing(w) \in {"trace", "think", "answer"}
  PROVE  /\ Typed /\ AtWork(w) /\ Of(w) \in Convs
         /\ Of(w) # qq => Asked(w) /\ Holds(w) /\ keeper[Of(w)] = w
<1>1. Doing(w) \in Inner /\ Doing(w) \in TurnSteps
  BY DEF Inner, TurnSteps
<1>2. /\ Typed /\ Planned(w) /\ WorkInv(w) /\ AtWork(w) /\ Of(w) \in Convs
      /\ (Of(w) # qq => keeper[Of(w)] = w) /\ InTurn(work[w].todo) /\ ~In("ask", work[w].todo)
  BY <1>1, InnerFacts
<1>3. Of(w) # qq => Holds(w)
  BY <1>2, Holder
<1>4. work[w].turn \in known.begun[Of(w)]
  BY <1>2 DEF WorkInv, Begun
<1>5. Holds(w) => In("unlock", work[w].todo)
  BY DEF Holds
<1> QED
  BY <1>2, <1>3, <1>4, <1>5, AskedIs

\* It goes on until it gives back the lock.
LEMMA KeepsOn ==
  ASSUME IInv, NEW w \in Actors, Doing(w) \in TurnSteps, Next1(w)
  PROVE  Holds(w) => AtWork(w)' /\ In("unlock", work'[w].todo)
<1> DEFINE p == work[w].todo
<1>1. Doing(w) \in Inner /\ Doing(w) # "unlock"
  BY DEF Inner, TurnSteps
<1>2. Typed /\ Planned(w) /\ AtWork(w) /\ work[w] \in Jobs
  BY <1>1, InnerFacts
<1>3. Sound(p) /\ p # <<>> /\ Doing(w) = Head(p)
  BY <1>2, AtWorkOn
<1>4. Holds(w) => In("unlock", p)
  BY DEF Holds
<1>5. Holds(w) => In("unlock", Tail(p)) /\ Tail(p) # <<>>
  <2> HIDE DEF p
  <2>1. Holds(w) => In("unlock", Tail(p))
    BY <1>1, <1>3, <1>4, PlanTail
  <2>2. ~In("unlock", <<>>)
    BY DEF In
  <2> QED
    BY <2>1, <2>2
<1>6. Tail(p) # <<>> => work'[w].todo = Tail(p)
  BY <1>2 DEF Next1, Then, Typed, Jobs
<1>7. Resting.todo = <<>>
  BY DEF Resting
<1> HIDE DEF p
<1> QED
  BY <1>5, <1>6, <1>7 DEF AtWork

\* It has it alone, and who holds the lock without it leaves it to nobody.
LEMMA FloorAlone ==
  ASSUME IInv, NEW c \in Own, NEW w \in Actors, keeper[c] = w
  PROVE  Floor(c) = IF Asked(w) /\ Of(w) = c THEN {work[w].turn} ELSE {}
<1>1. \A v \in Actors : Asked(v) /\ Of(v) = c => v = w
  BY AskedIs DEF Own
<1> QED
  BY <1>1 DEF Floor

\* A step that is not the question of its turn gives nobody the floor, and one that
\* does not give back the lock leaves it where it is.
LEMMA NobodyElseAsks ==
  ASSUME IInv, IInv', NEW w \in Actors, AtWork(w), Moved(w), known'.begun = known.begun
  PROVE  /\ \A v \in Actors \ {w} : work'[v] = work[v]
         /\ Asked(w)' => Asked(w) /\ Of(w)' = Of(w) /\ work'[w].turn = work[w].turn
         /\ Asked(w) /\ AtWork(w)' /\ In("unlock", work'[w].todo) => Asked(w)'
<1> DEFINE p == work[w].todo
           q == work'[w].todo
<1>1. /\ Asked(w) <=> /\ AtWork(w) /\ In("unlock", p) /\ Of(w) \in Convs
                      /\ work[w].turn \in known.begun[Of(w)]
      /\ Asked(w) => ~In("ask", p)
  BY AskedIs
<1>2. Asked(w)' <=> /\ AtWork(w)' /\ In("unlock", q) /\ Of(w)' \in Convs
                    /\ work'[w].turn \in known'.begun[Of(w)']
  BY AskedIsNext
<1>3. AtWork(w)' => /\ Left(q, p) /\ work'[w].turn = work[w].turn
                    /\ Of(w)' \in Convs
                    /\ Doing(w) # "where" => Of(w)' = Of(w)
  BY DEF Moved, AtWork, Of
<1>4. Doing(w) = Head(p) /\ Sound(p) /\ In(Doing(w), p) /\ Planned(w) /\ Unbegun(w)
  BY AtWorkOn DEF IInv, WorkInv
<1>5. Doing(w) = "where" => \A c \in Convs : work[w].turn \notin known.begun[c]
  <2>1. 0 \notin UNION {known.begun[c] : c \in Convs}
    <3>1. \A c \in Convs : known.begun[c] \subseteq 1..known.turns
      BY DEF IInv, Numbered
    <3> QED
      BY <3>1
  <2>2. Doing(w) = "where" /\ work[w].turn # 0 => In("ask", p)
    BY <1>4 DEF Sound, Planned
  <2> QED
    BY <1>4, <2>1, <2>2 DEF Unbegun
<1> HIDE DEF p, q
<1>6. ASSUME Asked(w)' PROVE Asked(w) /\ Of(w)' = Of(w) /\ work'[w].turn = work[w].turn
  <2>1. In("unlock", p)
    BY <1>2, <1>3, <1>6 DEF Left
  <2> QED
    BY <1>1, <1>2, <1>3, <1>5, <1>6, <2>1
<1>7. Asked(w) /\ AtWork(w)' /\ In("unlock", q) => Asked(w)'
  BY <1>1, <1>2, <1>3, <1>5
<1> QED
  BY <1>6, <1>7 DEF Moved, q

\* What a step of w does to the floors: w may give up its own.
LEMMA FloorStep ==
  ASSUME IInv, NEW w \in Actors, \A v \in Actors \ {w} : work'[v] = work[v],
         known'.begun = known.begun,
         Asked(w)' => Asked(w) /\ Of(w)' = Of(w) /\ work'[w].turn = work[w].turn,
         NEW c \in Own
  PROVE  \/ Floor(c)' = Floor(c) /\ (Asked(w) /\ Of(w) = c => Asked(w)')
         \/ Asked(w) /\ Of(w) = c /\ ~Asked(w)' /\ Floor(c) = {work[w].turn} /\ Floor(c)' = {}
<1>1. \A v \in Actors \ {w} : (Asked(v)' <=> Asked(v)) /\ Of(v)' = Of(v)
  BY DEF Asked, Ahead, Of
<1>2. CASE Asked(w) /\ Of(w) = c /\ ~Asked(w)'
  <2>1. keeper[c] = w
    BY <1>2, AskedIs DEF Own
  <2>2. Floor(c) = {work[w].turn} /\ \A v \in Actors : Asked(v) /\ Of(v) = c => v = w
    BY <1>2, <2>1, FloorAlone, AskedIs DEF Own
  <2>3. Floor(c)' = {}
    BY <1>1, <1>2, <2>2 DEF Floor
  <2> QED
    BY <1>2, <2>2, <2>3
<1>3. CASE ~(Asked(w) /\ Of(w) = c /\ ~Asked(w)')
  <2>1. {v \in Actors : Asked(v)' /\ Of(v)' = c} = {v \in Actors : Asked(v) /\ Of(v) = c}
    BY <1>1, <1>3
  <2>2. \A v \in Actors : Asked(v) /\ Of(v) = c => work'[v].turn = work[v].turn
    BY <1>1, <1>3
  <2> QED
    BY <1>3, <2>1, <2>2 DEF Floor
<1> QED
  BY <1>2, <1>3

\* The dialogues of the conversations, as the refinement reads them off.
Talk == [c \in Own |-> log[c]]
Memory == [c \in Own |-> thread[c]]
Floors == [c \in Own |-> Floor(c)]
Had == [c \in Own |-> known.begun[c]]

LEMMA FloorsStep ==
  ASSUME IInv, NEW w \in Actors, \A v \in Actors \ {w} : work'[v] = work[v], qq' = qq,
         known'.begun = known.begun,
         Asked(w)' => Asked(w) /\ Of(w)' = Of(w) /\ work'[w].turn = work[w].turn
  PROVE  \/ Floors' = Floors /\ (Asked(w) /\ Of(w) \in Own => Asked(w)')
         \/ /\ Of(w) \in Own /\ Asked(w) /\ ~Asked(w)'
            /\ Floors[Of(w)] = {work[w].turn} /\ Floors' = [Floors EXCEPT ![Of(w)] = {}]
<1>1. Own' = Own
  BY DEF Own
<1>2. \A c \in Own :
        \/ Floor(c)' = Floor(c) /\ (Asked(w) /\ Of(w) = c => Asked(w)')
        \/ Asked(w) /\ Of(w) = c /\ ~Asked(w)' /\ Floor(c) = {work[w].turn} /\ Floor(c)' = {}
  BY FloorStep
<1>3. CASE \A c \in Own : Floor(c)' = Floor(c) /\ (Asked(w) /\ Of(w) = c => Asked(w)')
  BY <1>1, <1>3 DEF Floors
<1>4. CASE ~\A c \in Own : Floor(c)' = Floor(c) /\ (Asked(w) /\ Of(w) = c => Asked(w)')
  <2>1. PICK c \in Own : ~(Floor(c)' = Floor(c) /\ (Asked(w) /\ Of(w) = c => Asked(w)'))
    BY <1>4
  <2>2. Asked(w) /\ Of(w) = c /\ ~Asked(w)' /\ Floor(c) = {work[w].turn} /\ Floor(c)' = {}
    BY <1>2, <2>1
  <2>3. \A d \in Own : d # c => Floor(d)' = Floor(d)
    BY <1>2, <2>2
  <2>4. Floors' = [Floors EXCEPT ![c] = {}] /\ Floors[c] = {work[w].turn}
    BY <1>1, <2>2, <2>3 DEF Floors
  <2> QED
    BY <2>2, <2>4
<1> QED
  BY <1>3, <1>4

\* The moves of a dialogue, of what is read off.
LEMMA MovesAre ==
  ASSUME NEW c \in Own
  PROVE  /\ DOMAIN Talk = Own /\ DOMAIN Had = Own
         /\ Dialogue!Asks(c) \/ Dialogue!Thinks(c) \/ Dialogue!Answers(c) \/ Dialogue!Leaves(c)
                \/ Dialogue!Clears(c)
              => Dialogue!Next
         /\ Dialogue!Asks(c) <=>
             /\ Floors[c] = {}
             /\ \E u \in Floors'[c] \ UNION {Had[d] : d \in DOMAIN Had} :
                  /\ Floors' = [Floors EXCEPT ![c] = {u}] /\ Had' = [Had EXCEPT ![c] = @ \cup {u}]
                  /\ Talk' \in {Talk, [Talk EXCEPT ![c] = Append(@, <<"user", u>>)]}
             /\ Memory' = Memory
         /\ Dialogue!Thinks(c) <=>
             /\ \E u \in Floors[c] : Memory' \in {Memory, [Memory EXCEPT ![c] = @ \cup {u}]}
             /\ Talk' = Talk /\ Floors' = Floors /\ Had' = Had
         /\ Dialogue!Answers(c) <=>
             /\ \E u \in Floors[c] : Talk' \in {Talk, [Talk EXCEPT ![c] = Append(@, <<"assistant", u>>)]}
             /\ Memory' = Memory /\ Floors' = Floors /\ Had' = Had
         /\ Dialogue!Leaves(c) <=>
             /\ Floors[c] # {} /\ Floors' = [Floors EXCEPT ![c] = {}]
             /\ Talk' = Talk /\ Memory' = Memory /\ Had' = Had
         /\ Dialogue!Clears(c) <=>
             /\ Floors[c] = {}
             /\ Talk' \in {Talk, [Talk EXCEPT ![c] = <<>>]}
             /\ Memory' \in {Memory, [Memory EXCEPT ![c] = {}]}
             /\ Floors' = Floors /\ Had' = Had
<1>1. DOMAIN Talk = Own /\ DOMAIN Had = Own
  BY DEF Talk, Had
<1>2. Dialogue!Next <=> \E d \in DOMAIN Talk :
        \/ Dialogue!Asks(d) \/ Dialogue!Thinks(d) \/ Dialogue!Answers(d) \/ Dialogue!Leaves(d)
        \/ Dialogue!Clears(d)
  BY DEF Dialogue!Next, Talk
<1> QED
  BY <1>1, <1>2 DEF Dialogue!Asks, Dialogue!Says, Dialogue!Thinks, Dialogue!Answers,
     Dialogue!Leaves, Dialogue!Clears, Talk, Memory, Floors, Had

LEMMA Asking ==
  ASSUME NEW c \in Own, NEW t, Floors[c] = {}, Floors' = [Floors EXCEPT ![c] = {t}],
         \A d \in Own : t \notin Had[d], Had' = [Had EXCEPT ![c] = @ \cup {t}], Memory' = Memory,
         Talk' \in {Talk, [Talk EXCEPT ![c] = Append(@, <<"user", t>>)]}
  PROVE  Dialogue!Next
<1>1. DOMAIN Had = Own /\ DOMAIN Floors = Own
  BY DEF Had, Floors
<1>2. t \in Floors'[c] \ UNION {Had[d] : d \in DOMAIN Had}
  BY <1>1
<1> QED
  BY <1>2, MovesAre

LEMMA Thinking ==
  ASSUME NEW c \in Own, NEW t, Floors[c] = {t}, Floors' = Floors,
         Memory' \in {Memory, [Memory EXCEPT ![c] = @ \cup {t}]}, Talk' = Talk, Had' = Had
  PROVE  Dialogue!Next
<1>1. t \in Floors[c]
  OBVIOUS
<1> QED
  BY <1>1, MovesAre

LEMMA Answering ==
  ASSUME NEW c \in Own, NEW t, Floors[c] = {t}, Floors' = Floors,
         Talk' \in {Talk, [Talk EXCEPT ![c] = Append(@, <<"assistant", t>>)]},
         Memory' = Memory, Had' = Had
  PROVE  Dialogue!Next
<1>1. t \in Floors[c]
  OBVIOUS
<1> QED
  BY <1>1, MovesAre

LEMMA Leaving ==
  ASSUME NEW c \in Own, NEW t, Floors[c] = {t}, Floors' = [Floors EXCEPT ![c] = {}],
         Talk' = Talk, Memory' = Memory, Had' = Had
  PROVE  Dialogue!Next
<1>1. Floors[c] # {}
  OBVIOUS
<1> QED
  BY <1>1, MovesAre

LEMMA Clearing ==
  ASSUME NEW c \in Own, Floors[c] = {}, Floors' = Floors, Had' = Had,
         Talk' \in {Talk, [Talk EXCEPT ![c] = <<>>]}, Memory' \in {Memory, [Memory EXCEPT ![c] = {}]}
  PROVE  Dialogue!Next
BY MovesAre

\* What is read off when a store does not change, or changes for one conversation.
LEMMA ReadOff ==
  ASSUME Typed, qq' = qq
  PROVE  /\ Own' = Own
         /\ log' = log => Talk' = Talk
         /\ thread' = thread => Memory' = Memory
         /\ known'.begun = known.begun => Had' = Had
         /\ \A c \in Convs : \A x :
              /\ log' = [log EXCEPT ![c] = x] =>
                   IF c \in Own THEN Talk' = [Talk EXCEPT ![c] = x] ELSE Talk' = Talk
              /\ thread' = [thread EXCEPT ![c] = x] =>
                   IF c \in Own THEN Memory' = [Memory EXCEPT ![c] = x] ELSE Memory' = Memory
              /\ known'.begun = [known.begun EXCEPT ![c] = x] =>
                   IF c \in Own THEN Had' = [Had EXCEPT ![c] = x] ELSE Had' = Had
<1>1. Own' = Own /\ Own \subseteq Convs
  BY DEF Own
<1>2. /\ DOMAIN log = Convs /\ log = [c \in Convs |-> log[c]]
      /\ DOMAIN thread = Convs /\ thread = [c \in Convs |-> thread[c]]
      /\ DOMAIN known.begun = Convs /\ known.begun = [c \in Convs |-> known.begun[c]]
  BY DEF Typed
<1>3. /\ log' = log => Talk' = Talk
      /\ thread' = thread => Memory' = Memory
      /\ known'.begun = known.begun => Had' = Had
  BY <1>1 DEF Talk, Memory, Had
<1>4. ASSUME NEW c \in Convs, NEW x, log' = [log EXCEPT ![c] = x]
      PROVE  IF c \in Own THEN Talk' = [Talk EXCEPT ![c] = x] ELSE Talk' = Talk
  <2>1. \A d \in Own : log'[d] = IF d = c THEN x ELSE log[d]
    BY <1>1, <1>2, <1>4
  <2> QED
    BY <1>1, <2>1 DEF Talk
<1>5. ASSUME NEW c \in Convs, NEW x, thread' = [thread EXCEPT ![c] = x]
      PROVE  IF c \in Own THEN Memory' = [Memory EXCEPT ![c] = x] ELSE Memory' = Memory
  <2>1. \A d \in Own : thread'[d] = IF d = c THEN x ELSE thread[d]
    BY <1>1, <1>2, <1>5
  <2> QED
    BY <1>1, <2>1 DEF Memory
<1>6. ASSUME NEW c \in Convs, NEW x, known'.begun = [known.begun EXCEPT ![c] = x]
      PROVE  IF c \in Own THEN Had' = [Had EXCEPT ![c] = x] ELSE Had' = Had
  <2>1. \A d \in Own : known'.begun[d] = IF d = c THEN x ELSE known.begun[d]
    BY <1>1, <1>2, <1>6
  <2> QED
    BY <1>1, <2>1 DEF Had
<1> QED
  BY <1>1, <1>3, <1>4, <1>5, <1>6

\* A step that leaves the messages and the checkpoints as they are.
LEMMA ToldQuiet ==
  ASSUME IInv, NEW w \in Actors, \A v \in Actors \ {w} : work'[v] = work[v], qq' = qq,
         Asked(w)' => Asked(w) /\ Of(w)' = Of(w) /\ work'[w].turn = work[w].turn,
         log' = log, thread' = thread, known'.begun = known.begun
  PROVE  Dialogue!Next \/ UNCHANGED <<Talk, Memory, Floors, Had>>
<1>1. Talk' = Talk /\ Memory' = Memory /\ Had' = Had
  BY ReadOff DEF IInv
<1>2. CASE Floors' = Floors
  BY <1>1, <1>2
<1>3. CASE /\ Of(w) \in Own /\ Asked(w) /\ ~Asked(w)'
           /\ Floors[Of(w)] = {work[w].turn} /\ Floors' = [Floors EXCEPT ![Of(w)] = {}]
  <2>1. \A c, t : c \in Own /\ Floors[c] = {t} /\ Floors' = [Floors EXCEPT ![c] = {}] => Dialogue!Next
    BY <1>1, Leaving
  <2> QED
    BY <1>3, <2>1
<1> QED
  BY <1>2, <1>3, FloorsStep

\* A request that is accepted has no floor, and has not yet asked for one.
LEMMA ToldStart ==
  ASSUME IInv, IInv', NEW w \in Actors, NEW todo \in Programmes, NEW c,
         NEW turn \in {0, known.turns + 1}, NEW pair,
         Accepted(w, todo, c, turn, pair), qq' = qq
  PROVE  Dialogue!Next \/ UNCHANGED <<Talk, Memory, Floors, Had>>
<1>1. /\ work \in [Actors -> {Resting} \cup Jobs]
      /\ known \in [count : Nat, turns : Nat, begun : [Convs -> SUBSET Nat], wiped : [Convs -> SUBSET Nat]]
  BY DEF IInv, Typed
<1>2. /\ work'[w].todo = todo /\ \A v \in Actors \ {w} : work'[v] = work[v]
      /\ known'.begun = known.begun /\ log' = log /\ thread' = thread
  BY <1>1 DEF Accepted
<1>3. ~Asked(w)'
  <2>1. work'[w].turn = turn
    BY <1>1 DEF Accepted
  <2>2. turn \notin UNION {known'.begun[d] : d \in Convs}
    <3>1. \A d \in Convs : known.begun[d] \subseteq 1..known.turns
      BY DEF IInv, Numbered
    <3>2. turn \notin 1..known.turns
      BY <1>1
    <3> QED
      BY <1>2, <3>1, <3>2
  <2> QED
    BY <2>1, <2>2 DEF Asked
<1> QED
  BY <1>2, <1>3, ToldQuiet

\* Who thinks has the floor, and keeps it.
LEMMA ToldThought ==
  ASSUME IInv, IInv', NEW w \in Actors, Doing(w) = "think", Moved(w), qq' = qq,
         log' = log, known' = known,
         thread' \in {thread, [thread EXCEPT ![Of(w)] = @ \cup {work[w].turn}]},
         Holds(w) => AtWork(w)' /\ In("unlock", work'[w].todo)
  PROVE  Dialogue!Next \/ UNCHANGED <<Talk, Memory, Floors, Had>>
<1>2. /\ Typed /\ AtWork(w) /\ Of(w) \in Convs
      /\ Of(w) # qq => Asked(w) /\ Holds(w) /\ keeper[Of(w)] = w
  BY HasFloor
<1>3. /\ \A v \in Actors \ {w} : work'[v] = work[v]
      /\ Asked(w)' => Asked(w) /\ Of(w)' = Of(w) /\ work'[w].turn = work[w].turn
      /\ Of(w) # qq => Asked(w)'
  BY <1>2, NobodyElseAsks
<1>4. CASE Of(w) \in Own
  <2> DEFINE t == work[w].turn
  <2>1. PICK c \in Own : c = Of(w)
    BY <1>4
  <2>2. Floors[c] = {t}
    BY <1>2, <2>1, FloorAlone DEF Own, Floors
  <2>3. Floors' = Floors
    <3>1. Asked(w)'
      BY <1>3, <2>1 DEF Own
    <3> QED
      BY <1>3, <3>1, FloorsStep
  <2>4. Memory' \in {Memory, [Memory EXCEPT ![c] = @ \cup {t}]}
    <3>1. thread' = thread \/ thread' = [thread EXCEPT ![c] = thread[c] \cup {t}]
      BY <2>1
    <3>2. Memory[c] = thread[c]
      BY DEF Memory
    <3>3. /\ \A x : thread' = [thread EXCEPT ![c] = x] => Memory' = [Memory EXCEPT ![c] = x]
          /\ thread' = thread => Memory' = Memory
      BY <1>2, <2>1, ReadOff
    <3>4. Memory' = Memory \/ Memory' = [Memory EXCEPT ![c] = thread[c] \cup {t}]
      BY <3>1, <3>3
    <3> QED
      BY <3>2, <3>4
  <2>5. Talk' = Talk /\ Had' = Had
    BY <1>2, ReadOff
  <2> QED
    BY <2>2, <2>3, <2>4, <2>5, Thinking
<1>5. CASE Of(w) \notin Own
  <2>1. Floors' = Floors
    BY <1>3, <1>5, FloorsStep
  <2>2. Memory' = Memory
    <3>1. \A c \in Convs \ Own : \A x : thread' = [thread EXCEPT ![c] = x] => Memory' = Memory
      BY <1>2, ReadOff
    <3>2. thread' = thread => Memory' = Memory
      BY <1>2, ReadOff
    <3> QED
      BY <1>2, <1>5, <3>1, <3>2
  <2> QED
    BY <1>2, <2>1, <2>2, ReadOff
<1> QED
  BY <1>4, <1>5

\* Who sweeps holds the lock, so nobody has the floor.
LEMMA ToldSweep ==
  ASSUME IInv, IInv', NEW w \in Actors, Doing(w) \in SweepSteps, Moved(w), qq' = qq,
         log' \in {log, [log EXCEPT ![Of(w)] = <<>>]},
         thread' \in {thread, [thread EXCEPT ![Of(w)] = {}]}, known'.begun = known.begun
  PROVE  Dialogue!Next \/ UNCHANGED <<Talk, Memory, Floors, Had>>
<1>1. Doing(w) \in Inner
  BY DEF Inner
<1>2. Typed /\ Planned(w) /\ AtWork(w) /\ Of(w) \in Convs /\ keeper[Of(w)] = w
  BY <1>1, InnerFacts
<1>3. ~Asked(w)
  <2>1. In(Doing(w), work[w].todo)
    BY <1>2, AtWorkOn
  <2>2. work[w].turn = 0
    BY <1>2, <2>1 DEF Planned
  <2> QED
    BY <2>2, AskedIs
<1>4. ~Asked(w)' /\ \A v \in Actors \ {w} : work'[v] = work[v]
  BY <1>2, <1>3, NobodyElseAsks
<1>5. Floors' = Floors
  BY <1>3, <1>4, FloorsStep
<1>6. Had' = Had
  BY <1>2, ReadOff
<1>7. CASE Of(w) \in Own
  <2>1. PICK c \in Own : c = Of(w)
    BY <1>7
  <2>2. Floors[c] = {}
    BY <1>2, <1>3, <2>1, FloorAlone DEF Floors
  <2>3. Talk' \in {Talk, [Talk EXCEPT ![c] = <<>>]} /\ Memory' \in {Memory, [Memory EXCEPT ![c] = {}]}
    BY <1>2, <2>1, ReadOff
  <2> QED
    BY <1>5, <1>6, <2>2, <2>3, Clearing
<1>8. CASE Of(w) \notin Own
  <2>1. \A c \in Convs \ Own : \A x :
          /\ log' = [log EXCEPT ![c] = x] => Talk' = Talk
          /\ thread' = [thread EXCEPT ![c] = x] => Memory' = Memory
    BY <1>2, ReadOff
  <2>2. Talk' = Talk /\ Memory' = Memory
    BY <1>2, <1>8, <2>1, ReadOff
  <2> QED
    BY <1>5, <1>6, <2>2
<1> QED
  BY <1>7, <1>8

\* The question: its turn takes the floor of its conversation, which was free.
LEMMA ToldQuestion ==
  ASSUME IInv, IInv', NEW w \in Actors, Writes1(w), Doing(w) = "ask", qq' = qq
  PROVE  Dialogue!Next \/ UNCHANGED <<Talk, Memory, Floors, Had>>
<1> DEFINE t == work[w].turn
           p == work[w].todo
<1>1. Doing(w) \in Inner /\ Doing(w) \in TurnSteps /\ Doing(w) \notin {"none", "where"}
  BY DEF Inner, TurnSteps
<1>2. /\ Typed /\ WorkInv(w) /\ AtWork(w) /\ Of(w) \in Convs /\ (Of(w) # qq => keeper[Of(w)] = w)
      /\ In("ask", p) /\ ~Asked(w) /\ Planned(w)
  BY <1>1, InnerFacts, AskedIs
<1>3. Sound(p) /\ p # <<>> /\ Doing(w) = Head(p)
  BY <1>2, AtWorkOn
<1>4. /\ Moved(w) /\ \A v \in Actors \ {w} : work'[v] = work[v]
      /\ AtWork(w)' => Of(w)' = Of(w) /\ work'[w].turn = t
  <2>1. Moved(w)
    BY <1>1, GoesOn DEF Writes1
  <2> QED
    BY <1>1, <2>1 DEF Moved, AtWork, Of
<1>5. known'.begun = [known.begun EXCEPT ![Of(w)] = @ \cup {t}] /\ thread' = thread /\ keeper' = keeper
  <2>1. known' = [known EXCEPT !.begun[Of(w)] = @ \cup {t}]
    BY DEF Writes1, TurnBegun
  <2>2. known \in [count : Nat, turns : Nat, begun : [Convs -> SUBSET Nat], wiped : [Convs -> SUBSET Nat]]
    BY <1>2 DEF Typed
  <2> QED
    BY <2>1, <2>2 DEF Writes1
<1>6. Of(w) # qq => Asked(w)' /\ AtWork(w)'
  <2>1. Of(w) # qq => AtWork(w)' /\ In("unlock", work'[w].todo)
    BY <1>1, <1>2, Holder, KeepsOn DEF Writes1
  <2>2. t \in known'.begun[Of(w)]
    BY <1>2, <1>5 DEF Typed
  <2> QED
    BY <1>2, <1>4, <2>1, <2>2, AskedIsNext
<1>7. \A v \in Actors \ {w} : (Asked(v)' <=> Asked(v)) /\ Of(v)' = Of(v)
  <2> SUFFICES ASSUME NEW v \in Actors \ {w} PROVE (Asked(v)' <=> Asked(v)) /\ Of(v)' = Of(v)
    OBVIOUS
  <2>1. work'[v] = work[v]
    BY <1>4
  <2>2. AtWork(v) /\ work[v].turn = t => t = 0
    BY <1>2 DEF IInv, Numbered
  <2>3. t # 0
    BY <1>1, InnerFacts
  <2>4. AtWork(v) /\ Of(v) \in Convs =>
          (work[v].turn \in known'.begun[Of(v)] <=> work[v].turn \in known.begun[Of(v)])
    BY <1>2, <1>5, <2>2, <2>3 DEF Typed
  <2>5. Asked(v) <=> /\ AtWork(v) /\ In("unlock", work[v].todo) /\ Of(v) \in Convs
                     /\ work[v].turn \in known.begun[Of(v)]
    BY AskedIs
  <2>6. Asked(v)' <=> /\ AtWork(v) /\ In("unlock", work[v].todo) /\ Of(v) \in Convs
                      /\ work[v].turn \in known'.begun[Of(v)]
    BY <2>1, AskedIsNext DEF AtWork, Of
  <2> QED
    BY <2>1, <2>4, <2>5, <2>6 DEF Of
<1>8. \A d \in Own : d # Of(w) => Floor(d)' = Floor(d)
  <2> SUFFICES ASSUME NEW d \in Own, d # Of(w) PROVE Floor(d)' = Floor(d)
    OBVIOUS
  <2>1. Asked(w)' => AtWork(w)'
    BY AskedIsNext
  <2>2. {v \in Actors : Asked(v)' /\ Of(v)' = d} = {v \in Actors : Asked(v) /\ Of(v) = d}
    BY <1>2, <1>4, <1>7, <2>1
  <2>3. \A v \in Actors : Asked(v) /\ Of(v) = d => work'[v].turn = work[v].turn
    BY <1>2, <1>4
  <2> QED
    BY <2>2, <2>3 DEF Floor
<1>9. \A d \in Convs : t \notin known.begun[d]
  BY <1>2 DEF WorkInv, Unbegun
<1>10. log' = log \/ log' = [log EXCEPT ![Of(w)] = Append(log[Of(w)], <<"user", t>>)]
  BY DEF Writes1, AddsMessage, Speaker
<1>11. Own \subseteq Convs /\ Own' = Own
  BY DEF Own
<1>12. CASE Of(w) \in Own
  <2>1. PICK c \in Own : c = Of(w)
    BY <1>12
  <2>2. Floors[c] = {}
    BY <1>2, <2>1, FloorAlone DEF Own, Floors
  <2>3. Floors' = [Floors EXCEPT ![c] = {t}]
    <3>1. Asked(w)' /\ Of(w)' = c /\ work'[w].turn = t
      BY <1>4, <1>6, <2>1 DEF Own
    <3>2. \A v \in Actors : Asked(v) /\ Of(v) = c => v = w
      BY <1>2, <2>1, AskedIs DEF Own
    <3>3. \A v \in Actors : Asked(v)' /\ Of(v)' = c <=> v = w
      BY <1>7, <3>1, <3>2
    <3>4. Floor(c)' = {t}
      BY <3>1, <3>3 DEF Floor
    <3> QED
      BY <1>8, <1>11, <2>1, <3>4 DEF Floors
  <2>4. (\A d \in Own : t \notin Had[d]) /\ Had' = [Had EXCEPT ![c] = @ \cup {t}]
    <3>1. \A x : known'.begun = [known.begun EXCEPT ![c] = x] => Had' = [Had EXCEPT ![c] = x]
      BY <1>2, <1>11, <2>1, ReadOff
    <3>2. Had[c] = known.begun[c] /\ known'.begun = [known.begun EXCEPT ![c] = known.begun[c] \cup {t}]
      BY <1>5, <2>1 DEF Had
    <3>3. Had' = [Had EXCEPT ![c] = known.begun[c] \cup {t}]
      BY <3>1, <3>2
    <3> QED
      BY <1>9, <1>11, <3>2, <3>3 DEF Had
  <2>5. Talk' \in {Talk, [Talk EXCEPT ![c] = Append(@, <<"user", t>>)]}
    <3>1. /\ \A x : log' = [log EXCEPT ![c] = x] => Talk' = [Talk EXCEPT ![c] = x]
          /\ log' = log => Talk' = Talk
      BY <1>2, <1>11, <2>1, ReadOff
    <3>2. Talk[c] = log[c]
      BY DEF Talk
    <3>3. Talk' = Talk \/ Talk' = [Talk EXCEPT ![c] = Append(log[c], <<"user", t>>)]
      BY <1>10, <2>1, <3>1
    <3> QED
      BY <3>2, <3>3
  <2>6. Memory' = Memory
    BY <1>2, <1>5, ReadOff
  <2> QED
    BY <2>2, <2>3, <2>4, <2>5, <2>6, Asking
<1>13. CASE Of(w) \notin Own
  <2>1. Floors' = Floors
    BY <1>8, <1>11, <1>13 DEF Floors
  <2>2. /\ \A c \in Convs \ Own : \A x :
             /\ log' = [log EXCEPT ![c] = x] => Talk' = Talk
             /\ known'.begun = [known.begun EXCEPT ![c] = x] => Had' = Had
        /\ log' = log => Talk' = Talk
        /\ Memory' = Memory
    BY <1>2, <1>5, ReadOff
  <2> QED
    BY <1>2, <1>5, <1>10, <1>13, <2>1, <2>2
<1> QED
  BY <1>12, <1>13

\* An answer: its turn keeps the floor.
LEMMA ToldAnswer ==
  ASSUME IInv, IInv', NEW w \in Actors, Writes1(w), Doing(w) = "answer", qq' = qq, Moved(w)
  PROVE  Dialogue!Next \/ UNCHANGED <<Talk, Memory, Floors, Had>>
<1> DEFINE t == work[w].turn
<1>1. Doing(w) \in TurnSteps
  BY DEF TurnSteps
<1>2. /\ Typed /\ AtWork(w) /\ Of(w) \in Convs
      /\ Of(w) # qq => Asked(w) /\ Holds(w) /\ keeper[Of(w)] = w
  BY HasFloor
<1>3. /\ known'.begun = known.begun /\ \A v \in Actors \ {w} : work'[v] = work[v]
      /\ Asked(w)' => Asked(w) /\ Of(w)' = Of(w) /\ work'[w].turn = work[w].turn
      /\ Of(w) # qq => Asked(w)'
  <2>1. known'.begun = known.begun
    BY DEF Writes1
  <2>2. Holds(w) => AtWork(w)' /\ In("unlock", work'[w].todo)
    BY <1>1, KeepsOn DEF Writes1
  <2> QED
    BY <1>2, <2>1, <2>2, NobodyElseAsks
<1>4. known' = known /\ thread' = thread
  BY DEF Writes1
<1>5. log' = log \/ log' = [log EXCEPT ![Of(w)] = Append(log[Of(w)], <<"assistant", t>>)]
  BY DEF Writes1, AddsMessage, Speaker
<1>6. Memory' = Memory /\ Had' = Had /\ (log' = log => Talk' = Talk)
  BY <1>2, <1>4, ReadOff
<1>7. CASE Of(w) \in Own
  <2>1. PICK c \in Own : c = Of(w)
    BY <1>7
  <2>2. Floors[c] = {t} /\ Floors' = Floors
    <3>1. Floors[c] = {t}
      BY <1>2, <2>1, FloorAlone DEF Own, Floors
    <3>2. Asked(w)'
      BY <1>3, <2>1 DEF Own
    <3> QED
      BY <1>3, <3>1, <3>2, FloorsStep
  <2>3. Talk' \in {Talk, [Talk EXCEPT ![c] = Append(@, <<"assistant", t>>)]}
    <3>1. \A x : log' = [log EXCEPT ![c] = x] => Talk' = [Talk EXCEPT ![c] = x]
      BY <1>2, <2>1, ReadOff
    <3>2. Talk[c] = log[c]
      BY DEF Talk
    <3>3. Talk' = Talk \/ Talk' = [Talk EXCEPT ![c] = Append(log[c], <<"assistant", t>>)]
      BY <1>5, <1>6, <2>1, <3>1
    <3> QED
      BY <3>2, <3>3
  <2> QED
    BY <1>6, <2>2, <2>3, Answering
<1>8. CASE Of(w) \notin Own
  <2>1. Floors' = Floors
    BY <1>3, <1>8, FloorsStep
  <2>2. \A c \in Convs \ Own : \A x : log' = [log EXCEPT ![c] = x] => Talk' = Talk
    BY <1>2, ReadOff
  <2>3. Talk' = Talk
    BY <1>2, <1>5, <1>6, <1>8, <2>2
  <2> QED
    BY <1>6, <2>1, <2>3
<1> QED
  BY <1>7, <1>8

LEMMA ToldStep ==
  ASSUME IInv, IInv', StoreNext
  PROVE  Dialogue!Next \/ UNCHANGED <<Talk, Memory, Floors, Had>>
<1> DEFINE Shown == Dialogue!Next \/ UNCHANGED <<Talk, Memory, Floors, Had>>
<1>1. qq' = qq /\ Typed
  BY DEF StoreNext, IInv
<1>2. ASSUME NEW w \in Actors, NEW c \in Convs \cup {Nowhere},
             \/ StartsTurn(w, c) \/ StartsClear(w, c) \/ StartsDelete(w, c) \/ StartsTask(w, c)
             \/ \E e, m \in Bindable \cup {Unbound} : StartsBinding(w, c, e, m)
             \/ StartsFromQQ(w)
      PROVE  Shown
  <2>1. PICK todo \in Programmes, turn \in {0, known.turns + 1} :
          \E d, pair : Accepted(w, todo, d, turn, pair)
    BY <1>2 DEF StartsTurn, StartsClear, StartsDelete, StartsTask, StartsBinding, StartsFromQQ, Programmes
  <2>2. PICK d, pair : Accepted(w, todo, d, turn, pair)
    BY <2>1
  <2> QED
    BY <1>1, <2>2, ToldStart
<1>3. ASSUME NEW w \in Actors, NEW c \in Convs, Renames(w, c) PROVE Shown
  <2>1. known'.begun = known.begun
    BY <1>1, <1>3 DEF Renames, Typed
  <2>2. work' = work /\ log' = log /\ thread' = thread
    BY <1>3 DEF Renames
  <2> QED
    BY <1>1, <2>1, <2>2, ToldQuiet DEF Asked, Ahead, Of
<1>4. ASSUME NEW w \in Actors,
             \/ GoesWhere(w) \/ ReadsProvider(w) \/ ReadsWindow(w) \/ GetsLock(w) \/ Traces(w)
             \/ Unlocks1(w) \/ BindsField(w) \/ LooksForName(w) \/ GivesName(w)
      PROVE  Shown
  <2>1. Moved(w)
    BY <1>1, <1>4, WhereStep, ReadSteps, LockSteps, RowSteps, TurnSteps1
  <2>2. Doing(w) \notin {"none", "ask"}
    BY <1>4 DEF GoesWhere, ReadsProvider, ReadsWindow, GetsLock, Traces, Unlocks1, BindsField,
       LooksForName, GivesName
  <2>3. log' = log /\ thread' = thread /\ known' = known
    BY <1>4 DEF GoesWhere, ReadsProvider, ReadsWindow, GetsLock, Traces, Unlocks1, BindsField,
       LooksForName, GivesName
  <2>4. AtWork(w)
    BY <2>2 DEF Doing
  <2>5. /\ Asked(w)' => Asked(w) /\ Of(w)' = Of(w) /\ work'[w].turn = work[w].turn
        /\ \A v \in Actors \ {w} : work'[v] = work[v]
    BY <2>1, <2>3, <2>4, NobodyElseAsks
  <2> QED
    BY <1>1, <2>3, <2>5, ToldQuiet
<1>5. ASSUME NEW w \in Actors, Thinks(w) \/ Breaks(w) PROVE Shown
  <2>1. /\ Moved(w) /\ log' = log /\ known' = known
        /\ thread' \in {thread, [thread EXCEPT ![Of(w)] = @ \cup {work[w].turn}]}
        /\ Doing(w) # "think" => thread' = thread
    BY <1>1, <1>5, TurnSteps1 DEF Thinks, Breaks
  <2>2. /\ AtWork(w)
        /\ Doing(w) = "think" /\ Holds(w) => AtWork(w)' /\ In("unlock", work'[w].todo)
    <3>1. CASE Thinks(w)
      <4>1. Doing(w) = "think" /\ Next1(w) /\ Doing(w) \in TurnSteps
        BY <3>1 DEF Thinks, TurnSteps
      <4> QED
        BY <4>1, KeepsOn DEF Doing
    <3>2. CASE Breaks(w)
      BY <3>2, Broke
    <3> QED
      BY <1>5, <3>1, <3>2
  <2>3. CASE Doing(w) = "think"
    BY <1>1, <2>1, <2>2, <2>3, ToldThought
  <2>4. CASE Doing(w) # "think"
    <3>1. /\ Asked(w)' => Asked(w) /\ Of(w)' = Of(w) /\ work'[w].turn = work[w].turn
          /\ \A v \in Actors \ {w} : work'[v] = work[v]
      BY <2>1, <2>2, NobodyElseAsks
    <3> QED
      BY <1>1, <2>1, <2>4, <3>1, ToldQuiet
  <2> QED
    BY <2>3, <2>4
<1>6. ASSUME NEW w \in Actors, Wipes(w) \/ Untraces(w) \/ Drops(w) \/ Forgets(w) PROVE Shown
  <2>1. Moved(w)
    BY <1>1, <1>6, SweptSteps
  <2>2. Doing(w) \in SweepSteps
    BY <1>6 DEF Wipes, Untraces, Drops, Forgets, SweepSteps
  <2>3. known'.begun = known.begun
    <3>1. known' = known \/ known' = [known EXCEPT !.wiped[Of(w)] = @ \cup work[w].before]
      BY <1>6 DEF Wipes, Untraces, Drops, Forgets
    <3> QED
      BY <1>1, <3>1 DEF Typed
  <2>4. /\ log' \in {log, [log EXCEPT ![Of(w)] = <<>>]}
        /\ thread' \in {thread, [thread EXCEPT ![Of(w)] = {}]}
    BY <1>6 DEF Wipes, Untraces, Drops, Forgets
  <2> QED
    BY <1>1, <2>1, <2>2, <2>3, <2>4, ToldSweep
<1>7. ASSUME NEW w \in Actors, Writes1(w) PROVE Shown
  <2>1. Moved(w) /\ Doing(w) \in {"ask", "answer"}
    BY <1>1, <1>7, WriteStep DEF Writes1
  <2> QED
    BY <1>1, <1>7, <2>1, ToldQuestion, ToldAnswer
<1> HIDE DEF Shown
<1>8. PICK w \in Actors :
       \/ \E c \in Convs : \/ StartsTurn(w, c) \/ StartsClear(w, c) \/ StartsDelete(w, c) \/ Renames(w, c)
                           \/ \E e, m \in Bindable \cup {Unbound} : StartsBinding(w, c, e, m)
       \/ \E c \in Convs \cup {Nowhere} : StartsTask(w, c)
       \/ StartsFromQQ(w)
       \/ GoesWhere(w) \/ ReadsProvider(w) \/ ReadsWindow(w) \/ GetsLock(w) \/ Writes1(w) \/ Traces(w)
       \/ Thinks(w) \/ Breaks(w) \/ Unlocks1(w) \/ Wipes(w) \/ Untraces(w) \/ Drops(w) \/ Forgets(w)
       \/ BindsField(w) \/ LooksForName(w) \/ GivesName(w)
  BY DEF StoreNext
<1>9. Shown
  BY <1>2, <1>3, <1>4, <1>5, <1>6, <1>7, <1>8
<1> QED
  BY <1>9 DEF Shown

------------------------------------------------------------------------------
(* The theorems *)

(***************************************************************************)
(* The invariant that the others follow from: whatever a worker has still  *)
(* to do is sound, its lock is held where it has to be, and the stores     *)
(* agree with how far its turn, or its sweep, has come.                    *)
(***************************************************************************)
THEOREM IInvAlways == StoreSpec => []IInv
BY InitInv, NextInv, PTL DEF StoreSpec

(***************************************************************************)
(* Rows, messages, events, checkpoints and locks keep their types, and     *)
(* every entry is of a turn that was accepted (repository.py, graph.py).  *)
(***************************************************************************)
THEOREM StoreTypeCorrect == StoreSpec => []StoreTypeOK
<1>1. IInv => StoreTypeOK
  <2> SUFFICES ASSUME IInv PROVE StoreTypeOK
    OBVIOUS
  <2>1. Typed /\ Numbered
    BY DEF IInv
  <2>2. Bound \in Nat /\ known.turns \in Nat /\ known.turns <= Bound
    BY <2>1, StoreAssumption DEF Bound, Typed, Numbered
  <2>3. 1..known.turns \subseteq 1..Bound
    BY <2>2
  <2>4. ASSUME NEW c \in Convs, NEW k \in DOMAIN log[c]
        PROVE  log[c][k] \in {"user", "assistant"} \X (1..Bound)
    <3>1. log[c] \in Seq({"user", "assistant"} \X Nat) /\ k \in 1..Len(log[c])
      BY <2>1 DEF Typed
    <3>2. log[c][k] \in {"user", "assistant"} \X Nat /\ log[c][k][2] \in 1..Bound
      BY <2>1, <2>3, <3>1 DEF Numbered
    <3> QED
      BY <3>2
  <2>5. \A c \in Convs : trail[c] \cup thread[c] \subseteq 1..Bound
    BY <2>1, <2>3 DEF Numbered
  <2> QED
    BY <2>1, <2>4, <2>5 DEF StoreTypeOK, Typed
<1> QED
  BY <1>1, IInvAlways, PTL

(***************************************************************************)
(* In every conversation but QQ's, the messages of a turn stand together,  *)
(* its question first, also when it is stopped after its answer and keeps  *)
(* it twice: the lock is held from the question on, whatever the turn, and *)
(* every way out of it gives the lock back (chat.py, websocket.py, app.py, *)
(* the channels).                                                          *)
(***************************************************************************)
THEOREM AnswersFollowHolds == StoreSpec => []AnswersFollow
<1>1. IInv => AnswersFollow
  BY DEF IInv
<1> QED
  BY <1>1, IInvAlways, PTL

(***************************************************************************)
(* What a clearing or a deletion has wiped of a conversation that is not   *)
(* QQ's does not come back, since who writes and who wipes hold the same   *)
(* lock (conversations.py, concurrency.py).                                *)
(***************************************************************************)
THEOREM WipedStaysWipedHolds == StoreSpec => []WipedStaysWiped
<1>1. IInv => WipedStaysWiped
  BY DEF IInv
<1> QED
  BY <1>1, IInvAlways, PTL

(***************************************************************************)
(* Every conversation but QQ's is a dialogue: turns have it one at a time, *)
(* from the question until the lock is given back, wherever they come from *)
(* and wherever they are stopped, and nobody clears or deletes it in       *)
(* between (concurrency.py, chat.py, websocket.py, app.py, the channels).  *)
(***************************************************************************)
THEOREM DialogueIsKept == StoreSpec => ImplementsDialogue
<1>1. StoreInit => Dialogue!Init
  <2> SUFFICES ASSUME StoreInit PROVE Dialogue!Init
    OBVIOUS
  <2>1. \A c \in Own : log[c] = <<>> /\ thread[c] = {} /\ known.begun[c] = {} /\ Floor(c) = {}
    <3>1. \A w \in Actors : ~Asked(w)
      BY InitInv, AskedIs DEF StoreInit, AtWork
    <3> QED
      BY <3>1 DEF StoreInit, Floor, Own
  <2>2. Own \in SUBSET Convs
    BY DEF Own
  <2> QED
    BY <2>1, <2>2 DEF Dialogue!Init
<1>2. IInv /\ IInv' /\ [StoreNext]_storeVars => [Dialogue!Next]_(Dialogue!dialogueVars)
  <2> SUFFICES ASSUME IInv, IInv', [StoreNext]_storeVars
               PROVE  Dialogue!Next \/ UNCHANGED Dialogue!dialogueVars
    OBVIOUS
  <2>1. UNCHANGED <<Talk, Memory, Floors, Had>> => UNCHANGED Dialogue!dialogueVars
    BY DEF Talk, Memory, Floors, Had, Dialogue!dialogueVars
  <2>2. UNCHANGED storeVars => UNCHANGED <<Talk, Memory, Floors, Had>>
    BY DEF storeVars, Talk, Memory, Floors, Had, Own, Floor, Asked, Ahead, Of
  <2> QED
    BY <2>1, <2>2, ToldStep
<1> QED
  BY <1>1, <1>2, IInvAlways, PTL DEF StoreSpec, ImplementsDialogue, Dialogue!Spec

------------------------------------------------------------------------------
(* The frames of turns: what a relay keeps true *)

SentFrames == ({"frame"} \X Nat) \cup {Final(how) : how \in {"done", "error", "stopped"}} \cup {End}

TurnRecord == [state : {"unused", "created", "queued"} \cup Ended \cup Holding, room : Rooms \cup {Nobody},
               by : Watchers \cup {Nobody}, frames : 0..MaxFrames, cancelled : BOOLEAN]

RelayTyped ==
  /\ relay \in [Streams -> TurnRecord] /\ subs \in [Streams -> SUBSET Watchers]
  /\ onair \in [Rooms -> Streams \cup {Nobody}] /\ wechat \in Rooms \cup {Nobody}
  /\ inbox \in [Streams -> [Watchers -> Seq(SentFrames)]]
  /\ watcher \in [Watchers -> [state : {"reading", "stopping", "gone"}, sub : Streams \cup {Nobody},
                               on : Streams \cup {Nobody}, known : BOOLEAN]]
  /\ heard \in [Watchers -> [turn : Streams \cup {Nobody}, direct : BOOLEAN]]

\* The frames of a sequence come in order, each of 1..n once.
FramesOf(s) == {i \in DOMAIN s : s[i][1] = "frame"}
Ordered(s, n) ==
  /\ {s[i][2] : i \in FramesOf(s)} = 1..n
  /\ \A i, j \in FramesOf(s) : i < j => s[i][2] < s[j][2]

\* Who is not subscribed has no inbox, and whoever is has every frame.
Served(t, c) ==
  IF c \in subs[t] THEN Ordered(inbox[t][c], relay[t].frames) ELSE inbox[t][c] = <<>>

\* How a turn ended is not told before it ends, or before its answer is sent on.
Told(t, c) ==
  LET sent == inbox[t][c]
      last == Len(sent)
  IN
  c \in subs[t] =>
    /\ relay[t].state \notin {"unused", "created"}
    /\ relay[t].state \in {"queued", "preparing", "working", "saving"} => \A i \in DOMAIN sent : sent[i][1] = "frame"
    /\ relay[t].state = "forwarding" =>
         \A i \in DOMAIN sent : sent[i][1] = "frame" \/ sent[i] = Final("done")
    /\ relay[t].state \in Ended => Places(t, c, "end") = {last}
    /\ relay[t].state = "failed" => Places(t, c, "final") = {}
    /\ relay[t].state = "over" /\ relay[t].room # wechat => Places(t, c, "final") = {last - 1}

Stopped(t, c) == {i \in DOMAIN inbox[t][c] : inbox[t][c][i] = Final("stopped")}

\* A watcher that stops a turn has cancelled it, and knows whether its pump will tell.
Stopping(c) ==
  LET t == watcher[c].on IN
  watcher[c].state = "stopping" =>
    /\ t \in Streams /\ relay[t].state # "unused"
    /\ Ongoing(t) => relay[t].cancelled
    /\ watcher[c].known <=> c \in subs[t]
    /\ watcher[c].known /\ ~Ongoing(t) => \E i \in DOMAIN inbox[t][c] : Stopped(t, c) = {i}

Hears(c) ==
  LET t == heard[c].turn IN
  t # Nobody =>
    /\ relay[t].state \in Ended
    /\ IF heard[c].direct THEN c \notin subs[t] ELSE \E i \in DOMAIN inbox[t][c] : Stopped(t, c) = {i}

OnAir == \A r \in Rooms : onair[r] # Nobody => relay[onair[r]].state \in Holding \cup {"queued"}
Made ==
  \A t \in Streams :
    /\ relay[t].state = "created" => relay[t].by \in Watchers /\ relay[t].room \in Rooms
    /\ relay[t].state = "forwarding" => relay[t].room = wechat

RelayInv ==
  /\ RelayTyped
  /\ \A t \in Streams, c \in Watchers : Served(t, c) /\ Told(t, c)
  /\ \A c \in Watchers : Stopping(c) /\ Hears(c)
  /\ OnAir /\ Made

------------------------------------------------------------------------------
(* Sequences of frames *)

LEMMA Joined ==
  ASSUME NEW s \in Seq(SentFrames), NEW e \in Seq(SentFrames)
  PROVE  /\ s \o e \in Seq(SentFrames) /\ Len(s \o e) = Len(s) + Len(e)
         /\ Len(s) \in Nat /\ Len(e) \in Nat
         /\ DOMAIN s = 1..Len(s) /\ DOMAIN (s \o e) = 1..Len(s \o e)
         /\ \A i \in 1..Len(s) : (s \o e)[i] = s[i]
         /\ \A i \in 1..Len(e) : (s \o e)[Len(s) + i] = e[i]
         /\ \A i \in DOMAIN (s \o e) :
              i \in 1..Len(s) \/ \E k \in 1..Len(e) : i = Len(s) + k
<1>1. s \o e \in Seq(SentFrames) /\ Len(s \o e) = Len(s) + Len(e) /\ Len(s) \in Nat /\ Len(e) \in Nat
  OBVIOUS
<1>2. DOMAIN s = 1..Len(s) /\ DOMAIN (s \o e) = 1..Len(s \o e)
  BY <1>1, LenProperties
<1>3. \A i \in 1..Len(s) : (s \o e)[i] = s[i]
  BY <1>1
<1>4. \A i \in 1..Len(e) : (s \o e)[Len(s) + i] = e[i]
  BY <1>1
<1>5. ASSUME NEW i \in 1..Len(s \o e), i \notin 1..Len(s)
      PROVE  \E k \in 1..Len(e) : i = Len(s) + k
  <2>1. i - Len(s) \in 1..Len(e) /\ i = Len(s) + (i - Len(s))
    BY <1>1, <1>5
  <2> QED
    BY <2>1
<1> QED
  BY <1>1, <1>2, <1>3, <1>4, <1>5

\* What is no frame leaves the frames as they are.
LEMMA Concluded ==
  ASSUME NEW s \in Seq(SentFrames), NEW e \in Seq(SentFrames), NEW n,
         Ordered(s, n), \A i \in 1..Len(e) : e[i][1] # "frame"
  PROVE  Ordered(s \o e, n)
<1> DEFINE all == s \o e
<1>1. FramesOf(all) = FramesOf(s) /\ \A i \in FramesOf(s) : all[i] = s[i]
  BY Joined DEF FramesOf
<1> HIDE DEF all
<1>2. {all[i][2] : i \in FramesOf(all)} = {s[i][2] : i \in FramesOf(s)}
  BY <1>1
<1>3. ASSUME NEW i \in FramesOf(all), NEW j \in FramesOf(all), i < j
      PROVE  all[i][2] < all[j][2]
  <2>1. s[i][2] < s[j][2]
    BY <1>1, <1>3 DEF Ordered
  <2> QED
    BY <1>1, <2>1
<1> QED
  BY <1>2, <1>3 DEF Ordered, all

LEMMA Added ==
  ASSUME NEW s \in Seq(SentFrames), NEW n \in Nat, Ordered(s, n)
  PROVE  Ordered(s \o <<Frame(n + 1)>>, n + 1)
<1> DEFINE e == <<Frame(n + 1)>>
           all == s \o e
<1>1. e \in Seq(SentFrames) /\ Len(e) = 1 /\ e[1][1] = "frame" /\ e[1][2] = n + 1
  BY DEF SentFrames, Frame
<1> HIDE DEF e
<1>2. /\ Len(all) = Len(s) + 1 /\ Len(s) \in Nat /\ DOMAIN s = 1..Len(s) /\ DOMAIN all = 1..Len(all)
      /\ \A i \in 1..Len(s) : all[i] = s[i]
      /\ all[Len(s) + 1] = e[1]
  BY <1>1, Joined
<1> HIDE DEF all
<1>3. FramesOf(all) = FramesOf(s) \cup {Len(s) + 1}
  BY <1>1, <1>2 DEF FramesOf
<1>4. FramesOf(s) \subseteq 1..Len(s)
  BY <1>2 DEF FramesOf
<1>5. \A i \in FramesOf(s) : all[i] = s[i] /\ s[i][2] \in 1..n
  BY <1>2, <1>4 DEF Ordered
<1>6. {all[i][2] : i \in FramesOf(all)} = 1..(n + 1)
  <2>1. {all[i][2] : i \in FramesOf(all)} = {s[i][2] : i \in FramesOf(s)} \cup {n + 1}
    BY <1>1, <1>2, <1>3, <1>5
  <2>2. {s[i][2] : i \in FramesOf(s)} = 1..n
    BY DEF Ordered
  <2>3. 1..(n + 1) = (1..n) \cup {n + 1}
    OBVIOUS
  <2> QED
    BY <2>1, <2>2, <2>3
<1>7. ASSUME NEW i \in FramesOf(all), NEW j \in FramesOf(all), i < j
      PROVE  all[i][2] < all[j][2]
  <2>1. CASE j \in FramesOf(s)
    <3>1. i \in FramesOf(s)
      BY <1>2, <1>3, <1>4, <1>7, <2>1
    <3> QED
      BY <3>1, <2>1, <1>5, <1>7 DEF Ordered
  <2>2. CASE j = Len(s) + 1
    <3>1. i \in FramesOf(s)
      BY <1>2, <1>3, <1>7, <2>2
    <3>2. all[i][2] \in 1..n /\ all[j][2] = n + 1
      BY <3>1, <2>2, <1>1, <1>2, <1>5
    <3> QED
      BY <3>2
  <2> QED
    BY <1>3, <2>1, <2>2
<1> QED
  BY <1>6, <1>7 DEF Ordered, all, e

LEMMA KeptIs ==
  ASSUME NEW t \in Streams, relay[t].frames \in Nat
  PROVE  /\ Kept(t) \in Seq(SentFrames) /\ Ordered(Kept(t), relay[t].frames)
         /\ \A i \in DOMAIN Kept(t) : Kept(t)[i][1] = "frame"
<1> DEFINE n == relay[t].frames
           s == Kept(t)
<1>1. s = [k \in 1..n |-> <<"frame", k>>] /\ \A k \in 1..n : <<"frame", k>> \in SentFrames
  BY DEF Kept, Frame, SentFrames
<1>2. s \in Seq(SentFrames)
  BY <1>1
<1>3. DOMAIN s = 1..n /\ FramesOf(s) = 1..n /\ \A i \in 1..n : s[i][1] = "frame" /\ s[i][2] = i
  BY <1>1 DEF FramesOf
<1> HIDE DEF s
<1>4. {s[i][2] : i \in FramesOf(s)} = 1..n
  BY <1>3
<1>5. Ordered(s, n)
  BY <1>3, <1>4 DEF Ordered
<1> QED
  BY <1>2, <1>3, <1>5 DEF s

------------------------------------------------------------------------------
(* Frames in and out of inboxes *)

LEMMA TypesAre ==
  ASSUME RelayTyped
  PROVE  /\ \A t \in Streams :
              /\ relay[t].frames \in Nat /\ relay[t].frames \in 0..MaxFrames
              /\ relay[t].state \in {"unused", "created", "queued"} \cup Ended \cup Holding
              /\ subs[t] \subseteq Watchers
              /\ \A c \in Watchers : /\ inbox[t][c] \in Seq(SentFrames)
                                     /\ DOMAIN inbox[t][c] = 1..Len(inbox[t][c]) /\ Len(inbox[t][c]) \in Nat
         /\ Nobody \notin Streams /\ Nobody \notin Rooms /\ Nobody \notin Watchers
         /\ \A f \in SentFrames : f[1] \in {"frame", "final", "end"} /\ (f[1] = "end" <=> f = End)
         /\ \A k : Frame(k)[1] = "frame" /\ Final(k)[1] = "final" /\ Final(k) # End /\ Frame(k) # End
<1>1. \A t \in Streams : \A c \in Watchers : inbox[t][c] \in Seq(SentFrames)
  BY DEF RelayTyped
<1>2. \A s \in Seq(SentFrames) : DOMAIN s = 1..Len(s) /\ Len(s) \in Nat
  BY LenProperties
<1>3. \A t \in Streams : relay[t].frames \in Nat /\ relay[t].frames \in 0..MaxFrames
                         /\ relay[t].state \in {"unused", "created", "queued"} \cup Ended \cup Holding
                         /\ subs[t] \subseteq Watchers
  BY RelayAssumption DEF RelayTyped, TurnRecord
<1>4. /\ \A f \in SentFrames : f[1] \in {"frame", "final", "end"} /\ (f[1] = "end" <=> f = End)
      /\ \A k : Frame(k)[1] = "frame" /\ Final(k)[1] = "final" /\ Final(k) # End /\ Frame(k) # End
  BY DEF SentFrames, Final, End, Frame
<1> QED
  BY <1>1, <1>2, <1>3, <1>4, RelayAssumption

LEMMA MovesIs ==
  ASSUME RelayTyped, NEW c \in Watchers, NEW from \in Streams \cup {Nobody}, NEW to \in Streams \cup {Nobody},
         Moves(c, from, to)
  PROVE  /\ inbox' \in [Streams -> [Watchers -> Seq(SentFrames)]]
         /\ subs' \in [Streams -> SUBSET Watchers]
         /\ \A t \in Streams : \A d \in Watchers :
              /\ t = to /\ d = c => d \in subs'[t] /\ inbox'[t][d] = Kept(t)
              /\ t # to /\ t = from /\ d = c => d \notin subs'[t] /\ inbox'[t][d] = <<>>
              /\ d # c \/ (t # to /\ t # from) =>
                   (d \in subs'[t] <=> d \in subs[t]) /\ inbox'[t][d] = inbox[t][d]
<1>1. \A t \in Streams : Kept(t) \in Seq(SentFrames)
  BY TypesAre, KeptIs
<1>2. inbox \in [Streams -> [Watchers -> Seq(SentFrames)]] /\ subs \in [Streams -> SUBSET Watchers]
  BY DEF RelayTyped, TurnRecord
<1> DEFINE Emptied == Put(inbox, from, c, <<>>)
<1>3. Emptied \in [Streams -> [Watchers -> Seq(SentFrames)]]
      /\ \A t \in Streams : \A d \in Watchers :
           Emptied[t][d] = IF t = from /\ d = c THEN <<>> ELSE inbox[t][d]
  <2>1. CASE from = Nobody
    BY <1>2, <2>1, RelayAssumption DEF Put
  <2>2. CASE from # Nobody
    <3>1. Emptied = [inbox EXCEPT ![from] = [inbox[from] EXCEPT ![c] = <<>>]]
      BY <1>2, <2>2 DEF Put
    <3>2. <<>> \in Seq(SentFrames)
      OBVIOUS
    <3> HIDE DEF Emptied
    <3> QED
      BY <1>2, <2>2, <3>1, <3>2
  <2> QED
    BY <2>1, <2>2
<1>4. inbox' = Put(Emptied, to, c, Kept(to))
  BY DEF Moves, Seed
<1> HIDE DEF Emptied
<1>5. inbox' \in [Streams -> [Watchers -> Seq(SentFrames)]]
      /\ \A t \in Streams : \A d \in Watchers :
           inbox'[t][d] = IF t = to /\ d = c THEN Kept(t) ELSE Emptied[t][d]
  <2>1. CASE to = Nobody
    BY <1>3, <1>4, <2>1, RelayAssumption DEF Put
  <2>2. CASE to # Nobody
    <3>1. inbox' = [Emptied EXCEPT ![to] = [Emptied[to] EXCEPT ![c] = Kept(to)]]
      BY <1>3, <1>4, <2>2 DEF Put
    <3> QED
      BY <1>1, <1>3, <2>2, <3>1
  <2> QED
    BY <2>1, <2>2
<1>6. subs' = [t \in Streams |-> (subs[t] \ {d \in {c} : t = from}) \cup {d \in {c} : t = to}]
  BY DEF Moves
<1>7. \A t \in Streams : \A d \in Watchers :
        d \in subs'[t] <=> (d \in subs[t] /\ ~(d = c /\ t = from)) \/ (d = c /\ t = to)
  BY <1>2, <1>6
<1>8. subs' \in [Streams -> SUBSET Watchers]
  BY <1>2, <1>6
<1> QED
  BY <1>3, <1>5, <1>7, <1>8

LEMMA PublishesIs ==
  ASSUME RelayTyped, NEW t \in Streams, NEW frames \in Seq(SentFrames), Publishes(t, frames)
  PROVE  /\ inbox' \in [Streams -> [Watchers -> Seq(SentFrames)]]
         /\ \A u \in Streams : \A c \in Watchers :
              inbox'[u][c] = IF u = t /\ c \in subs[t] THEN inbox[u][c] \o frames ELSE inbox[u][c]
<1>1. inbox \in [Streams -> [Watchers -> Seq(SentFrames)]]
  BY DEF RelayTyped
<1> DEFINE new == [c \in Watchers |-> IF c \in subs[t] THEN inbox[t][c] \o frames ELSE inbox[t][c]]
<1>2. inbox' = [inbox EXCEPT ![t] = new]
  BY <1>1 DEF Publishes
<1>3. new \in [Watchers -> Seq(SentFrames)]
  BY <1>1
<1> QED
  BY <1>1, <1>2, <1>3

------------------------------------------------------------------------------
(* What a step leaves alone *)

LEMMA InboxStays ==
  ASSUME RelayInv, NEW t \in Streams, NEW c \in Watchers, wechat' = wechat, relay'[t] = relay[t],
         c \in subs'[t] <=> c \in subs[t], inbox'[t][c] = inbox[t][c]
  PROVE  Served(t, c)' /\ Told(t, c)'
<1>1. Served(t, c) /\ Told(t, c)
  BY DEF RelayInv
<1>2. Served(t, c)'
  BY <1>1 DEF Served, Ordered, FramesOf
<1>3. Told(t, c)'
  BY <1>1 DEF Told, Places
<1> QED
  BY <1>2, <1>3

LEMMA HearingStays ==
  ASSUME RelayInv, NEW c \in Watchers, heard'[c] = heard[c] \/ heard'[c].turn = Nobody,
         heard'[c].turn # Nobody =>
           LET t == heard[c].turn IN
           relay[t].state \in Ended =>
             /\ relay'[t].state \in Ended /\ inbox'[t][c] = inbox[t][c]
             /\ c \in subs'[t] <=> c \in subs[t]
  PROVE  Hears(c)'
<1>1. Hears(c)
  BY DEF RelayInv
<1>2. CASE heard'[c].turn = Nobody
  BY <1>2 DEF Hears
<1>3. CASE heard'[c] = heard[c] /\ heard'[c].turn # Nobody
  BY <1>1, <1>3 DEF Hears, Stopped
<1> QED
  BY <1>2, <1>3

LEMMA StopStays ==
  ASSUME RelayInv, NEW c \in Watchers, watcher'[c] = watcher[c] \/ watcher'[c].state # "stopping",
         watcher'[c].state = "stopping" =>
           LET t == watcher[c].on IN
           relay[t].state # "unused" =>
             /\ relay'[t].state # "unused" /\ inbox'[t][c] = inbox[t][c]
             /\ c \in subs'[t] <=> c \in subs[t]
             /\ Ongoing(t)' <=> Ongoing(t)
             /\ Ongoing(t) /\ relay[t].cancelled => relay'[t].cancelled
  PROVE  Stopping(c)'
<1>1. Stopping(c)
  BY DEF RelayInv
<1>2. CASE watcher'[c].state # "stopping"
  BY <1>2 DEF Stopping
<1>3. CASE watcher'[c] = watcher[c] /\ watcher'[c].state = "stopping"
  BY <1>1, <1>3 DEF Stopping, Stopped
<1> QED
  BY <1>2, <1>3

LEMMA RelayStarts == RelayInit => RelayInv
<1> SUFFICES ASSUME RelayInit PROVE RelayInv
  OBVIOUS
<1>1. <<>> \in Seq(SentFrames)
  OBVIOUS
<1>2. RelayTyped
  BY <1>1, RelayAssumption DEF RelayInit, RelayTyped, TurnRecord
<1>3. \A t \in Streams, c \in Watchers : Served(t, c) /\ Told(t, c)
  BY DEF RelayInit, Served, Told
<1>4. \A c \in Watchers : Stopping(c) /\ Hears(c)
  BY DEF RelayInit, Stopping, Hears
<1>5. OnAir /\ Made
  BY DEF RelayInit, OnAir, Made
<1> QED
  BY <1>2, <1>3, <1>4, <1>5 DEF RelayInv

LEMMA RelayStutters == RelayInv /\ UNCHANGED relayVars => RelayInv'
<1> SUFFICES ASSUME RelayInv, UNCHANGED relayVars PROVE RelayInv'
  OBVIOUS
<1> USE DEF relayVars
<1>1. RelayTyped' /\ OnAir' /\ Made'
  BY DEF RelayInv, RelayTyped, TurnRecord, OnAir, Made
<1>2. \A t \in Streams, c \in Watchers : Served(t, c)' /\ Told(t, c)'
  BY InboxStays
<1>3. \A c \in Watchers : Stopping(c)'
  BY StopStays DEF Ongoing, Ended
<1>4. \A c \in Watchers : Hears(c)'
  BY HearingStays
<1> QED
  BY <1>1, <1>2, <1>3, <1>4 DEF RelayInv

------------------------------------------------------------------------------
(* The life of a turn *)

LEMMA StartsKeeps ==
  ASSUME RelayInv, NEW c \in Watchers, NEW t \in Streams, NEW r \in Rooms, Starts(c, t, r)
  PROVE  RelayInv'
<1>1. relay[t].state = "unused" /\ UNCHANGED <<subs, inbox, onair, watcher, wechat, heard>>
  BY DEF Starts
<1>2. RelayTyped
  BY DEF RelayInv
<1>3. relay' = [relay EXCEPT ![t] = [relay[t] EXCEPT !.state = "created", !.room = r, !.by = c]]
  BY DEF Starts
<1>4. /\ relay'[t].state = "created" /\ relay'[t].room = r /\ relay'[t].by = c
      /\ relay'[t].frames = relay[t].frames
      /\ \A u \in Streams \ {t} : relay'[u] = relay[u]
  BY <1>2, <1>3 DEF RelayTyped, TurnRecord
<1>5. RelayTyped'
  <2>1. relay'[t] \in TurnRecord
    <3> DEFINE new == [relay[t] EXCEPT !.state = "created", !.room = r, !.by = c]
    <3>1. relay'[t] = new
      BY <1>2, <1>3 DEF RelayTyped
    <3>2. relay[t] \in TurnRecord
      BY <1>2 DEF RelayTyped
    <3>3. new \in TurnRecord
      BY <3>2 DEF TurnRecord
    <3> QED
      BY <3>1, <3>3
  <2>2. relay' \in [Streams -> TurnRecord]
    BY <1>2, <1>3, <1>4, <2>1 DEF RelayTyped
  <2> QED
    BY <1>1, <1>2, <2>2 DEF RelayTyped
<1>6. ASSUME NEW u \in Streams, NEW d \in Watchers PROVE Served(u, d)' /\ Told(u, d)'
  <2>1. CASE u = t
    <3>1. d \notin subs[t] /\ Served(t, d)
      BY <1>1 DEF RelayInv, Told
    <3> QED
      BY <1>1, <2>1, <3>1 DEF Served, Told
  <2> QED
    BY <1>1, <1>4, <2>1, InboxStays
<1>7. ASSUME NEW d \in Watchers PROVE Stopping(d)'
  <2>1. watcher[d].state = "stopping" => watcher[d].on \in Streams
    BY DEF RelayInv, Stopping
  <2> QED
    BY <1>1, <1>4, <2>1, StopStays DEF Ongoing, Ended
<1>8. ASSUME NEW d \in Watchers PROVE Hears(d)'
  <2>1. heard[d].turn # Nobody => heard[d].turn \in Streams
    BY <1>2 DEF RelayTyped
  <2> QED
    BY <1>1, <1>4, <2>1, HearingStays DEF Ended
<1>9. OnAir' /\ Made'
  <2>1. \A q \in Rooms : onair[q] # Nobody => onair[q] \in Streams
    BY <1>2 DEF RelayTyped, TurnRecord
  <2>2. OnAir /\ Made
    BY DEF RelayInv
  <2>3. OnAir'
    BY <1>1, <1>4, <2>1, <2>2 DEF OnAir, Holding
  <2>4. Made'
    BY <1>1, <1>4, <2>2 DEF Made
  <2> QED
    BY <2>3, <2>4
<1> QED
  BY <1>5, <1>6, <1>7, <1>8, <1>9 DEF RelayInv

\* A turn that goes on, or one that was cancelled before its first step.
LEMMA BecomesKeeps ==
  ASSUME RelayInv, NEW t \in Streams, NEW state, Becomes(t, state),
         \/ relay[t].state = "queued" /\ state = "preparing"
         \/ relay[t].state = "preparing" /\ state = "working"
         \/ relay[t].state = "working" /\ state = "saving"
         \/ relay[t].state = "created" /\ state = "over"
  PROVE  RelayInv'
<1>1. relay' = [relay EXCEPT ![t].state = state] /\ UNCHANGED <<subs, inbox, onair, watcher, wechat, heard>>
  BY DEF Becomes
<1>2. RelayTyped
  BY DEF RelayInv
<1>3. /\ relay'[t] = [relay[t] EXCEPT !.state = state]
      /\ \A u \in Streams \ {t} : relay'[u] = relay[u]
  BY <1>1, <1>2 DEF RelayTyped, TurnRecord
<1>4. relay'[t].state = state /\ relay'[t].room = relay[t].room /\ relay'[t].by = relay[t].by
      /\ relay'[t].frames = relay[t].frames /\ relay'[t].cancelled = relay[t].cancelled
  BY <1>2, <1>3 DEF RelayTyped, TurnRecord
<1>5. RelayTyped'
  <2>1. [relay[t] EXCEPT !.state = state] \in TurnRecord
    BY ZenonT(60), <1>2 DEF Ended, RelayTyped, TurnRecord, Holding
  <2> QED
    BY <1>1, <1>2, <2>1 DEF RelayTyped
<1>6. ASSUME NEW u \in Streams, NEW d \in Watchers PROVE Served(u, d)' /\ Told(u, d)'
  <2>1. CASE u = t
    <3>1. Served(t, d) /\ Told(t, d)
      BY DEF RelayInv
    <3>2. Served(t, d)'
      BY <1>1, <1>4, <3>1 DEF Served, Ordered, FramesOf
    <3>3. Told(t, d)'
      BY <1>1, <1>4, <3>1 DEF Ended, Told
    <3> QED
      BY <2>1, <3>2, <3>3
  <2> QED
    BY <1>1, <1>3, <2>1, InboxStays
<1>7. ASSUME NEW d \in Watchers PROVE Stopping(d)'
  <2>1. Stopping(d)
    BY DEF RelayInv
  <2>2. CASE watcher[d].state = "stopping" /\ watcher[d].on = t /\ state = "over"
    <3>1. d \notin subs[t]
      BY <2>2 DEF RelayInv, Told
    <3> QED
      BY <1>1, <1>4, <2>1, <2>2, <3>1 DEF Stopping, Ongoing, Ended
  <2>3. CASE ~(watcher[d].state = "stopping" /\ watcher[d].on = t /\ state = "over")
    BY <1>1, <1>3, <1>4, <2>1, <2>3, StopStays DEF Ongoing, Ended, Stopping
  <2> QED
    BY <2>2, <2>3
<1>8. ASSUME NEW d \in Watchers PROVE Hears(d)'
  <2>1. heard[d].turn # Nobody => heard[d].turn \in Streams
    BY <1>2 DEF RelayTyped
  <2> QED
    BY <1>1, <1>3, <2>1, HearingStays DEF Ended
<1>9. OnAir' /\ Made'
  <2>1. \A q \in Rooms : onair[q] # Nobody => onair[q] \in Streams
    BY <1>2 DEF RelayTyped, TurnRecord
  <2>2. OnAir /\ Made
    BY DEF RelayInv
  <2>3. OnAir'
    BY <1>1, <1>3, <1>4, <2>1, <2>2 DEF OnAir, Holding
  <2>4. Made'
    BY <1>1, <1>3, <1>4, <2>2 DEF Made
  <2> QED
    BY <2>3, <2>4
<1> QED
  BY <1>5, <1>6, <1>7, <1>8, <1>9 DEF RelayInv

LEMMA OpensKeeps ==
  ASSUME RelayInv, NEW t \in Streams, Opens(t)
  PROVE  RelayInv'
<1>1. relay[t].state = "created" /\ RelayTyped
  BY DEF Opens, RelayInv
<1> SUFFICES ASSUME ~relay[t].cancelled PROVE RelayInv'
  BY <1>1, BecomesKeeps DEF Opens
<1> DEFINE by == relay[t].by
<1>2. /\ relay' = [relay EXCEPT ![t].state = "queued", ![t].by = Nobody]
      /\ onair' = [onair EXCEPT ![relay[t].room] = t] /\ Moves(by, Nobody, t)
      /\ UNCHANGED <<watcher, wechat, heard>>
  BY DEF Opens
<1>3. by \in Watchers /\ relay[t].room \in Rooms
  BY <1>1 DEF RelayInv, Made
<1>4. /\ relay'[t].state = "queued" /\ relay'[t].room = relay[t].room /\ relay'[t].frames = relay[t].frames
      /\ relay' \in [Streams -> TurnRecord]
      /\ \A u \in Streams \ {t} : relay'[u] = relay[u]
  <2>1. relay[t] \in TurnRecord
    BY <1>1 DEF RelayTyped
  <2>2. relay' = [relay EXCEPT ![t] = [relay[t] EXCEPT !.state = "queued", !.by = Nobody]]
    BY <1>1, <1>2 DEF RelayTyped
  <2> DEFINE new == [relay[t] EXCEPT !.state = "queued", !.by = Nobody]
  <2>3. new \in TurnRecord /\ new.state = "queued" /\ new.room = relay[t].room /\ new.frames = relay[t].frames
    BY <2>1 DEF TurnRecord
  <2> HIDE DEF new
  <2>4. relay' = [relay EXCEPT ![t] = new]
    BY <2>2 DEF new
  <2> QED
    BY <1>1, <2>3, <2>4 DEF RelayTyped
<1>5. /\ inbox' \in [Streams -> [Watchers -> Seq(SentFrames)]] /\ subs' \in [Streams -> SUBSET Watchers]
      /\ by \in subs'[t] /\ inbox'[t][by] = Kept(t)
      /\ \A u \in Streams : \A d \in Watchers :
           d # by \/ u # t => (d \in subs'[u] <=> d \in subs[u]) /\ inbox'[u][d] = inbox[u][d]
  <2> HIDE DEF by
  <2> QED
    BY <1>1, <1>2, <1>3, MovesIs, RelayAssumption
<1>6. \A d \in Watchers : d \notin subs[t] /\ inbox[t][d] = <<>>
  BY <1>1 DEF RelayInv, Told, Served
<1>7. RelayTyped'
  <2>1. onair' \in [Rooms -> Streams \cup {Nobody}]
    BY <1>1, <1>2 DEF RelayTyped
  <2> QED
    BY <1>1, <1>2, <1>4, <1>5, <2>1 DEF RelayTyped
<1>8. ASSUME NEW u \in Streams, NEW d \in Watchers PROVE Served(u, d)' /\ Told(u, d)'
  <2>1. CASE u # t
    BY <1>2, <1>4, <1>5, <2>1, InboxStays
  <2>2. CASE u = t /\ d # by
    <3>1. d \notin subs'[t] /\ inbox'[t][d] = <<>>
      BY <1>5, <1>6, <2>2
    <3> QED
      BY <2>2, <3>1 DEF Served, Told
  <2>3. CASE u = t /\ d = by
    <3>1. /\ Ordered(Kept(t), relay[t].frames)
          /\ \A i \in DOMAIN Kept(t) : Kept(t)[i][1] = "frame"
      BY <1>1, KeptIs, TypesAre
    <3>2. d \in subs'[t] /\ inbox'[t][d] = Kept(t)
      BY <1>5, <2>3
    <3>3. Served(t, d)'
      BY <1>4, <3>1, <3>2 DEF Served, Ordered, FramesOf
    <3>4. Told(t, d)'
      BY <1>4, <3>1, <3>2 DEF Ended, Told
    <3> QED
      BY <2>3, <3>3, <3>4
  <2> QED
    BY <2>1, <2>2, <2>3
<1>9. ASSUME NEW d \in Watchers PROVE Stopping(d)'
  <2>1. watcher[d].state = "stopping" => watcher[d].on \in Streams \ {t}
    BY <1>1 DEF RelayInv, Stopping, Ongoing, Ended
  <2> QED
    BY <1>2, <1>4, <1>5, <2>1, StopStays DEF Ongoing, Ended
<1>10. ASSUME NEW d \in Watchers PROVE Hears(d)'
  <2>1. heard[d].turn # Nobody => heard[d].turn \in Streams \ {t}
    BY <1>1 DEF Ended, RelayTyped, RelayInv, Hears
  <2> QED
    BY <1>2, <1>4, <1>5, <2>1, HearingStays
<1>11. OnAir' /\ Made'
  <2>1. OnAir /\ Made
    BY DEF RelayInv
  <2>2. \A q \in Rooms : onair[q] # Nobody => onair[q] \in Streams \ {t}
    BY <1>1, <2>1 DEF RelayTyped, OnAir, Holding
  <2>3. \A q \in Rooms : onair'[q] # Nobody => onair'[q] = t \/ (onair'[q] = onair[q] /\ onair'[q] # t)
    BY <1>1, <1>2, <2>2 DEF RelayTyped
  <2>4. OnAir'
    BY <1>4, <2>1, <2>2, <2>3 DEF OnAir
  <2>5. Made'
    BY <1>2, <1>4, <2>1 DEF Made
  <2> QED
    BY <2>4, <2>5
<1> QED
  BY <1>7, <1>8, <1>9, <1>10, <1>11 DEF RelayInv

\* Frames that are published while the turn goes on.
LEMMA GoesOnKeeps ==
  ASSUME RelayInv, NEW t \in Streams, NEW frames \in Seq(SentFrames), Publishes(t, frames),
         UNCHANGED <<subs, onair, watcher, wechat, heard>>,
         relay' \in [Streams -> TurnRecord], \A u \in Streams \ {t} : relay'[u] = relay[u],
         relay[t].state \in Holding \cup {"queued"}, relay'[t].state \in Holding \cup {"queued"},
         relay'[t].room = relay[t].room, relay'[t].cancelled = relay[t].cancelled,
         \A c \in Watchers : c \in subs[t] =>
           /\ Ordered(inbox[t][c] \o frames, relay'[t].frames)
           /\ \A i \in DOMAIN (inbox[t][c] \o frames) :
                \/ (inbox[t][c] \o frames)[i][1] = "frame"
                \/ relay'[t].state = "forwarding" /\ (inbox[t][c] \o frames)[i] = Final("done"),
         relay'[t].state = "forwarding" => relay[t].room = wechat
  PROVE  RelayInv'
<1>1. RelayTyped
  BY DEF RelayInv
<1>2. /\ inbox' \in [Streams -> [Watchers -> Seq(SentFrames)]]
      /\ \A u \in Streams : \A c \in Watchers :
           inbox'[u][c] = IF u = t /\ c \in subs[t] THEN inbox[u][c] \o frames ELSE inbox[u][c]
  BY <1>1, PublishesIs
<1>3. RelayTyped'
  BY <1>1, <1>2 DEF RelayTyped
<1>4. ASSUME NEW u \in Streams, NEW d \in Watchers PROVE Served(u, d)' /\ Told(u, d)'
  <2>1. CASE u # t
    BY <1>2, <2>1, InboxStays
  <2>2. CASE u = t /\ d \notin subs[t]
    <3>1. inbox'[t][d] = inbox[t][d] /\ Served(t, d)
      BY <1>2, <2>2 DEF RelayInv
    <3> QED
      BY <2>2, <3>1 DEF Served, Told
  <2>3. CASE u = t /\ d \in subs[t]
    <3> DEFINE all == inbox[t][d] \o frames
    <3>1. inbox'[t][d] = all
      BY <1>2, <2>3
    <3>2. /\ Ordered(all, relay'[t].frames)
          /\ \A i \in DOMAIN all : all[i][1] = "frame" \/ (relay'[t].state = "forwarding" /\ all[i] = Final("done"))
      BY <2>3
    <3> HIDE DEF all
    <3>3. Served(t, d)'
      BY <2>3, <3>1, <3>2 DEF Served, Ordered, FramesOf
    <3>4. Told(t, d)'
      BY <3>1, <3>2 DEF Ended, Told, Holding
    <3> QED
      BY <2>3, <3>3, <3>4
  <2> QED
    BY <2>1, <2>2, <2>3
<1>5. ASSUME NEW d \in Watchers PROVE Stopping(d)'
  <2>1. Stopping(d)
    BY DEF RelayInv
  <2>2. CASE watcher[d].on = t
    <3>1. Ongoing(t) /\ Ongoing(t)' /\ relay'[t].state # "unused"
      BY DEF Ongoing, Ended, Holding
    <3> QED
      BY <2>1, <2>2, <3>1 DEF Stopping
  <2>3. CASE watcher[d].on # t
    <3>1. watcher[d].state = "stopping" => watcher[d].on \in Streams \ {t}
      BY <2>1, <2>3 DEF Stopping
    <3> QED
      BY <1>2, <3>1, StopStays DEF Ongoing, Ended
  <2> QED
    BY <2>2, <2>3
<1>6. ASSUME NEW d \in Watchers PROVE Hears(d)'
  <2>1. heard[d].turn # Nobody => heard[d].turn \in Streams \ {t}
    BY <1>1 DEF Ended, RelayTyped, RelayInv, Hears, Holding
  <2> QED
    BY <1>2, <2>1, HearingStays
<1>7. OnAir' /\ Made'
  <2>1. OnAir /\ Made
    BY DEF RelayInv
  <2>2. \A q \in Rooms : onair[q] # Nobody => onair[q] \in Streams
    BY <1>1 DEF RelayTyped
  <2>3. OnAir'
    BY <2>1, <2>2 DEF OnAir
  <2>4. Made'
    BY <2>1 DEF Made, Holding
  <2> QED
    BY <2>3, <2>4
<1> QED
  BY <1>3, <1>4, <1>5, <1>6, <1>7 DEF RelayInv

LEMMA EmitsKeeps ==
  ASSUME RelayInv, NEW t \in Streams, Emits(t)
  PROVE  RelayInv'
<1> DEFINE n == relay[t].frames
           e == <<Frame(n + 1)>>
<1>1. /\ relay[t].state \in Holding \cup {"queued"} /\ n < MaxFrames
      /\ relay' = [relay EXCEPT ![t].frames = @ + 1] /\ Publishes(t, e)
      /\ UNCHANGED <<subs, onair, watcher, wechat, heard>>
  BY DEF Emits
<1>2. RelayTyped /\ n \in Nat
  BY TypesAre DEF RelayInv
<1>3. relay' \in [Streams -> TurnRecord] /\ relay'[t] = [relay[t] EXCEPT !.frames = n + 1]
      /\ \A u \in Streams \ {t} : relay'[u] = relay[u]
  <2>1. relay[t] \in TurnRecord
    BY <1>2 DEF RelayTyped
  <2> DEFINE new == [relay[t] EXCEPT !.frames = n + 1]
  <2>2. n + 1 \in 0..MaxFrames
    BY <1>1, <1>2, RelayAssumption
  <2>3. new \in TurnRecord
    BY <2>1, <2>2 DEF TurnRecord
  <2>4. relay' = [relay EXCEPT ![t] = new]
    BY <1>1, <1>2 DEF RelayTyped
  <2> HIDE DEF new
  <2>5. relay' \in [Streams -> TurnRecord] /\ relay'[t] = new /\ \A u \in Streams \ {t} : relay'[u] = relay[u]
    BY <1>2, <2>3, <2>4 DEF RelayTyped
  <2> QED
    BY <2>5 DEF new
<1>4. relay'[t].state = relay[t].state /\ relay'[t].room = relay[t].room
      /\ relay'[t].cancelled = relay[t].cancelled /\ relay'[t].frames = n + 1
  BY <1>2, <1>3 DEF RelayTyped, TurnRecord
<1>5. e \in Seq(SentFrames) /\ Len(e) = 1 /\ e[1][1] = "frame"
  BY <1>2 DEF SentFrames, Frame
<1>6. ASSUME NEW c \in Watchers, c \in subs[t]
      PROVE  /\ Ordered(inbox[t][c] \o e, n + 1)
             /\ \A i \in DOMAIN (inbox[t][c] \o e) :
                  \/ (inbox[t][c] \o e)[i][1] = "frame"
                  \/ relay[t].state = "forwarding" /\ (inbox[t][c] \o e)[i] = Final("done")
  <2> DEFINE s == inbox[t][c]
  <2>1. s \in Seq(SentFrames) /\ Ordered(s, n)
    BY <1>2, <1>6, TypesAre DEF RelayInv, Served
  <2>2. \A i \in DOMAIN s : s[i][1] = "frame" \/ (relay[t].state = "forwarding" /\ s[i] = Final("done"))
    BY <1>1, <1>6 DEF RelayInv, Told, Holding
  <2> HIDE DEF s, n
  <2>3. Ordered(s \o <<Frame(n + 1)>>, n + 1)
    BY <1>2, <2>1, Added
  <2> DEFINE all == s \o e
  <2>4. /\ \A i \in DOMAIN s : all[i] = s[i]
        /\ \A i \in DOMAIN all : i \in DOMAIN s \/ all[i] = e[1]
    <3> HIDE DEF e
    <3> QED
      BY <1>5, <2>1, Joined
  <2>5. \A i \in DOMAIN all : all[i][1] = "frame" \/ (relay[t].state = "forwarding" /\ all[i] = Final("done"))
    <3> HIDE DEF all, e
    <3> QED
      BY <1>5, <2>2, <2>4
  <2> QED
    BY <2>3, <2>5 DEF s
<1>7. relay[t].state = "forwarding" => relay[t].room = wechat
  BY DEF RelayInv, Made
<1>8. relay'[t].state \in Holding \cup {"queued"} /\ (relay'[t].state = "forwarding" => relay[t].room = wechat)
  BY <1>1, <1>4, <1>7
<1> HIDE DEF n, e
<1>9. \A c \in Watchers : c \in subs[t] =>
        /\ Ordered(inbox[t][c] \o e, relay'[t].frames)
        /\ \A i \in DOMAIN (inbox[t][c] \o e) :
             \/ (inbox[t][c] \o e)[i][1] = "frame"
             \/ relay'[t].state = "forwarding" /\ (inbox[t][c] \o e)[i] = Final("done")
  <2> SUFFICES ASSUME NEW c \in Watchers, c \in subs[t]
               PROVE  /\ Ordered(inbox[t][c] \o e, relay'[t].frames)
                      /\ \A i \in DOMAIN (inbox[t][c] \o e) :
                           \/ (inbox[t][c] \o e)[i][1] = "frame"
                           \/ relay'[t].state = "forwarding" /\ (inbox[t][c] \o e)[i] = Final("done")
    OBVIOUS
  <2> DEFINE all == inbox[t][c] \o e
  <2>1. /\ Ordered(all, n + 1)
        /\ \A i \in DOMAIN all : all[i][1] = "frame" \/ (relay[t].state = "forwarding" /\ all[i] = Final("done"))
    BY <1>6
  <2> HIDE DEF all
  <2>2. /\ Ordered(all, relay'[t].frames)
        /\ \A i \in DOMAIN all : all[i][1] = "frame" \/ (relay'[t].state = "forwarding" /\ all[i] = Final("done"))
    BY <1>4, <2>1
  <2> QED
    BY <2>2 DEF all
<1> QED
  BY <1>1, <1>3, <1>4, <1>5, <1>8, <1>9, GoesOnKeeps

\* A reply that is to be sent on to WeChat first.
LEMMA SendsOnKeeps ==
  ASSUME RelayInv, NEW t \in Streams, Answers(t), relay[t].room = wechat
  PROVE  RelayInv'
<1> DEFINE e == <<Final("done")>>
<1>1. /\ relay[t].state = "working" /\ relay' = [relay EXCEPT ![t].state = "forwarding"] /\ Publishes(t, e)
      /\ UNCHANGED <<subs, onair, watcher, wechat, heard>>
  BY DEF Answers
<1>2. RelayTyped
  BY DEF RelayInv
<1>3. relay' \in [Streams -> TurnRecord] /\ relay'[t] = [relay[t] EXCEPT !.state = "forwarding"]
      /\ \A u \in Streams \ {t} : relay'[u] = relay[u]
  <2>1. relay[t] \in TurnRecord
    BY <1>2 DEF RelayTyped
  <2>2. [relay[t] EXCEPT !.state = "forwarding"] \in TurnRecord
    BY <2>1 DEF TurnRecord, Holding
  <2> QED
    BY <1>1, <1>2, <2>2 DEF RelayTyped
<1>4. relay'[t].state = "forwarding" /\ relay'[t].room = relay[t].room
      /\ relay'[t].cancelled = relay[t].cancelled /\ relay'[t].frames = relay[t].frames
  BY <1>2, <1>3 DEF RelayTyped, TurnRecord
<1>5. e \in Seq(SentFrames) /\ Len(e) = 1 /\ e[1] = Final("done") /\ e[1][1] # "frame"
  BY DEF SentFrames, Final
<1>6. ASSUME NEW c \in Watchers, c \in subs[t]
      PROVE  /\ Ordered(inbox[t][c] \o e, relay[t].frames)
             /\ \A i \in DOMAIN (inbox[t][c] \o e) :
                  (inbox[t][c] \o e)[i][1] = "frame" \/ (inbox[t][c] \o e)[i] = Final("done")
  <2> DEFINE s == inbox[t][c]
  <2>1. s \in Seq(SentFrames) /\ Ordered(s, relay[t].frames)
    BY <1>2, <1>6, TypesAre DEF RelayInv, Served
  <2>2. \A i \in DOMAIN s : s[i][1] = "frame"
    BY <1>1, <1>6 DEF RelayInv, Told
  <2> HIDE DEF s, e
  <2>3. Ordered(s \o e, relay[t].frames)
    BY <1>5, <2>1, Concluded
  <2> DEFINE all == s \o e
  <2>4. /\ \A i \in DOMAIN s : all[i] = s[i]
        /\ \A i \in DOMAIN all : i \in DOMAIN s \/ all[i] = e[1]
    BY <1>5, <2>1, Joined
  <2>5. \A i \in DOMAIN all : all[i][1] = "frame" \/ all[i] = Final("done")
    <3> HIDE DEF all
    <3> QED
      BY <1>5, <2>2, <2>4
  <2> QED
    BY <2>3, <2>5 DEF s
<1>7. relay[t].state \in Holding \cup {"queued"} /\ relay'[t].state \in Holding \cup {"queued"}
  BY <1>1, <1>4 DEF Holding
<1> HIDE DEF e
<1> QED
  BY <1>1, <1>3, <1>4, <1>5, <1>6, <1>7, GoesOnKeeps

\* The frames that end a turn.
Tells(e, how) == Len(e) = 2 /\ e[1] = Final(how) /\ e[2] = End

LEMMA LastFrames ==
  ASSUME NEW s \in Seq(SentFrames), NEW e \in Seq(SentFrames), NEW how \in {"done", "error", "stopped"},
         Tells(e, how) \/ (Len(e) = 1 /\ e[1] = End),
         \A i \in DOMAIN s : s[i][1] = "frame" \/ s[i] = Final("done")
  PROVE  LET all == s \o e
             last == Len(all)
         IN  /\ all \in Seq(SentFrames) /\ last \in Nat \ {0} /\ all[last] = End
             /\ \A i \in 1..Len(e) : e[i][1] # "frame"
             /\ (\A i \in DOMAIN s : s[i][1] = "frame") /\ Tells(e, how) =>
                  {i \in DOMAIN all : all[i][1] = "final"} = {last - 1}
             /\ {i \in DOMAIN all : all[i][1] = "end"} = {last}
             /\ (\A i \in DOMAIN s : s[i][1] = "frame") /\ Len(e) = 1 =>
                  {i \in DOMAIN all : all[i][1] = "final"} = {}
             /\ how = "stopped" /\ Tells(e, how) =>
                  last - 1 \in DOMAIN all /\ {i \in DOMAIN all : all[i] = Final("stopped")} = {last - 1}
<1> DEFINE all == s \o e
           last == Len(all)
<1>1. /\ End[1] = "end" /\ Final(how)[1] = "final" /\ Final(how) # End
      /\ Final("done") # Final("stopped") /\ Final("stopped")[1] = "final" /\ End # Final("stopped")
  BY DEF End, Final
<1>2. /\ (Len(e) = 2 /\ e[1] = Final(how) /\ e[2] = End) \/ (Len(e) = 1 /\ e[1] = End)
      /\ Tells(e, how) => Len(e) = 2 /\ e[1] = Final(how) /\ e[2] = End
  BY DEF Tells
<1>3. /\ all \in Seq(SentFrames) /\ last = Len(s) + Len(e) /\ Len(s) \in Nat /\ Len(e) \in Nat
      /\ DOMAIN s = 1..Len(s) /\ DOMAIN all = 1..last
      /\ \A i \in 1..Len(s) : all[i] = s[i]
      /\ \A i \in 1..Len(e) : all[Len(s) + i] = e[i]
      /\ \A i \in DOMAIN all : i \in 1..Len(s) \/ \E k \in 1..Len(e) : i = Len(s) + k
  BY Joined
<1> HIDE DEF all, last
<1>4. last \in Nat \ {0} /\ all[last] = End /\ \A i \in 1..Len(e) : e[i][1] # "frame"
  <2>1. CASE Len(e) = 2 /\ e[1] = Final(how) /\ e[2] = End
    <3>1. 2 \in 1..Len(e) /\ last = Len(s) + 2 /\ \A i \in 1..Len(e) : i = 1 \/ i = 2
      BY <1>3, <2>1
    <3> QED
      BY <1>1, <1>3, <2>1, <3>1
  <2>2. CASE Len(e) = 1 /\ e[1] = End
    <3>1. 1 \in 1..Len(e) /\ last = Len(s) + 1 /\ \A i \in 1..Len(e) : i = 1
      BY <1>3, <2>2
    <3> QED
      BY <1>1, <1>3, <2>2, <3>1
  <2> QED
    BY <1>2, <2>1, <2>2
<1>5. ASSUME Tells(e, how)
      PROVE  /\ last = Len(s) + 2 /\ all[last - 1] = Final(how) /\ last - 1 \in DOMAIN all
             /\ \A i \in DOMAIN all : i \in DOMAIN s \/ i = last - 1 \/ i = last
             /\ last - 1 \notin DOMAIN s
  <2>1. Len(e) = 2 /\ e[1] = Final(how) /\ e[2] = End
    BY <1>2, <1>5
  <2>2. last = Len(s) + 2 /\ 1 \in 1..Len(e) /\ \A k \in 1..Len(e) : k = 1 \/ k = 2
    BY <1>3, <2>1
  <2>3. last - 1 = Len(s) + 1 /\ last - 1 \in 1..last /\ last - 1 \notin 1..Len(s)
    BY <1>3, <2>2
  <2>4. all[Len(s) + 1] = e[1]
    BY <1>3, <2>2
  <2>5. \A i \in DOMAIN all : i \in DOMAIN s \/ i = last - 1 \/ i = last
    BY <1>3, <2>2
  <2> QED
    BY <1>3, <2>1, <2>2, <2>3, <2>4, <2>5
<1>6. ASSUME Tells(e, how), \A i \in DOMAIN s : s[i][1] = "frame"
      PROVE  {i \in DOMAIN all : all[i][1] = "final"} = {last - 1}
  <2>1. \A i \in DOMAIN all : all[i][1] = "final" <=> i = last - 1
    BY <1>1, <1>3, <1>4, <1>5, <1>6
  <2> QED
    BY <1>5, <1>6, <2>1
<1>7. ASSUME Tells(e, how), how = "stopped"
      PROVE  {i \in DOMAIN all : all[i] = Final("stopped")} = {last - 1}
  <2>1. \A i \in DOMAIN s : s[i] # Final("stopped")
    BY <1>1
  <2>2. \A i \in DOMAIN all : all[i] = Final("stopped") <=> i = last - 1
    BY <1>1, <1>3, <1>4, <1>5, <1>7, <2>1
  <2> QED
    BY <1>5, <1>7, <2>2
<1>8. {i \in DOMAIN all : all[i][1] = "end"} = {last}
  <2>1. \A i \in DOMAIN s : s[i][1] # "end"
    BY DEF Final
  <2>2. \A i \in DOMAIN all : i \in DOMAIN s \/ i = last - 1 \/ i = last
    BY SMTT(30), <1>2, <1>3, <1>5
  <2>3. last - 1 \in DOMAIN s \/ all[last - 1] = Final(how) \/ last - 1 \notin DOMAIN all
    BY <1>2, <1>3, <1>5
  <2>4. \A i \in DOMAIN all : all[i][1] = "end" <=> i = last
    BY <1>1, <1>3, <1>4, <2>1, <2>2, <2>3
  <2> QED
    BY <1>3, <1>4, <2>4
<1>9. ASSUME \A i \in DOMAIN s : s[i][1] = "frame", Len(e) = 1
      PROVE  {i \in DOMAIN all : all[i][1] = "final"} = {}
  <2>1. \A i \in DOMAIN all : i \in DOMAIN s \/ i = last
    BY <1>3, <1>9
  <2>2. \A i \in DOMAIN all : all[i][1] # "final"
    BY <1>1, <1>3, <1>4, <1>9, <2>1
  <2> QED
    BY <2>2
<1> QED
  BY <1>3, <1>4, <1>5, <1>6, <1>7, <1>8, <1>9 DEF all, last

LEMMA FinishesKeeps ==
  ASSUME RelayInv, NEW t \in Streams, NEW how \in {"done", "error", "stopped"}, NEW tail, NEW as,
         Finishes(t, tail, as), relay[t].state \in Holding \cup {"queued"},
         \/ tail = <<Final(how)>> /\ as = "over"
         \/ tail = <<>> /\ as = "over" /\ relay[t].room = wechat
         \/ tail = <<>> /\ as = "failed" /\ relay[t].state = "preparing",
         relay[t].cancelled => how = "stopped" /\ tail = <<Final(how)>>
  PROVE  RelayInv'
<1> DEFINE e == tail \o <<End>>
<1>1. /\ Publishes(t, e) /\ relay' = [relay EXCEPT ![t].state = as, ![t].cancelled = FALSE]
      /\ onair' = [r \in Rooms |-> IF onair[r] = t THEN Nobody ELSE onair[r]]
      /\ UNCHANGED <<subs, watcher, wechat, heard>>
  BY DEF Finishes
<1>2. RelayTyped
  BY DEF RelayInv
<1>3. /\ e \in Seq(SentFrames) /\ (Tells(e, how) \/ (Len(e) = 1 /\ e[1] = End))
      /\ as = "over" /\ relay[t].room # wechat => Tells(e, how)
      /\ as = "failed" => Len(e) = 1
      /\ as \in Ended
      /\ relay[t].cancelled => how = "stopped" /\ Tells(e, how)
  <2>1. Final(how) \in SentFrames /\ End \in SentFrames
    BY DEF SentFrames
  <2>2. <<Final(how)>> \in Seq(SentFrames) /\ <<>> \in Seq(SentFrames) /\ <<End>> \in Seq(SentFrames)
    BY <2>1
  <2>3. e \in Seq(SentFrames)
    <3>1. tail \in Seq(SentFrames)
      BY <2>2
    <3> DEFINE end == <<End>>
    <3>2. end \in Seq(SentFrames)
      BY <2>2
    <3> HIDE DEF end
    <3>3. tail \o end \in Seq(SentFrames)
      BY <3>1, <3>2
    <3> QED
      BY <3>3 DEF end
  <2>4. ASSUME tail = <<Final(how)>> PROVE Len(e) = 2 /\ e[1] = Final(how) /\ e[2] = End
    BY <2>1, <2>4
  <2>5. ASSUME tail = <<>> PROVE Len(e) = 1 /\ e[1] = End
    BY <2>5
  <2> QED
    BY <2>3, <2>4, <2>5 DEF Tells, Ended
<1>4. /\ relay' \in [Streams -> TurnRecord] /\ relay'[t].state = as /\ relay'[t].room = relay[t].room
      /\ relay'[t].frames = relay[t].frames /\ \A u \in Streams \ {t} : relay'[u] = relay[u]
  <2> DEFINE new == [relay[t] EXCEPT !.state = as, !.cancelled = FALSE]
  <2>1. relay[t] \in TurnRecord
    BY <1>2 DEF RelayTyped
  <2>2. new \in TurnRecord /\ new.state = as /\ new.room = relay[t].room /\ new.frames = relay[t].frames
    BY <1>3, <2>1 DEF TurnRecord
  <2>3. relay' = [relay EXCEPT ![t] = new]
    BY <1>1, <1>2 DEF RelayTyped
  <2> HIDE DEF new
  <2> QED
    BY <1>2, <2>2, <2>3 DEF RelayTyped
<1> HIDE DEF e
<1>5. /\ inbox' \in [Streams -> [Watchers -> Seq(SentFrames)]]
      /\ \A u \in Streams : \A c \in Watchers :
           inbox'[u][c] = IF u = t /\ c \in subs[t] THEN inbox[u][c] \o e ELSE inbox[u][c]
  BY <1>1, <1>2, <1>3, PublishesIs
<1>6. RelayTyped'
  <2>1. onair' \in [Rooms -> Streams \cup {Nobody}]
    BY <1>1, <1>2 DEF RelayTyped
  <2> QED
    BY <1>1, <1>2, <1>4, <1>5, <2>1 DEF RelayTyped
<1>7. ASSUME NEW c \in Watchers, c \in subs[t]
      PROVE  LET all == inbox'[t][c]
                 last == Len(all)
             IN  /\ {i \in DOMAIN all : all[i][1] = "end"} = {last} /\ Ordered(all, relay[t].frames)
                 /\ as = "failed" => {i \in DOMAIN all : all[i][1] = "final"} = {}
                 /\ as = "over" /\ relay[t].room # wechat =>
                      {i \in DOMAIN all : all[i][1] = "final"} = {last - 1}
                 /\ relay[t].cancelled =>
                      last - 1 \in DOMAIN all /\ {i \in DOMAIN all : all[i] = Final("stopped")} = {last - 1}
  <2> DEFINE s == inbox[t][c]
             all == s \o e
             last == Len(all)
  <2>1. inbox'[t][c] = all
    BY <1>5, <1>7
  <2>2. s \in Seq(SentFrames) /\ Ordered(s, relay[t].frames)
    BY <1>2, <1>7, TypesAre DEF RelayInv, Served
  <2>3. \A i \in DOMAIN s : s[i][1] = "frame" \/ s[i] = Final("done")
    BY <1>7 DEF RelayInv, Told, Holding
  <2>4. relay[t].room # wechat \/ as = "failed" => \A i \in DOMAIN s : s[i][1] = "frame"
    BY <1>3, <1>7 DEF RelayInv, Told, Made, Holding
  <2> HIDE DEF s
  <2>5. /\ last \in Nat \ {0} /\ all[last] = End /\ \A i \in 1..Len(e) : e[i][1] # "frame"
        /\ (\A i \in DOMAIN s : s[i][1] = "frame") /\ Tells(e, how) =>
             {i \in DOMAIN all : all[i][1] = "final"} = {last - 1}
        /\ {i \in DOMAIN all : all[i][1] = "end"} = {last}
        /\ (\A i \in DOMAIN s : s[i][1] = "frame") /\ Len(e) = 1 =>
             {i \in DOMAIN all : all[i][1] = "final"} = {}
        /\ how = "stopped" /\ Tells(e, how) =>
             last - 1 \in DOMAIN all /\ {i \in DOMAIN all : all[i] = Final("stopped")} = {last - 1}
    BY SMTT(60), <1>3, <2>2, <2>3, LastFrames
  <2>6. Ordered(all, relay[t].frames)
    BY <1>3, <2>2, <2>5, Concluded
  <2> HIDE DEF all
  <2> QED
    BY <1>3, <2>1, <2>4, <2>5, <2>6
<1>8. ASSUME NEW u \in Streams, NEW d \in Watchers PROVE Served(u, d)' /\ Told(u, d)'
  <2>1. CASE u # t
    BY <1>1, <1>4, <1>5, <2>1, InboxStays
  <2>2. CASE u = t /\ d \notin subs[t]
    <3>1. inbox'[t][d] = inbox[t][d] /\ Served(t, d) /\ subs' = subs
      BY <1>1, <1>5, <2>2 DEF RelayInv
    <3> QED
      BY <2>2, <3>1 DEF Served, Told
  <2>3. CASE u = t /\ d \in subs[t]
    <3>1. Served(t, d)'
      BY <1>1, <1>4, <1>7, <2>3 DEF Served, Ordered, FramesOf
    <3>2. Told(t, d)'
      BY <1>1, <1>4, <1>7, <2>3 DEF Told, Places
    <3> QED
      BY <2>3, <3>1, <3>2
  <2> QED
    BY <2>1, <2>2, <2>3
<1>9. ASSUME NEW d \in Watchers PROVE Stopping(d)'
  <2>1. Stopping(d)
    BY DEF RelayInv
  <2>2. CASE watcher[d].on = t /\ watcher[d].state = "stopping"
    <3>1. relay[t].cancelled
      BY <2>1, <2>2 DEF Stopping, Ongoing, Ended, Holding
    <3>2. watcher[d].known <=> d \in subs[t]
      BY <2>1, <2>2 DEF Stopping
    <3>3. watcher[d].known => \E i \in DOMAIN inbox'[t][d] : Stopped(t, d)' = {i}
      BY <1>7, <3>1, <3>2 DEF Stopped
    <3> QED
      BY <1>1, <1>4, <2>2, <3>2, <3>3 DEF Stopping, Ongoing, Ended
  <2>3. CASE watcher[d].on # t \/ watcher[d].state # "stopping"
    <3>1. watcher[d].state = "stopping" => watcher[d].on \in Streams \ {t}
      BY <2>1, <2>3 DEF Stopping
    <3> QED
      BY <1>1, <1>4, <1>5, <3>1, StopStays DEF Ongoing, Ended
  <2> QED
    BY <2>2, <2>3
<1>10. ASSUME NEW d \in Watchers PROVE Hears(d)'
  <2>1. heard[d].turn # Nobody => heard[d].turn \in Streams \ {t}
    BY <1>2 DEF Ended, RelayTyped, RelayInv, Hears, Holding
  <2> QED
    BY <1>1, <1>4, <1>5, <2>1, HearingStays
<1>11. OnAir' /\ Made'
  <2>1. OnAir /\ Made
    BY DEF RelayInv
  <2>2. \A q \in Rooms : onair'[q] # Nobody => onair'[q] \in Streams \ {t} /\ onair'[q] = onair[q]
    BY <1>1, <1>2 DEF RelayTyped
  <2>3. OnAir'
    BY <1>4, <2>1, <2>2 DEF OnAir
  <2>4. Made'
    BY <1>1, <1>4, <2>1 DEF Made
  <2> QED
    BY <2>3, <2>4
<1> QED
  BY <1>6, <1>8, <1>9, <1>10, <1>11 DEF RelayInv

------------------------------------------------------------------------------
(* Connections that watch, switch, stop and leave *)

LEMMA PumpEndsKeeps ==
  ASSUME RelayInv, NEW t \in Streams, NEW c \in Watchers, PumpEnds(t, c)
  PROVE  RelayInv'
<1>1. /\ Moves(c, t, Nobody) /\ watcher[c].on # t /\ UNCHANGED <<relay, onair, watcher, wechat>>
      /\ heard' = IF heard[c].turn = t THEN [heard EXCEPT ![c].turn = Nobody] ELSE heard
  BY DEF PumpEnds
<1>2. RelayTyped
  BY DEF RelayInv
<1>3. /\ inbox' \in [Streams -> [Watchers -> Seq(SentFrames)]] /\ subs' \in [Streams -> SUBSET Watchers]
      /\ c \notin subs'[t] /\ inbox'[t][c] = <<>>
      /\ \A u \in Streams : \A d \in Watchers :
           d # c \/ u # t => (d \in subs'[u] <=> d \in subs[u]) /\ inbox'[u][d] = inbox[u][d]
  BY <1>1, <1>2, MovesIs, RelayAssumption
<1>4. /\ heard' \in [Watchers -> [turn : Streams \cup {Nobody}, direct : BOOLEAN]]
      /\ \A d \in Watchers : heard'[d] = heard[d] \/ heard'[d].turn = Nobody
      /\ heard'[c].turn # Nobody => heard[c].turn # t
  BY <1>1, <1>2 DEF RelayTyped
<1>5. RelayTyped'
  BY <1>1, <1>2, <1>3, <1>4 DEF RelayTyped
<1>6. ASSUME NEW u \in Streams, NEW d \in Watchers PROVE Served(u, d)' /\ Told(u, d)'
  <2>1. CASE u = t /\ d = c
    BY <1>3, <2>1 DEF Served, Told
  <2>2. CASE u # t \/ d # c
    BY <1>1, <1>3, <2>2, InboxStays
  <2> QED
    BY <2>1, <2>2
<1>7. ASSUME NEW d \in Watchers PROVE Stopping(d)'
  <2>1. watcher[d].state = "stopping" => watcher[d].on \in Streams /\ (d # c \/ watcher[d].on # t)
    BY <1>1 DEF RelayInv, Stopping
  <2> DEFINE u == watcher[d].on
  <2>2. watcher[d].state = "stopping" =>
          inbox'[u][d] = inbox[u][d] /\ (d \in subs'[u] <=> d \in subs[u])
    <3> HIDE DEF u
    <3> QED
      BY <1>3, <2>1 DEF u
  <2>3. watcher' = watcher /\ relay' = relay /\ (Ongoing(u)' <=> Ongoing(u))
    BY <1>1 DEF Ongoing
  <2> QED
    BY <2>2, <2>3, StopStays DEF Ongoing
<1>8. ASSUME NEW d \in Watchers PROVE Hears(d)'
  <2> DEFINE u == heard[d].turn
  <2>1. heard'[d] = heard[d] \/ heard'[d].turn = Nobody
    BY <1>4
  <2>2. heard'[d].turn # Nobody => u \in Streams /\ (d # c \/ u # t)
    BY <1>2, <1>4, <2>1 DEF RelayTyped
  <2>3. heard'[d].turn # Nobody =>
          inbox'[u][d] = inbox[u][d] /\ (d \in subs'[u] <=> d \in subs[u]) /\ relay'[u] = relay[u]
    <3> HIDE DEF u
    <3> QED
      BY <1>1, <1>3, <2>2
  <2> QED
    BY <2>1, <2>3, HearingStays
<1>9. OnAir' /\ Made'
  BY <1>1 DEF RelayInv, OnAir, Made
<1> QED
  BY <1>5, <1>6, <1>7, <1>8, <1>9 DEF RelayInv

\* A connection that is reading goes over to another stream, or to none.
LEMMA GoesOverKeeps ==
  ASSUME RelayInv, NEW c \in Watchers, NEW to \in Streams \cup {Nobody}, Moves(c, watcher[c].sub, to),
         to # Nobody => relay[to].state \in Holding \cup {"queued"},
         watcher' \in [Watchers -> [state : {"reading", "stopping", "gone"}, sub : Streams \cup {Nobody},
                                    on : Streams \cup {Nobody}, known : BOOLEAN]],
         watcher'[c].state # "stopping", \A d \in Watchers \ {c} : watcher'[d] = watcher[d],
         heard' = [heard EXCEPT ![c].turn = Nobody], UNCHANGED <<relay, onair, wechat>>
  PROVE  RelayInv'
<1>1. RelayTyped
  BY DEF RelayInv
<1> DEFINE from == watcher[c].sub
<1>2. from \in Streams \cup {Nobody}
  BY <1>1 DEF RelayTyped
<1> HIDE DEF from
<1>3. /\ inbox' \in [Streams -> [Watchers -> Seq(SentFrames)]] /\ subs' \in [Streams -> SUBSET Watchers]
      /\ \A t \in Streams : \A d \in Watchers :
           /\ t = to /\ d = c => d \in subs'[t] /\ inbox'[t][d] = Kept(t)
           /\ t # to /\ t = from /\ d = c => d \notin subs'[t] /\ inbox'[t][d] = <<>>
           /\ d # c \/ (t # to /\ t # from) =>
                (d \in subs'[t] <=> d \in subs[t]) /\ inbox'[t][d] = inbox[t][d]
  <2>1. Moves(c, from, to)
    BY DEF from
  <2> QED
    BY <1>1, <1>2, <2>1, MovesIs
<1>4. /\ heard' \in [Watchers -> [turn : Streams \cup {Nobody}, direct : BOOLEAN]] /\ heard'[c].turn = Nobody
      /\ \A d \in Watchers \ {c} : heard'[d] = heard[d]
  BY ZenonT(60), <1>1 DEF RelayTyped
<1>5. RelayTyped'
  BY <1>1, <1>3, <1>4 DEF RelayTyped
<1>6. ASSUME NEW t \in Streams, NEW d \in Watchers PROVE Served(t, d)' /\ Told(t, d)'
  <2>1. CASE d # c \/ (t # to /\ t # from)
    BY <1>3, <2>1, InboxStays
  <2>2. CASE d = c /\ t # to /\ t = from
    <3>1. d \notin subs'[t] /\ inbox'[t][d] = <<>>
      BY <1>3, <2>2
    <3> QED
      BY <3>1 DEF Served, Told
  <2>3. CASE d = c /\ t = to
    <3>1. /\ Ordered(Kept(t), relay[t].frames)
          /\ \A i \in DOMAIN Kept(t) : Kept(t)[i][1] = "frame"
      BY <1>1, KeptIs, TypesAre
    <3>2. d \in subs'[t] /\ inbox'[t][d] = Kept(t) /\ relay[t].state \in Holding \cup {"queued"}
      BY <1>3, <2>3, RelayAssumption
    <3>3. Served(t, d)'
      BY <3>1, <3>2 DEF Served, Ordered, FramesOf
    <3>4. Told(t, d)'
      BY <3>1, <3>2 DEF Ended, Told, Holding
    <3> QED
      BY <3>3, <3>4
  <2> QED
    BY <2>1, <2>2, <2>3
<1>7. ASSUME NEW d \in Watchers PROVE Stopping(d)'
  <2>1. watcher[d].state = "stopping" => watcher[d].on \in Streams
    BY DEF RelayInv, Stopping
  <2>2. CASE d = c
    BY <2>2 DEF Stopping
  <2>3. CASE d # c
    BY <1>3, <2>1, <2>3, StopStays DEF Ongoing, Ended
  <2> QED
    BY <2>2, <2>3
<1>8. ASSUME NEW d \in Watchers PROVE Hears(d)'
  <2>1. heard[d].turn # Nobody => heard[d].turn \in Streams
    BY <1>1 DEF RelayTyped
  <2>2. CASE d = c
    BY <1>4, <2>2 DEF Hears
  <2>3. CASE d # c
    <3> DEFINE u == heard[d].turn
    <3>1. heard'[d] = heard[d]
      BY <1>4, <2>3
    <3>2. u # Nobody =>
            inbox'[u][d] = inbox[u][d] /\ (d \in subs'[u] <=> d \in subs[u]) /\ relay'[u] = relay[u]
      <4> HIDE DEF u
      <4> QED
        BY <1>3, <2>1, <2>3 DEF u
    <3> QED
      BY <3>1, <3>2, HearingStays
  <2> QED
    BY <2>2, <2>3
<1>9. OnAir' /\ Made'
  BY DEF RelayInv, OnAir, Made
<1> QED
  BY <1>5, <1>6, <1>7, <1>8, <1>9 DEF RelayInv

LEMMA SwitchesKeeps ==
  ASSUME RelayInv, NEW c \in Watchers, NEW r \in Rooms \cup {Nobody}, Switches(c, r)
  PROVE  RelayInv'
<1> DEFINE from == watcher[c].sub
           there == IF r = Nobody THEN Nobody ELSE onair[r]
           to == IF there # Nobody /\ there # from /\ c \in subs[there] THEN Nobody ELSE there
<1>1. /\ watcher[c].state = "reading" /\ Moves(c, from, to)
      /\ watcher' = [watcher EXCEPT ![c].sub = to]
      /\ heard' = [heard EXCEPT ![c].turn = Nobody] /\ UNCHANGED <<relay, onair, wechat>>
  BY DEF Switches
<1>2. RelayTyped
  BY DEF RelayInv
<1>3. there \in Streams \cup {Nobody} /\ (there # Nobody => relay[there].state \in Holding \cup {"queued"})
  BY <1>2, RelayAssumption DEF RelayTyped, RelayInv, OnAir
<1>4. to \in Streams \cup {Nobody} /\ (to # Nobody => relay[to].state \in Holding \cup {"queued"})
  <2> HIDE DEF there
  <2> QED
    BY <1>3
<1> HIDE DEF to
<1>5. /\ watcher' \in [Watchers -> [state : {"reading", "stopping", "gone"}, sub : Streams \cup {Nobody},
                                    on : Streams \cup {Nobody}, known : BOOLEAN]]
      /\ watcher'[c].state # "stopping" /\ \A d \in Watchers \ {c} : watcher'[d] = watcher[d]
  BY <1>1, <1>2, <1>4 DEF RelayTyped
<1> QED
  BY <1>1, <1>4, <1>5, GoesOverKeeps

LEMMA LeavesKeeps ==
  ASSUME RelayInv, NEW c \in Watchers, Leaves(c)
  PROVE  RelayInv'
<1>1. /\ Moves(c, watcher[c].sub, Nobody)
      /\ watcher' = [watcher EXCEPT ![c].state = "gone", ![c].sub = Nobody]
      /\ heard' = [heard EXCEPT ![c].turn = Nobody] /\ UNCHANGED <<relay, onair, wechat>>
  BY DEF Leaves
<1>2. RelayTyped
  BY DEF RelayInv
<1>3. /\ watcher' \in [Watchers -> [state : {"reading", "stopping", "gone"}, sub : Streams \cup {Nobody},
                                    on : Streams \cup {Nobody}, known : BOOLEAN]]
      /\ watcher'[c].state # "stopping" /\ \A d \in Watchers \ {c} : watcher'[d] = watcher[d]
  <2> DEFINE new == [watcher[c] EXCEPT !.state = "gone", !.sub = Nobody]
  <2>1. /\ new \in [state : {"reading", "stopping", "gone"}, sub : Streams \cup {Nobody},
                    on : Streams \cup {Nobody}, known : BOOLEAN]
        /\ new.state = "gone"
    BY <1>2 DEF RelayTyped
  <2>2. watcher' = [watcher EXCEPT ![c] = new]
    BY <1>1, <1>2 DEF RelayTyped
  <2> HIDE DEF new
  <2> QED
    BY <1>2, <2>1, <2>2 DEF RelayTyped
<1> QED
  BY <1>1, <1>3, GoesOverKeeps

LEMMA StopsKeeps ==
  ASSUME RelayInv, NEW c \in Watchers, NEW t \in Streams, Stops(c, t)
  PROVE  RelayInv'
<1>1. /\ watcher[c].state = "reading" /\ Ongoing(t) /\ relay' = [relay EXCEPT ![t].cancelled = TRUE]
      /\ watcher' = [watcher EXCEPT ![c] = [watcher[c] EXCEPT !.state = "stopping", !.on = t, !.known = c \in subs[t]]]
      /\ UNCHANGED <<subs, inbox, onair, wechat, heard>>
  BY DEF Stops, RelayInv, RelayTyped
<1>2. RelayTyped
  BY DEF RelayInv
<1>3. /\ relay' \in [Streams -> TurnRecord] /\ relay'[t] = [relay[t] EXCEPT !.cancelled = TRUE]
      /\ \A u \in Streams \ {t} : relay'[u] = relay[u]
  <2>1. relay[t] \in TurnRecord
    BY <1>2 DEF RelayTyped
  <2>2. [relay[t] EXCEPT !.cancelled = TRUE] \in TurnRecord
    BY <2>1 DEF TurnRecord
  <2> QED
    BY <1>1, <1>2, <2>2 DEF RelayTyped
<1>4. /\ relay'[t].state = relay[t].state /\ relay'[t].room = relay[t].room /\ relay'[t].by = relay[t].by
      /\ relay'[t].frames = relay[t].frames /\ relay'[t].cancelled
  BY <1>2, <1>3 DEF RelayTyped, TurnRecord
<1>5. /\ watcher' \in [Watchers -> [state : {"reading", "stopping", "gone"}, sub : Streams \cup {Nobody},
                                    on : Streams \cup {Nobody}, known : BOOLEAN]]
      /\ watcher'[c].state = "stopping" /\ watcher'[c].on = t /\ (watcher'[c].known <=> c \in subs[t])
      /\ \A d \in Watchers \ {c} : watcher'[d] = watcher[d]
  <2> DEFINE subscribed == c \in subs[t]
             new == [watcher[c] EXCEPT !.state = "stopping", !.on = t, !.known = subscribed]
  <2>1. subscribed \in BOOLEAN
    OBVIOUS
  <2> HIDE DEF subscribed
  <2>2. /\ new \in [state : {"reading", "stopping", "gone"}, sub : Streams \cup {Nobody},
                    on : Streams \cup {Nobody}, known : BOOLEAN]
        /\ new.state = "stopping" /\ new.on = t /\ new.known = subscribed
    BY <1>2, <2>1 DEF RelayTyped
  <2>3. watcher' = [watcher EXCEPT ![c] = new]
    BY <1>1 DEF subscribed
  <2> HIDE DEF new
  <2>4. /\ watcher' \in [Watchers -> [state : {"reading", "stopping", "gone"}, sub : Streams \cup {Nobody},
                                      on : Streams \cup {Nobody}, known : BOOLEAN]]
        /\ watcher'[c] = new /\ \A d \in Watchers \ {c} : watcher'[d] = watcher[d]
    BY <1>2, <2>2, <2>3 DEF RelayTyped
  <2> QED
    BY <2>2, <2>4 DEF subscribed
<1>6. RelayTyped'
  BY <1>1, <1>2, <1>3, <1>5 DEF RelayTyped
<1>7. ASSUME NEW u \in Streams, NEW d \in Watchers PROVE Served(u, d)' /\ Told(u, d)'
  <2>1. CASE u = t
    <3>1. Served(t, d) /\ Told(t, d)
      BY DEF RelayInv
    <3>2. Served(t, d)'
      BY <1>1, <1>4, <3>1 DEF Served, Ordered, FramesOf
    <3>3. Told(t, d)'
      BY <1>1, <1>4, <3>1 DEF Told, Places
    <3> QED
      BY <2>1, <3>2, <3>3
  <2> QED
    BY <1>1, <1>3, <2>1, InboxStays
<1>8. ASSUME NEW d \in Watchers PROVE Stopping(d)'
  <2>1. Ongoing(t)' /\ relay'[t].state # "unused"
    BY <1>1, <1>4 DEF Ongoing, Ended
  <2>2. CASE d = c
    BY <1>1, <1>4, <1>5, <2>1, <2>2 DEF Stopping
  <2>3. CASE d # c
    <3>1. watcher[d].state = "stopping" => watcher[d].on \in Streams
      BY DEF RelayInv, Stopping
    <3>2. \A u \in Streams : Ongoing(u)' <=> Ongoing(u)
      BY <1>3, <1>4 DEF Ongoing, Ended
    <3> QED
      BY <1>1, <1>3, <1>4, <1>5, <2>3, <3>1, <3>2, StopStays
  <2> QED
    BY <2>2, <2>3
<1>9. ASSUME NEW d \in Watchers PROVE Hears(d)'
  <2>1. heard[d].turn # Nobody => heard[d].turn \in Streams
    BY <1>2 DEF RelayTyped
  <2> QED
    BY <1>1, <1>3, <1>4, <2>1, HearingStays
<1>10. OnAir' /\ Made'
  <2>1. \A q \in Rooms : onair[q] # Nobody => onair[q] \in Streams
    BY <1>2 DEF RelayTyped
  <2>2. OnAir /\ Made
    BY DEF RelayInv
  <2>3. OnAir'
    BY <1>1, <1>3, <1>4, <2>1, <2>2 DEF OnAir
  <2>4. Made'
    BY <1>1, <1>3, <1>4, <2>2 DEF Made
  <2> QED
    BY <2>3, <2>4
<1> QED
  BY <1>6, <1>7, <1>8, <1>9, <1>10 DEF RelayInv

LEMMA ReturnsKeeps ==
  ASSUME RelayInv, NEW c \in Watchers, Returns(c)
  PROVE  RelayInv'
<1> DEFINE t == watcher[c].on
<1>1. /\ watcher[c].state = "stopping" /\ ~Ongoing(t)
      /\ watcher' = [watcher EXCEPT ![c] = [watcher[c] EXCEPT !.state = "reading", !.on = Nobody, !.known = FALSE]]
      /\ heard' = [heard EXCEPT ![c] = [turn |-> t, direct |-> ~watcher[c].known]]
      /\ UNCHANGED <<relay, subs, inbox, onair, wechat>>
  BY DEF Returns, RelayInv, RelayTyped
<1>2. RelayTyped /\ Stopping(c)
  BY DEF RelayInv
<1>3. /\ t \in Streams /\ relay[t].state \in Ended /\ (watcher[c].known <=> c \in subs[t])
      /\ watcher[c].known => \E i \in DOMAIN inbox[t][c] : Stopped(t, c) = {i}
  BY <1>1, <1>2 DEF Stopping, Ongoing, Ended
<1>4. /\ watcher' \in [Watchers -> [state : {"reading", "stopping", "gone"}, sub : Streams \cup {Nobody},
                                    on : Streams \cup {Nobody}, known : BOOLEAN]]
      /\ watcher'[c].state # "stopping" /\ \A d \in Watchers \ {c} : watcher'[d] = watcher[d]
  <2> HIDE DEF t
  <2> DEFINE Sort == [state : {"reading", "stopping", "gone"}, sub : Streams \cup {Nobody},
                      on : Streams \cup {Nobody}, known : BOOLEAN]
             back == [watcher[c] EXCEPT !.state = "reading", !.on = Nobody, !.known = FALSE]
  <2>1. watcher \in [Watchers -> Sort]
    BY <1>2 DEF RelayTyped
  <2>2. back \in Sort /\ back.state # "stopping"
    <3>1. watcher[c] \in Sort
      BY <2>1
    <3> DEFINE w == watcher[c]
    <3> HIDE DEF w
    <3>2. w \in Sort
      BY <3>1 DEF w
    <3>3. LET v == [w EXCEPT !.state = "reading", !.on = Nobody, !.known = FALSE]
          IN  v \in Sort /\ v.state # "stopping"
      BY <3>2
    <3> QED
      BY <3>3 DEF w
  <2> HIDE DEF Sort
  <2>3. watcher' = [watcher EXCEPT ![c] = back]
    BY <1>1
  <2> HIDE DEF back
  <2>4. watcher' \in [Watchers -> Sort] /\ watcher'[c] = back /\ \A d \in Watchers \ {c} : watcher'[d] = watcher[d]
    BY <2>1, <2>2, <2>3
  <2> QED
    BY <2>2, <2>4 DEF Sort
<1>5. /\ heard' \in [Watchers -> [turn : Streams \cup {Nobody}, direct : BOOLEAN]]
      /\ heard'[c].turn = t /\ (heard'[c].direct <=> ~watcher[c].known)
      /\ \A d \in Watchers \ {c} : heard'[d] = heard[d]
  <2> DEFINE direct == ~watcher[c].known
             new == [turn |-> t, direct |-> direct]
  <2>1. direct \in BOOLEAN
    OBVIOUS
  <2> HIDE DEF direct, t
  <2>2. new \in [turn : Streams \cup {Nobody}, direct : BOOLEAN] /\ new.turn = t /\ new.direct = direct
    BY <1>3, <2>1
  <2>3. heard' = [heard EXCEPT ![c] = new]
    BY <1>1 DEF direct
  <2> HIDE DEF new
  <2>4. /\ heard' \in [Watchers -> [turn : Streams \cup {Nobody}, direct : BOOLEAN]] /\ heard'[c] = new
        /\ \A d \in Watchers \ {c} : heard'[d] = heard[d]
    BY <1>2, <2>2, <2>3 DEF RelayTyped
  <2> QED
    BY <2>2, <2>4 DEF direct
<1> HIDE DEF t
<1>6. RelayTyped'
  BY <1>1, <1>2, <1>4, <1>5 DEF RelayTyped
<1>7. \A u \in Streams, d \in Watchers : Served(u, d)' /\ Told(u, d)'
  BY <1>1, InboxStays
<1>8. ASSUME NEW d \in Watchers PROVE Stopping(d)'
  <2>1. watcher'[d] = watcher[d] \/ watcher'[d].state # "stopping"
    BY <1>4
  <2> QED
    BY <1>1, <2>1, StopStays DEF Ongoing, Ended
<1>9. ASSUME NEW d \in Watchers PROVE Hears(d)'
  <2>1. CASE d = c
    BY <1>1, <1>3, <1>5, <2>1 DEF Hears, Stopped
  <2>2. CASE d # c
    BY <1>1, <1>5, <2>2, HearingStays
  <2> QED
    BY <2>1, <2>2
<1>10. OnAir' /\ Made'
  BY <1>1 DEF RelayInv, OnAir, Made
<1> QED
  BY <1>6, <1>7, <1>8, <1>9, <1>10 DEF RelayInv

LEMMA RelayKeeps == RelayInv /\ RelayNext => RelayInv'
<1> SUFFICES ASSUME RelayInv, RelayNext PROVE RelayInv'
  OBVIOUS
<1>1. ASSUME NEW t \in Streams, Enters(t) \/ Prepared(t) \/ Falters(t) PROVE RelayInv'
  BY <1>1, BecomesKeeps DEF Enters, Prepared, Falters
<1>2. ASSUME NEW t \in Streams, Answers(t) PROVE RelayInv'
  <2>1. CASE relay[t].room = wechat
    BY <1>2, <2>1, SendsOnKeeps
  <2>2. CASE relay[t].room # wechat
    <3>1. Finishes(t, <<Final("done")>>, "over") /\ relay[t].state \in Holding /\ ~relay[t].cancelled
      BY <1>2, <2>2 DEF Answers, Holding
    <3> QED
      BY <3>1, FinishesKeeps
  <2> QED
    BY <2>1, <2>2
<1>3. ASSUME NEW t \in Streams, Forwarded(t) PROVE RelayInv'
  <2>1. /\ Finishes(t, <<>>, "over") /\ relay[t].state \in Holding /\ ~relay[t].cancelled
        /\ relay[t].room = wechat
    BY <1>3 DEF Forwarded, Holding, RelayInv, Made
  <2> QED
    BY <2>1, FinishesKeeps
<1>4. ASSUME NEW t \in Streams, Errs(t) PROVE RelayInv'
  <2>1. Finishes(t, <<Final("error")>>, "over") /\ relay[t].state \in Holding /\ ~relay[t].cancelled
    BY <1>4 DEF Errs, Holding
  <2> QED
    BY <2>1, FinishesKeeps
<1>5. ASSUME NEW t \in Streams, EndsStopped(t) PROVE RelayInv'
  <2>1. Finishes(t, <<Final("stopped")>>, "over") /\ relay[t].state \in Holding \cup {"queued"}
    BY <1>5 DEF EndsStopped, Holding
  <2> QED
    BY <2>1, FinishesKeeps
<1>6. ASSUME NEW t \in Streams, Fails(t) PROVE RelayInv'
  <2>1. /\ Finishes(t, <<>>, "failed") /\ relay[t].state \in Holding /\ ~relay[t].cancelled
        /\ relay[t].state = "preparing"
    BY <1>6 DEF Fails, Holding
  <2> QED
    BY <2>1, FinishesKeeps
<1> QED
  BY <1>1, <1>2, <1>3, <1>4, <1>5, <1>6, OpensKeeps, EmitsKeeps, PumpEndsKeeps, StopsKeeps, StartsKeeps,
     ReturnsKeeps, LeavesKeeps, SwitchesKeeps DEF RelayNext

THEOREM RelayInvAlways == RelaySpec => []RelayInv
<1>1. RelayInv /\ [RelayNext]_relayVars => RelayInv'
  BY RelayKeeps, RelayStutters
<1> QED
  BY RelayStarts, <1>1, PTL DEF RelaySpec

(***************************************************************************)
(* Turns, subscriptions, registrations and connections keep their types.   *)
(***************************************************************************)
THEOREM RelayTypeCorrect == RelaySpec => []RelayTypeOK
<1>1. RelayInv => RelayTypeOK
  BY DEF RelayInv, RelayTyped, TurnRecord, RelayTypeOK
<1> QED
  BY <1>1, RelayInvAlways, PTL

(***************************************************************************)
(* websocket.py: every subscriber of a stream gets all frames in order and *)
(* the end of the turn, from whenever it subscribed, and before that how   *)
(* the turn ended, unless it failed while it prepared; and a stop is       *)
(* answered once, by the pump or by the handler and never by both.         *)
(***************************************************************************)
THEOREM RelayKeepsFaithHolds == RelaySpec => []RelayKeepsFaith
<1>1. RelayInv => RelayKeepsFaith
  <2> SUFFICES ASSUME RelayInv PROVE RelayKeepsFaith
    OBVIOUS
  <2>1. FramesArrive
    BY DEF RelayInv, Served, Ordered, FramesOf, FramesArrive, Places
  <2>2. EveryoneIsTold
    BY DEF RelayInv, Told, EveryoneIsTold
  <2>3. ASSUME NEW c \in Watchers, heard[c].turn # Nobody
        PROVE  LET sent == inbox[heard[c].turn][c]
                   told == {i \in DOMAIN sent : sent[i] = Final("stopped")}
               IN  IF heard[c].direct THEN told = {} ELSE \E i \in DOMAIN sent : told = {i}
    <3> DEFINE t == heard[c].turn
    <3>1. t \in Streams /\ Hears(c) /\ Served(t, c)
      BY <2>3 DEF RelayInv, RelayTyped
    <3>2. CASE heard[c].direct
      <4>1. inbox[t][c] = <<>>
        BY <2>3, <3>1, <3>2 DEF Hears, Served
      <4>2. DOMAIN inbox[t][c] = {}
        BY <4>1
      <4> QED
        BY <3>2, <4>2
    <3>3. CASE ~heard[c].direct
      BY <2>3, <3>1, <3>3 DEF Hears, Stopped
    <3> QED
      BY <3>2, <3>3
  <2> QED
    BY <2>1, <2>2, <2>3 DEF RelayKeepsFaith, StopsAreAnswered
<1> QED
  BY <1>1, RelayInvAlways, PTL
==============================================================================
