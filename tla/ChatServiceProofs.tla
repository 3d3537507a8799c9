-------------------------- MODULE ChatServiceProofs --------------------------
(***************************************************************************)
(* Proofs about ChatService, for any number of conversations, connections, *)
(* turns, requests and approvals.                                          *)
(*                                                                         *)
(* OneAtATime is not inductive: that the worker of a conversation heads    *)
(* its lock's queue is.  It takes that nobody sits in a queue twice, nor   *)
(* in another queue than his own, since the release drops whoever heads    *)
(* the queue (Locked).  Shaped is what is known of records at each of      *)
(* their points, Consented ties the broker's entries to the turns that     *)
(* wait for them and to the users' answers.                                *)
(***************************************************************************)
EXTENDS ChatService, FiniteSetTheorems, SequenceTheorems, TLAPS

------------------------------------------------------------------------------
(* Queues *)

\* u is in the queue q.
Sits(u, q) == \E i \in 1..Len(q) : q[i] = u

\* Nobody is in q twice.
Distinct(q) == \A i, j \in 1..Len(q) : q[i] = q[j] => i = j

(* A newcomer goes to the end and heads an empty queue only. *)
LEMMA AppendFacts ==
  ASSUME NEW S, NEW q \in Seq(S), NEW u \in S, Distinct(q), ~Sits(u, q)
  PROVE  /\ Append(q, u) \in Seq(S)
         /\ Distinct(Append(q, u))
         /\ \A v : Sits(v, Append(q, u)) <=> Sits(v, q) \/ v = u
         /\ Append(q, u) # <<>>
         /\ Head(Append(q, u)) = IF q = <<>> THEN u ELSE Head(q)
<1> DEFINE r == Append(q, u)
<1>1. /\ r \in Seq(S) /\ Len(r) = Len(q) + 1 /\ Len(q) \in Nat
      /\ \A i \in 1..Len(q) : r[i] = q[i]
      /\ r[Len(q) + 1] = u
  OBVIOUS
<1>2. Distinct(r)
  BY <1>1 DEF Distinct, Sits
<1>3. ASSUME NEW v PROVE Sits(v, r) <=> Sits(v, q) \/ v = u
  <2>1. Sits(v, r) => Sits(v, q) \/ v = u
    BY <1>1 DEF Sits
  <2>2. Sits(v, q) => Sits(v, r)
    BY <1>1 DEF Sits
  <2>3. Len(q) + 1 \in 1..Len(r)
    BY <1>1
  <2>4. Sits(u, r)
    BY <1>1, <2>3 DEF Sits
  <2> QED
    BY <2>1, <2>2, <2>4
<1>4. r # <<>> /\ Head(r) = IF q = <<>> THEN u ELSE Head(q)
  BY AppendProperties, HeadTailAppend
<1> QED
  BY <1>1, <1>2, <1>3, <1>4

(* A release drops the head, everywhere. *)
LEMMA TailFacts ==
  ASSUME NEW S, NEW q \in Seq(S), q # <<>>, Distinct(q)
  PROVE  /\ Tail(q) \in Seq(S)
         /\ Distinct(Tail(q))
         /\ \A v : Sits(v, Tail(q)) <=> Sits(v, q) /\ v # Head(q)
<1> DEFINE r == Tail(q)
<1>1. /\ r \in Seq(S) /\ Len(r) = Len(q) - 1 /\ Len(q) \in Nat /\ Len(q) >= 1
      /\ \A i \in 1..Len(r) : r[i] = q[i + 1]
      /\ Head(q) = q[1]
  OBVIOUS
<1>2. Distinct(r)
  BY <1>1 DEF Distinct
<1>3. ASSUME NEW v PROVE Sits(v, r) <=> Sits(v, q) /\ v # Head(q)
  <2>1. ASSUME Sits(v, r) PROVE Sits(v, q) /\ v # Head(q)
    <3>1. PICK i \in 1..Len(r) : r[i] = v
      BY <2>1 DEF Sits
    <3>2. i + 1 \in 1..Len(q) /\ q[i + 1] = v /\ i + 1 # 1 /\ 1 \in 1..Len(q)
      BY <1>1, <3>1
    <3> QED
      BY <1>1, <3>2 DEF Sits, Distinct
  <2>2. ASSUME Sits(v, q), v # Head(q) PROVE Sits(v, r)
    <3>1. PICK i \in 1..Len(q) : q[i] = v
      BY <2>2 DEF Sits
    <3>2. i - 1 \in 1..Len(r) /\ r[i - 1] = v
      BY <1>1, <2>2, <3>1
    <3> QED
      BY <3>2 DEF Sits
  <2> QED
    BY <2>1, <2>2
<1> QED
  BY <1>1, <1>2, <1>3

(* A sequence with its k-th element taken out. *)
LEMMA DropIndexed ==
  ASSUME NEW S, NEW q \in Seq(S), Distinct(q), NEW k \in 1..Len(q),
         NEW r \in Seq(S), Len(r) = Len(q) - 1,
         \A i \in 1..Len(r) : r[i] = IF i < k THEN q[i] ELSE q[i + 1]
  PROVE  /\ Distinct(r)
         /\ \A v : Sits(v, r) <=> Sits(v, q) /\ v # q[k]
         /\ k # 1 => r # <<>> /\ Head(r) = Head(q)
<1>1. Len(q) \in Nat /\ k \in Nat /\ 1 <= k /\ k <= Len(q)
  OBVIOUS
<1>2. Len(r) \in Nat /\ Len(r) = Len(q) - 1
  BY <1>1
<1>3. \A i \in 1..Len(r) : r[i] = IF i < k THEN q[i] ELSE q[i + 1]
  OBVIOUS
<1>4. Distinct(r)
  <2> SUFFICES ASSUME NEW i \in 1..Len(r), NEW j \in 1..Len(r), r[i] = r[j] PROVE i = j
    BY DEF Distinct
  <2> DEFINE at(n) == IF n < k THEN n ELSE n + 1
  <2>1. at(i) \in 1..Len(q) /\ at(j) \in 1..Len(q) /\ r[i] = q[at(i)] /\ r[j] = q[at(j)]
    BY <1>1, <1>2, <1>3
  <2>2. at(i) = at(j)
    BY <2>1 DEF Distinct
  <2> QED
    BY <1>1, <2>2
<1>5. ASSUME NEW v PROVE Sits(v, r) <=> Sits(v, q) /\ v # q[k]
  <2>1. ASSUME Sits(v, r) PROVE Sits(v, q) /\ v # q[k]
    <3>1. PICK i \in 1..Len(r) : r[i] = v
      BY <2>1 DEF Sits
    <3>2. PICK j \in 1..Len(q) : q[j] = v /\ j # k
      BY <1>1, <1>2, <1>3, <3>1
    <3> QED
      BY <3>2 DEF Sits, Distinct
  <2>2. ASSUME Sits(v, q), v # q[k] PROVE Sits(v, r)
    <3>1. PICK j \in 1..Len(q) : q[j] = v /\ j # k
      BY <2>2 DEF Sits
    <3>2. CASE j < k
      <4>1. j \in 1..Len(r) /\ r[j] = v
        BY <1>1, <1>2, <1>3, <3>1, <3>2
      <4> QED
        BY <4>1 DEF Sits
    <3>3. CASE ~(j < k)
      <4>1. j - 1 \in 1..Len(r) /\ ~(j - 1 < k) /\ (j - 1) + 1 = j
        BY <1>1, <1>2, <3>1, <3>3
      <4>2. r[j - 1] = v
        BY <1>3, <3>1, <4>1
      <4> QED
        BY <4>1, <4>2 DEF Sits
    <3> QED
      BY <3>2, <3>3
  <2> QED
    BY <2>1, <2>2
<1>6. k # 1 => r # <<>> /\ Head(r) = Head(q)
  <2> HAVE k # 1
  <2>1. 1 \in 1..Len(r) /\ 1 < k
    BY <1>1, <1>2
  <2>2. r[1] = q[1]
    BY <1>3, <2>1
  <2> QED
    BY <1>1, <1>2, <2>1, <2>2
<1> QED
  BY <1>4, <1>5, <1>6

(* A waiter that gives up leaves the others in place. *)
LEMMA DropFacts ==
  ASSUME NEW S, NEW q \in Seq(S), Distinct(q), NEW k \in 1..Len(q)
  PROVE  LET r == SubSeq(q, 1, k - 1) \o SubSeq(q, k + 1, Len(q))
         IN  /\ r \in Seq(S)
             /\ Distinct(r)
             /\ \A v : Sits(v, r) <=> Sits(v, q) /\ v # q[k]
             /\ k # 1 => r # <<>> /\ Head(r) = Head(q)
<1> DEFINE a == SubSeq(q, 1, k - 1)
           b == SubSeq(q, k + 1, Len(q))
           r == a \o b
<1>1. Len(q) \in Nat /\ k \in Nat /\ 1 <= k /\ k <= Len(q)
  OBVIOUS
<1>2. \A i \in 1..Len(q) : q[i] \in S
  OBVIOUS
<1>3. a \in Seq(S) /\ Len(a) = k - 1 /\ \A i \in 1..(k - 1) : a[i] = q[i]
  <2>1. \A i \in 1..(k - 1) : q[i] \in S
    BY <1>1, <1>2
  <2>2. /\ a \in Seq(S)
        /\ Len(a) = IF 1 <= k - 1 THEN (k - 1) - 1 + 1 ELSE 0
        /\ \A i \in 1..((k - 1) - 1 + 1) : a[i] = q[1 + i - 1]
    BY <1>1, <2>1, SubSeqProperties
  <2> QED
    BY <1>1, <2>2
<1>4. b \in Seq(S) /\ Len(b) = Len(q) - k /\ \A i \in 1..(Len(q) - k) : b[i] = q[k + i]
  <2>1. \A i \in (k + 1)..Len(q) : q[i] \in S
    BY <1>1, <1>2
  <2>2. /\ b \in Seq(S)
        /\ Len(b) = IF k + 1 <= Len(q) THEN Len(q) - (k + 1) + 1 ELSE 0
        /\ \A i \in 1..(Len(q) - (k + 1) + 1) : b[i] = q[(k + 1) + i - 1]
    BY <1>1, <2>1, SubSeqProperties
  <2> QED
    BY <1>1, <2>2
<1>5. /\ r \in Seq(S) /\ Len(r) = Len(a) + Len(b)
      /\ \A i \in 1..(Len(a) + Len(b)) :
           r[i] = IF i <= Len(a) THEN a[i] ELSE b[i - Len(a)]
  BY <1>3, <1>4, ConcatProperties
<1> HIDE DEF a, b, r
<1>6. r \in Seq(S) /\ Len(r) = Len(q) - 1
  BY <1>1, <1>3, <1>4, <1>5
<1>7. ASSUME NEW i \in 1..Len(r) PROVE r[i] = IF i < k THEN q[i] ELSE q[i + 1]
  <2>1. i \in Nat /\ i >= 1 /\ i <= Len(q) - 1 /\ i \in 1..(Len(a) + Len(b))
    BY <1>1, <1>3, <1>4, <1>6
  <2>2. r[i] = IF i <= k - 1 THEN a[i] ELSE b[i - (k - 1)]
    BY <1>3, <1>5, <2>1
  <2>3. CASE i < k
    BY <1>1, <1>3, <2>1, <2>2, <2>3
  <2>4. CASE ~(i < k)
    <3>1. i - (k - 1) \in 1..(Len(q) - k) /\ k + (i - (k - 1)) = i + 1
      BY <1>1, <2>1, <2>4
    <3>2. b[i - (k - 1)] = q[k + (i - (k - 1))]
      BY <1>4, <3>1
    <3> QED
      BY <1>1, <2>1, <2>2, <2>4, <3>1, <3>2
  <2> QED
    BY <2>3, <2>4
<1>8. /\ Distinct(r)
      /\ \A v : Sits(v, r) <=> Sits(v, q) /\ v # q[k]
      /\ k # 1 => r # <<>> /\ Head(r) = Head(q)
  BY <1>6, <1>7, DropIndexed
<1> QED
  BY <1>6, <1>8 DEF r, a, b

------------------------------------------------------------------------------
(* The inductive invariant *)

Users == Turns \cup Guests

(* What a record holds at each of its points. *)
TurnsShaped ==
  \A t \in Turns :
    /\ turn[t].pc # "none" => turn[t].cid \in Cids /\ turn[t].by \in Conns
    /\ Inside(t) => conn[turn[t].by].agent \in Cids
    /\ turn[t].pc \in {"announcing", "asking"} => turn[t].asks \in 1..MaxAsks

OthersShaped ==
  /\ \A c \in Conns : conn[c].pc \in {"waiting", "checking"} => conn[c].cid \in Cids
  /\ \A g \in Guests : guest[g].pc # "idle" => guest[g].cid \in Cids

Shaped == TurnsShaped /\ OthersShaped

\* u has asked for the lock of cid and not given it back.
Waits(u, cid) ==
  \/ u \in Turns /\ (turn[u].pc = "queued" \/ Inside(u)) /\ turn[u].cid = cid
  \/ u \in Guests /\ guest[u].pc # "idle" /\ guest[u].cid = cid

(* A queue holds only users that wait for it, each once, and a worker heads his. *)
Locked ==
  \A cid \in Cids :
    /\ Distinct(queue[cid])
    /\ \A u \in Users : Sits(u, queue[cid]) => Waits(u, cid)
    /\ \A u \in Workers(cid) : Lock!Holds(u, cid)

(* An approved entry has an answer behind it. *)
ApprovalsAnswered ==
  \A r \in Requests : pending[r] = "approved" => <<r, "approved">> \in answers

Consented == BusyMeansAsking /\ ApprovalsAnswered /\ ToolsNeedConsent

IInv == TypeOK /\ Shaped /\ Locked /\ Consented /\ StreamsAreLive

------------------------------------------------------------------------------
(* The handlers' steps, by what they change *)

\* Only the handler's own record changes, its agent clone apart.
ConnOnly(c) ==
  /\ \E r \in ConnRecords :
       /\ r.agent = conn[c].agent
       /\ r.pc \in {"waiting", "checking"} => r.cid \in Cids
       /\ conn' = [conn EXCEPT ![c] = r]
  /\ UNCHANGED <<turn, gen, streams, queue, pending, answers, executed, threads, guest, stored>>

LEMMA ParkIsConnOnly ==
  ASSUME TypeOK, NEW c \in Conns, NEW pc \in {"reading", "waiting", "checking"},
         NEW cid \in Cids \cup {None}, NEW on \in Turns \cup {None},
         pc # "reading" => cid \in Cids, Park(c, pc, cid, on)
  PROVE  ConnOnly(c)
<1> DEFINE r == [conn[c] EXCEPT !.pc = pc, !.cid = cid, !.on = on]
<1>1. conn[c] \in ConnRecords
  BY DEF TypeOK
<1>2. r \in ConnRecords /\ r.agent = conn[c].agent /\ r.pc = pc /\ r.cid = cid
  BY <1>1 DEF ConnRecords
<1>3. conn' = [conn EXCEPT ![c] = r]
  BY DEF Park
<1> HIDE DEF r
<1> QED
  BY <1>2, <1>3 DEF ConnOnly, Park

LEMMA HandlerSteps ==
  ASSUME TypeOK, Shaped, NEW c \in Conns,
         Connect(c) \/ Disconnect(c) \/ Receive(c) \/ HandlerResumes(c)
  PROVE  \/ ConnOnly(c)
         \/ \E cid \in Cids : StartTurn(c, cid)
         \/ \E cid \in Cids \cup {None} : Stop(c, cid)
         \/ \E t \in Turns, verdict \in Broker!Verdicts : Respond(c, t, verdict)
<1>1. conn[c] \in ConnRecords
  BY DEF TypeOK
<1>2. CASE Connect(c)
  <2> DEFINE r == [conn[c] EXCEPT !.pc = "reading"]
  <2>1. r \in ConnRecords /\ r.agent = conn[c].agent /\ r.pc = "reading"
    BY <1>1 DEF ConnRecords
  <2>2. conn' = [conn EXCEPT ![c] = r]
    BY <1>2 DEF Connect
  <2> HIDE DEF r
  <2> QED
    BY <1>2, <2>1, <2>2 DEF ConnOnly, Connect
<1>3. CASE Disconnect(c)
  <2> DEFINE r == [conn[c] EXCEPT !.pc = "gone"]
  <2>1. r \in ConnRecords /\ r.agent = conn[c].agent /\ r.pc = "gone"
    BY <1>1 DEF ConnRecords
  <2>2. conn' = [conn EXCEPT ![c] = r]
    BY <1>3 DEF Disconnect
  <2> HIDE DEF r
  <2> QED
    BY <1>3, <2>1, <2>2 DEF ConnOnly, Disconnect
<1>4. ASSUME NEW cid \in Cids, Proceed(c, cid)
      PROVE  ConnOnly(c) \/ StartTurn(c, cid)
  <2>1. CASE StartTurn(c, cid)
    BY <2>1
  <2>2. CASE Park(c, "checking", cid, None)
    BY <2>2, ParkIsConnOnly
  <2> QED
    BY <1>4, <2>1, <2>2 DEF Proceed
<1>5. ASSUME NEW cid \in Cids, Message(c, cid)
      PROVE  ConnOnly(c) \/ StartTurn(c, cid)
  <2> DEFINE on == Predecessor(c, cid)
  <2>1. on \in Turns \cup {None}
    BY <1>1 DEF Predecessor, TypeOK, ConnRecords
  <2>2. Proceed(c, cid) \/ Park(c, "waiting", cid, on)
    BY <1>5 DEF Message
  <2> HIDE DEF on
  <2> QED
    BY <1>4, <2>1, <2>2, ParkIsConnOnly
<1>6. CASE Receive(c)
  BY <1>5, <1>6 DEF Receive
<1>7. CASE Waited(c)
  <2>1. conn[c].cid \in Cids /\ Proceed(c, conn[c].cid)
    BY <1>7 DEF Waited, Shaped, OthersShaped
  <2> QED
    BY <1>4, <2>1
<1>8. CASE Checked(c)
  <2>1. conn[c].cid \in Cids
    BY <1>8 DEF Checked, Shaped, OthersShaped
  <2>2. StartTurn(c, conn[c].cid) \/ Park(c, "reading", None, None)
    BY <1>8 DEF Checked
  <2> QED
    BY <2>1, <2>2, ParkIsConnOnly
<1>9. CASE Stopped(c)
  <2>1. Park(c, "reading", None, None)
    BY <1>9 DEF Stopped
  <2> QED
    BY <2>1, ParkIsConnOnly
<1> QED
  BY <1>2, <1>3, <1>6, <1>7, <1>8, <1>9 DEF HandlerResumes

------------------------------------------------------------------------------
(* Types and shapes *)

(* The broadcast's crowd is a number. *)
LEMMA ClientsNat == Cardinality(Clients) \in Nat
<1>1. IsFiniteSet(Conns)
  BY ChatAssumption DEF ChatAssumption
<1>2. IsFiniteSet(Clients)
  BY <1>1, FS_Subset DEF Clients
<1> QED
  BY <1>2, FS_CardinalityType

(* A lock that is released is held: its queue is not empty. *)
LEMMA ReleaseTyped ==
  ASSUME TypeOK, NEW cid \in Cids, queue[cid] # <<>>, Lock!Release(cid)
  PROVE  queue' \in Lock!Queues
<1>1. Tail(queue[cid]) \in Seq(Turns \cup Guests)
  BY HeadTailProperties DEF TypeOK, Lock!Queues
<1> QED
  BY <1>1 DEF TypeOK, Lock!Queues, Lock!Release

LEMMA JoinTyped ==
  ASSUME TypeOK, NEW cid \in Cids, NEW u \in Users, Lock!Join(u, cid)
  PROVE  queue' \in Lock!Queues
<1>1. Append(queue[cid], u) \in Seq(Turns \cup Guests)
  BY AppendProperties DEF TypeOK, Lock!Queues, Users
<1> QED
  BY <1>1 DEF TypeOK, Lock!Queues, Lock!Join

LEMMA AbandonTyped ==
  ASSUME TypeOK, Locked, NEW cid \in Cids, NEW u \in Users, Lock!Abandon(u, cid)
  PROVE  queue' \in Lock!Queues
<1> DEFINE q == queue[cid]
<1>1. PICK i \in 1..Len(q) :
        queue' = [queue EXCEPT ![cid] = SubSeq(q, 1, i - 1) \o SubSeq(q, i + 1, Len(q))]
  BY DEF Lock!Abandon
<1>2. q \in Seq(Turns \cup Guests) /\ Distinct(q)
  BY DEF TypeOK, Lock!Queues, Locked
<1>3. SubSeq(q, 1, i - 1) \o SubSeq(q, i + 1, Len(q)) \in Seq(Turns \cup Guests)
  BY <1>2, DropFacts
<1> HIDE DEF q
<1> QED
  BY <1>1, <1>3 DEF TypeOK, Lock!Queues

(* A worker's lock has a queue. *)
LEMMA InsideHolds ==
  ASSUME Shaped, Locked, NEW t \in Turns, Inside(t)
  PROVE  turn[t].cid \in Cids /\ turn[t].by \in Conns /\ Lock!Holds(t, turn[t].cid)
<1>1. turn[t].cid \in Cids /\ turn[t].by \in Conns
  BY DEF Shaped, TurnsShaped, Inside
<1> QED
  BY <1>1 DEF Locked, Workers

(* What a step of a turn does to its record keeps the record's type. *)
LEMMA TurnUpdate ==
  ASSUME TypeOK, Shaped, NEW t \in Turns, NEW r \in TurnRecords,
         turn' = [turn EXCEPT ![t] = r], UNCHANGED guest,
         \A c \in Conns : conn'[c] = [conn[c] EXCEPT !.agent = conn'[c].agent],
         \A c \in Conns : conn[c].agent \in Cids => conn'[c].agent \in Cids,
         r.pc # "none" => r.cid \in Cids /\ r.by \in Conns,
         r.pc \in {"starting", "running", "announcing", "asking", "saving"} =>
           conn'[r.by].agent \in Cids,
         r.pc \in {"announcing", "asking"} => r.asks \in 1..MaxAsks
  PROVE  turn' \in [Turns -> TurnRecords] /\ Shaped'
<1>1. turn' \in [Turns -> TurnRecords]
  BY DEF TypeOK
<1>2. \A u \in Turns : turn'[u] = IF u = t THEN r ELSE turn[u]
  BY DEF TypeOK
<1>3. TurnsShaped'
  <2> SUFFICES ASSUME NEW u \in Turns
               PROVE  (/\ turn[u].pc # "none" => turn[u].cid \in Cids /\ turn[u].by \in Conns
                       /\ Inside(u) => conn[turn[u].by].agent \in Cids
                       /\ turn[u].pc \in {"announcing", "asking"} => turn[u].asks \in 1..MaxAsks)'
    BY DEF TurnsShaped
  <2>1. CASE u = t
    BY <1>2, <2>1 DEF Inside
  <2>2. CASE u # t
    BY <1>2, <2>2 DEF Inside, Shaped, TurnsShaped
  <2> QED
    BY <2>1, <2>2
<1>4. ASSUME NEW c \in Conns
      PROVE  conn'[c].pc = conn[c].pc /\ conn'[c].cid = conn[c].cid
  <2> DEFINE new == conn'[c]
  <2>1. conn[c] \in ConnRecords /\ new = [conn[c] EXCEPT !.agent = new.agent]
    BY DEF TypeOK
  <2> HIDE DEF new
  <2>2. new.pc = conn[c].pc /\ new.cid = conn[c].cid
    BY <2>1 DEF ConnRecords
  <2> QED
    BY <2>2 DEF new
<1>5. OthersShaped'
  BY <1>4 DEF Shaped, OthersShaped
<1> QED
  BY <1>1, <1>3, <1>5 DEF Shaped

(* Every step of a turn keeps the types and the shapes. *)
LEMMA TurnTyped ==
  ASSUME TypeOK, Shaped, Locked, NEW t \in Turns, TurnStep(t), UNCHANGED <<guest, stored>>
  PROVE  TypeOK' /\ Shaped'
<1>1. turn[t] \in TurnRecords /\ MaxAsks \in Nat
  BY ChatAssumption DEF ChatAssumption, TypeOK
<1>2. Inside(t) => /\ turn[t].cid \in Cids /\ turn[t].by \in Conns
                   /\ queue[turn[t].cid] # <<>> /\ AgentOn(t) \in Cids
  BY InsideHolds DEF Lock!Holds, Shaped, TurnsShaped, AgentOn
<1>3. turn[t].pc # "none" => turn[t].cid \in Cids /\ turn[t].by \in Conns
  BY DEF Shaped, TurnsShaped
<1>4. turn[t].pc \in {"announcing", "asking"} => turn[t].asks \in 1..MaxAsks /\ Card(t) \in Requests
  BY DEF Shaped, TurnsShaped, Card, Requests
<1>5. CASE TurnRuns(t)
  <2> DEFINE r == [turn[t] EXCEPT !.pc = "running", !.thread = AgentOn(t)]
  <2>1. /\ r \in TurnRecords /\ r.cid \in Cids /\ r.by \in Conns /\ r.by = turn[t].by
        /\ r.pc \in {"starting", "running", "announcing", "asking", "saving"} => conn'[r.by].agent \in Cids
        /\ r.pc \in {"announcing", "asking"} => r.asks \in 1..MaxAsks
    BY <1>1, <1>2, <1>3, <1>4, <1>5
       DEF TurnRuns, TurnRecords, TurnPoints, Inside, AgentOn, TypeOK
  <2>2. turn' = [turn EXCEPT ![t] = r] /\ UNCHANGED conn
    BY <1>5 DEF TurnRuns
  <2>3. queue' \in Lock!Queues
    BY <1>5 DEF TurnRuns, TypeOK
  <2>4. /\ gen' \in [Cids -> Turns \cup {None}]
        /\ streams' \in [Cids -> Turns \cup {None}]
        /\ pending' \in [Requests -> Broker!Entries]
        /\ executed' \subseteq Requests /\ threads' \subseteq Cids /\ answers' = answers
    BY <1>2, <1>3, <1>4, <1>5 DEF TurnRuns, TypeOK, Inside
  <2> HIDE DEF r
  <2>5. \A c \in Conns : conn'[c] = [conn[c] EXCEPT !.agent = conn'[c].agent]
    BY <2>2 DEF TypeOK, ConnRecords
  <2>6. turn' \in [Turns -> TurnRecords] /\ Shaped'
    BY <2>1, <2>2, <2>5, TurnUpdate
  <2> QED
    BY <2>2, <2>3, <2>4, <2>6 DEF TypeOK
<1>6. CASE TurnAsks(t)
  <2> DEFINE r == [turn[t] EXCEPT !.pc = "announcing", !.asks = @ + 1, !.crowd = Cardinality(Clients)]
  <2>1. /\ r \in TurnRecords /\ r.cid \in Cids /\ r.by \in Conns /\ r.by = turn[t].by
        /\ r.pc \in {"starting", "running", "announcing", "asking", "saving"} => conn'[r.by].agent \in Cids
        /\ r.pc \in {"announcing", "asking"} => r.asks \in 1..MaxAsks
    BY <1>1, <1>2, <1>3, <1>4, <1>6, ClientsNat
       DEF TurnAsks, TurnRecords, TurnPoints, Inside, AgentOn, TypeOK
  <2>2. turn' = [turn EXCEPT ![t] = r] /\ UNCHANGED conn
    BY <1>6 DEF TurnAsks
  <2>3. queue' \in Lock!Queues
    BY <1>6 DEF TurnAsks, TypeOK
  <2>4. /\ gen' \in [Cids -> Turns \cup {None}]
        /\ streams' \in [Cids -> Turns \cup {None}]
        /\ pending' \in [Requests -> Broker!Entries]
        /\ executed' \subseteq Requests /\ threads' \subseteq Cids /\ answers' = answers
    BY <1>2, <1>3, <1>4, <1>6 DEF TurnAsks, TypeOK, Inside
  <2> HIDE DEF r
  <2>5. \A c \in Conns : conn'[c] = [conn[c] EXCEPT !.agent = conn'[c].agent]
    BY <2>2 DEF TypeOK, ConnRecords
  <2>6. turn' \in [Turns -> TurnRecords] /\ Shaped'
    BY <2>1, <2>2, <2>5, TurnUpdate
  <2> QED
    BY <2>2, <2>3, <2>4, <2>6 DEF TypeOK
<1>7. CASE TurnAnnounced(t)
  <2> DEFINE r == [turn[t] EXCEPT !.pc = "asking"]
  <2>1. /\ r \in TurnRecords /\ r.cid \in Cids /\ r.by \in Conns /\ r.by = turn[t].by
        /\ r.pc \in {"starting", "running", "announcing", "asking", "saving"} => conn'[r.by].agent \in Cids
        /\ r.pc \in {"announcing", "asking"} => r.asks \in 1..MaxAsks
    BY <1>1, <1>2, <1>3, <1>4, <1>7
       DEF TurnAnnounced, TurnRecords, TurnPoints, Inside, AgentOn, TypeOK
  <2>2. turn' = [turn EXCEPT ![t] = r] /\ UNCHANGED conn
    BY <1>7 DEF TurnAnnounced
  <2>3. queue' \in Lock!Queues
    BY <1>7 DEF TurnAnnounced, TypeOK
  <2>4. /\ gen' \in [Cids -> Turns \cup {None}]
        /\ streams' \in [Cids -> Turns \cup {None}]
        /\ pending' \in [Requests -> Broker!Entries]
        /\ executed' \subseteq Requests /\ threads' \subseteq Cids /\ answers' = answers
    BY <1>2, <1>3, <1>4, <1>7 DEF TurnAnnounced, TypeOK, Inside, Broker!Register, Broker!Entries
  <2> HIDE DEF r
  <2>5. \A c \in Conns : conn'[c] = [conn[c] EXCEPT !.agent = conn'[c].agent]
    BY <2>2 DEF TypeOK, ConnRecords
  <2>6. turn' \in [Turns -> TurnRecords] /\ Shaped'
    BY <2>1, <2>2, <2>5, TurnUpdate
  <2> QED
    BY <2>2, <2>3, <2>4, <2>6 DEF TypeOK
<1>8. CASE TurnResumes(t)
  <2> DEFINE r == [turn[t] EXCEPT !.pc = "running"]
  <2>1. /\ r \in TurnRecords /\ r.cid \in Cids /\ r.by \in Conns /\ r.by = turn[t].by
        /\ r.pc \in {"starting", "running", "announcing", "asking", "saving"} => conn'[r.by].agent \in Cids
        /\ r.pc \in {"announcing", "asking"} => r.asks \in 1..MaxAsks
    BY <1>1, <1>2, <1>3, <1>4, <1>8
       DEF TurnResumes, TurnRecords, TurnPoints, Inside, AgentOn, TypeOK
  <2>2. turn' = [turn EXCEPT ![t] = r] /\ UNCHANGED conn
    BY <1>8 DEF TurnResumes
  <2>3. queue' \in Lock!Queues
    BY <1>8 DEF TurnResumes, TypeOK
  <2>4. /\ gen' \in [Cids -> Turns \cup {None}]
        /\ streams' \in [Cids -> Turns \cup {None}]
        /\ pending' \in [Requests -> Broker!Entries]
        /\ executed' \subseteq Requests /\ threads' \subseteq Cids /\ answers' = answers
    BY <1>2, <1>3, <1>4, <1>8 DEF TurnResumes, TypeOK, Inside, Broker!Discard, Broker!Entries
  <2> HIDE DEF r
  <2>5. \A c \in Conns : conn'[c] = [conn[c] EXCEPT !.agent = conn'[c].agent]
    BY <2>2 DEF TypeOK, ConnRecords
  <2>6. turn' \in [Turns -> TurnRecords] /\ Shaped'
    BY <2>1, <2>2, <2>5, TurnUpdate
  <2> QED
    BY <2>2, <2>3, <2>4, <2>6 DEF TypeOK
<1>9. CASE TurnReturns(t)
  <2> DEFINE r == [turn[t] EXCEPT !.pc = "done", !.reply = AgentOn(t)]
  <2>1. /\ r \in TurnRecords /\ r.cid \in Cids /\ r.by \in Conns /\ r.by = turn[t].by
        /\ r.pc \in {"starting", "running", "announcing", "asking", "saving"} => conn'[r.by].agent \in Cids
        /\ r.pc \in {"announcing", "asking"} => r.asks \in 1..MaxAsks
    BY <1>1, <1>2, <1>3, <1>4, <1>9
       DEF TurnReturns, TurnRecords, TurnPoints, Inside, AgentOn, TypeOK
  <2>2. turn' = [turn EXCEPT ![t] = r] /\ UNCHANGED conn
    BY <1>9 DEF TurnReturns
  <2>3. queue' \in Lock!Queues
    BY <1>2, <1>9, ReleaseTyped DEF TurnReturns, Inside
  <2>4. /\ gen' \in [Cids -> Turns \cup {None}]
        /\ streams' \in [Cids -> Turns \cup {None}]
        /\ pending' \in [Requests -> Broker!Entries]
        /\ executed' \subseteq Requests /\ threads' \subseteq Cids /\ answers' = answers
    BY <1>2, <1>3, <1>4, <1>9 DEF TurnReturns, TypeOK, Inside, Unregister
  <2> HIDE DEF r
  <2>5. \A c \in Conns : conn'[c] = [conn[c] EXCEPT !.agent = conn'[c].agent]
    BY <2>2 DEF TypeOK, ConnRecords
  <2>6. turn' \in [Turns -> TurnRecords] /\ Shaped'
    BY <2>1, <2>2, <2>5, TurnUpdate
  <2> QED
    BY <2>2, <2>3, <2>4, <2>6 DEF TypeOK
<1>10. CASE TurnFails(t)
  <2> DEFINE r == [turn[t] EXCEPT !.pc = "saving", !.reply = IF turn[t].thread = None THEN @ ELSE AgentOn(t)]
  <2>1. /\ r \in TurnRecords /\ r.cid \in Cids /\ r.by \in Conns /\ r.by = turn[t].by
        /\ r.pc \in {"starting", "running", "announcing", "asking", "saving"} => conn'[r.by].agent \in Cids
        /\ r.pc \in {"announcing", "asking"} => r.asks \in 1..MaxAsks
    BY <1>1, <1>2, <1>3, <1>4, <1>10
       DEF TurnFails, TurnRecords, TurnPoints, Inside, AgentOn, TypeOK, Interrupt
  <2>2. turn' = [turn EXCEPT ![t] = r] /\ UNCHANGED conn
    BY <1>10 DEF TurnFails, Interrupt
  <2>3. queue' \in Lock!Queues
    BY <1>10 DEF TurnFails, TypeOK
  <2>4. /\ gen' \in [Cids -> Turns \cup {None}]
        /\ streams' \in [Cids -> Turns \cup {None}]
        /\ pending' \in [Requests -> Broker!Entries]
        /\ executed' \subseteq Requests /\ threads' \subseteq Cids /\ answers' = answers
    BY <1>2, <1>3, <1>4, <1>10 DEF TurnFails, TypeOK, Inside, Interrupt
  <2> HIDE DEF r
  <2>5. \A c \in Conns : conn'[c] = [conn[c] EXCEPT !.agent = conn'[c].agent]
    BY <2>2 DEF TypeOK, ConnRecords
  <2>6. turn' \in [Turns -> TurnRecords] /\ Shaped'
    BY <2>1, <2>2, <2>5, TurnUpdate
  <2> QED
    BY <2>2, <2>3, <2>4, <2>6 DEF TypeOK
<1>11. CASE TurnIsCancelled(t)
  <2> DEFINE r == [turn[t] EXCEPT !.pc = "saving", !.reply = IF turn[t].thread = None THEN @ ELSE AgentOn(t)]
  <2>1. /\ r \in TurnRecords /\ r.cid \in Cids /\ r.by \in Conns /\ r.by = turn[t].by
        /\ r.pc \in {"starting", "running", "announcing", "asking", "saving"} => conn'[r.by].agent \in Cids
        /\ r.pc \in {"announcing", "asking"} => r.asks \in 1..MaxAsks
    BY <1>1, <1>2, <1>3, <1>4, <1>11
       DEF TurnIsCancelled, TurnRecords, TurnPoints, Inside, AgentOn, TypeOK, Interrupt
  <2>2. turn' = [turn EXCEPT ![t] = r] /\ UNCHANGED conn
    BY <1>11 DEF TurnIsCancelled, Interrupt
  <2>3. queue' \in Lock!Queues
    BY <1>11 DEF TurnIsCancelled, TypeOK
  <2>4. /\ gen' \in [Cids -> Turns \cup {None}]
        /\ streams' \in [Cids -> Turns \cup {None}]
        /\ pending' \in [Requests -> Broker!Entries]
        /\ executed' \subseteq Requests /\ threads' \subseteq Cids /\ answers' = answers
    BY <1>2, <1>3, <1>4, <1>11 DEF TurnIsCancelled, TypeOK, Inside, Broker!Discard, Broker!Entries, Interrupt
  <2> HIDE DEF r
  <2>5. \A c \in Conns : conn'[c] = [conn[c] EXCEPT !.agent = conn'[c].agent]
    BY <2>2 DEF TypeOK, ConnRecords
  <2>6. turn' \in [Turns -> TurnRecords] /\ Shaped'
    BY <2>1, <2>2, <2>5, TurnUpdate
  <2> QED
    BY <2>2, <2>3, <2>4, <2>6 DEF TypeOK
<1>12. CASE TurnEnds(t)
  <2> DEFINE r == [turn[t] EXCEPT !.pc = "done"]
  <2>1. /\ r \in TurnRecords /\ r.cid \in Cids /\ r.by \in Conns /\ r.by = turn[t].by
        /\ r.pc \in {"starting", "running", "announcing", "asking", "saving"} => conn'[r.by].agent \in Cids
        /\ r.pc \in {"announcing", "asking"} => r.asks \in 1..MaxAsks
    BY <1>1, <1>2, <1>3, <1>4, <1>12
       DEF TurnEnds, TurnRecords, TurnPoints, Inside, AgentOn, TypeOK
  <2>2. turn' = [turn EXCEPT ![t] = r] /\ UNCHANGED conn
    BY <1>12 DEF TurnEnds
  <2>3. queue' \in Lock!Queues
    BY <1>2, <1>12, ReleaseTyped DEF TurnEnds, Inside
  <2>4. /\ gen' \in [Cids -> Turns \cup {None}]
        /\ streams' \in [Cids -> Turns \cup {None}]
        /\ pending' \in [Requests -> Broker!Entries]
        /\ executed' \subseteq Requests /\ threads' \subseteq Cids /\ answers' = answers
    BY <1>2, <1>3, <1>4, <1>12 DEF TurnEnds, TypeOK, Inside, Unregister
  <2> HIDE DEF r
  <2>5. \A c \in Conns : conn'[c] = [conn[c] EXCEPT !.agent = conn'[c].agent]
    BY <2>2 DEF TypeOK, ConnRecords
  <2>6. turn' \in [Turns -> TurnRecords] /\ Shaped'
    BY <2>1, <2>2, <2>5, TurnUpdate
  <2> QED
    BY <2>2, <2>3, <2>4, <2>6 DEF TypeOK
<1>13. CASE TurnGivesUp(t)
  <2> DEFINE r == [turn[t] EXCEPT !.pc = "done"]
  <2>1. /\ r \in TurnRecords /\ r.cid \in Cids /\ r.by \in Conns /\ r.by = turn[t].by
        /\ r.pc \in {"starting", "running", "announcing", "asking", "saving"} => conn'[r.by].agent \in Cids
        /\ r.pc \in {"announcing", "asking"} => r.asks \in 1..MaxAsks
    BY <1>1, <1>2, <1>3, <1>4, <1>13
       DEF TurnGivesUp, TurnRecords, TurnPoints, Inside, AgentOn, TypeOK
  <2>2. turn' = [turn EXCEPT ![t] = r] /\ UNCHANGED conn
    BY <1>13 DEF TurnGivesUp
  <2>3. queue' \in Lock!Queues
    BY <1>3, <1>13, AbandonTyped DEF TurnGivesUp, Users
  <2>4. /\ gen' \in [Cids -> Turns \cup {None}]
        /\ streams' \in [Cids -> Turns \cup {None}]
        /\ pending' \in [Requests -> Broker!Entries]
        /\ executed' \subseteq Requests /\ threads' \subseteq Cids /\ answers' = answers
    BY <1>2, <1>3, <1>4, <1>13 DEF TurnGivesUp, TypeOK, Inside, Unregister
  <2> HIDE DEF r
  <2>5. \A c \in Conns : conn'[c] = [conn[c] EXCEPT !.agent = conn'[c].agent]
    BY <2>2 DEF TypeOK, ConnRecords
  <2>6. turn' \in [Turns -> TurnRecords] /\ Shaped'
    BY <2>1, <2>2, <2>5, TurnUpdate
  <2> QED
    BY <2>2, <2>3, <2>4, <2>6 DEF TypeOK
<1>14. CASE TurnNeverRuns(t)
  <2> DEFINE r == [turn[t] EXCEPT !.pc = "done"]
  <2>1. /\ r \in TurnRecords /\ r.cid \in Cids /\ r.by \in Conns /\ r.by = turn[t].by
        /\ r.pc \in {"starting", "running", "announcing", "asking", "saving"} => conn'[r.by].agent \in Cids
        /\ r.pc \in {"announcing", "asking"} => r.asks \in 1..MaxAsks
    BY <1>1, <1>2, <1>3, <1>4, <1>14
       DEF TurnNeverRuns, TurnRecords, TurnPoints, Inside, AgentOn, TypeOK
  <2>2. turn' = [turn EXCEPT ![t] = r] /\ UNCHANGED conn
    BY <1>14 DEF TurnNeverRuns
  <2>3. queue' \in Lock!Queues
    BY <1>14 DEF TurnNeverRuns, TypeOK
  <2>4. /\ gen' \in [Cids -> Turns \cup {None}]
        /\ streams' \in [Cids -> Turns \cup {None}]
        /\ pending' \in [Requests -> Broker!Entries]
        /\ executed' \subseteq Requests /\ threads' \subseteq Cids /\ answers' = answers
    BY <1>2, <1>3, <1>4, <1>14 DEF TurnNeverRuns, TypeOK, Inside
  <2> HIDE DEF r
  <2>5. \A c \in Conns : conn'[c] = [conn[c] EXCEPT !.agent = conn'[c].agent]
    BY <2>2 DEF TypeOK, ConnRecords
  <2>6. turn' \in [Turns -> TurnRecords] /\ Shaped'
    BY <2>1, <2>2, <2>5, TurnUpdate
  <2> QED
    BY <2>2, <2>3, <2>4, <2>6 DEF TypeOK
<1>15. ASSUME turn[t].pc \in {"created", "queued"}, Enter(t)
       PROVE  /\ turn' \in [Turns -> TurnRecords] /\ Shaped'
              /\ conn' \in [Conns -> ConnRecords]
  <2> DEFINE r == [turn[t] EXCEPT !.pc = "starting"]
  <2>1. /\ turn[t].by \in Conns /\ turn[t].cid \in Cids
        /\ turn' = [turn EXCEPT ![t] = r]
        /\ conn' = [conn EXCEPT ![turn[t].by].agent = turn[t].cid]
    BY <1>3, <1>15 DEF Enter
  <2>2. r \in TurnRecords /\ r.cid \in Cids /\ r.by = turn[t].by /\ r.pc = "starting"
    BY <1>1, <2>1 DEF TurnRecords, TurnPoints
  <2>3. conn' \in [Conns -> ConnRecords] /\ conn'[turn[t].by].agent \in Cids
    BY <2>1 DEF TypeOK, ConnRecords
  <2>4. \A c \in Conns : conn'[c] = [conn[c] EXCEPT !.agent = conn'[c].agent]
    BY <2>1 DEF TypeOK, ConnRecords
  <2>5. \A c \in Conns : conn[c].agent \in Cids => conn'[c].agent \in Cids
    BY <2>1 DEF TypeOK, ConnRecords
  <2> HIDE DEF r
  <2>6. turn' \in [Turns -> TurnRecords] /\ Shaped'
    BY <2>1, <2>2, <2>3, <2>4, <2>5, TurnUpdate
  <2> QED
    BY <2>3, <2>6
<1>16. CASE TurnLocks(t)
  BY <1>15, <1>16 DEF TurnLocks, TypeOK
<1>17. CASE TurnStarts(t)
  <2>1. turn[t].pc = "created" /\ turn[t].cid \in Cids
    BY <1>3, <1>17 DEF TurnStarts
  <2>2. queue' \in Lock!Queues
    BY <1>17, <2>1, JoinTyped DEF TurnStarts, Users
  <2>3. /\ turn' \in [Turns -> TurnRecords] /\ Shaped'
        /\ conn' \in [Conns -> ConnRecords]
    <3>1. CASE Enter(t)
      BY <1>15, <2>1, <3>1
    <3>2. CASE turn' = [turn EXCEPT ![t].pc = "queued"] /\ UNCHANGED conn
      <4> DEFINE r == [turn[t] EXCEPT !.pc = "queued"]
      <4>1. r \in TurnRecords /\ r.cid \in Cids /\ r.by \in Conns /\ r.pc = "queued"
        BY <1>1, <1>3, <2>1 DEF TurnRecords, TurnPoints
      <4>2. turn' = [turn EXCEPT ![t] = r]
        BY <3>2
      <4>3. \A c \in Conns : conn'[c] = [conn[c] EXCEPT !.agent = conn'[c].agent]
        BY <3>2 DEF TypeOK, ConnRecords
      <4> HIDE DEF r
      <4>4. turn' \in [Turns -> TurnRecords] /\ Shaped'
        BY <3>2, <4>1, <4>2, <4>3, TurnUpdate
      <4> QED
        BY <3>2, <4>4 DEF TypeOK
    <3> QED
      BY <1>17, <3>1, <3>2 DEF TurnStarts
  <2> QED
    BY <1>17, <2>2, <2>3 DEF TurnStarts, TypeOK
<1> QED
  BY <1>5, <1>6, <1>7, <1>8, <1>9, <1>10, <1>11, <1>12, <1>13, <1>14, <1>16, <1>17 DEF TurnStep

(* A handler's own step keeps the types and the shapes. *)
LEMMA ConnOnlyTyped ==
  ASSUME TypeOK, Shaped, NEW c \in Conns, ConnOnly(c)
  PROVE  TypeOK' /\ Shaped'
<1>1. PICK r \in ConnRecords :
        /\ r.agent = conn[c].agent
        /\ r.pc \in {"waiting", "checking"} => r.cid \in Cids
        /\ conn' = [conn EXCEPT ![c] = r]
  BY DEF ConnOnly
<1>2. TypeOK'
  BY <1>1 DEF ConnOnly, TypeOK
<1>3. \A d \in Conns : conn'[d].agent = conn[d].agent
  BY <1>1 DEF TypeOK
<1>4. TurnsShaped'
  BY <1>3 DEF ConnOnly, Shaped, TurnsShaped, Inside
<1>5. OthersShaped'
  BY <1>1 DEF ConnOnly, Shaped, OthersShaped, TypeOK
<1> QED
  BY <1>2, <1>4, <1>5 DEF Shaped

LEMMA StartTyped ==
  ASSUME TypeOK, Shaped, NEW c \in Conns, NEW cid \in Cids, StartTurn(c, cid)
  PROVE  TypeOK' /\ Shaped'
<1>1. PICK t \in Unused :
        /\ turn' = [turn EXCEPT ![t] = TurnAt("created", cid, c)]
        /\ gen' = [gen EXCEPT ![cid] = t]
        /\ conn' = [conn EXCEPT ![c] = [@ EXCEPT !.pc = "reading", !.cid = None, !.on = None,
                                                 !.last = t]]
  BY DEF StartTurn
<1>2. t \in Turns /\ turn[t].pc = "none"
  BY <1>1 DEF Unused
<1>3. TurnAt("created", cid, c) \in TurnRecords /\ conn[c] \in ConnRecords
  BY ChatAssumption DEF ChatAssumption, TurnAt, TurnRecords, TurnPoints, TypeOK
<1> DEFINE r == [conn[c] EXCEPT !.pc = "reading", !.cid = None, !.on = None, !.last = t]
<1>4. r \in ConnRecords /\ r.agent = conn[c].agent /\ r.pc = "reading"
  BY <1>2, <1>3 DEF ConnRecords
<1>5. conn' = [conn EXCEPT ![c] = r]
  BY <1>1
<1> HIDE DEF r
<1>6. TypeOK'
  BY <1>1, <1>2, <1>3, <1>4, <1>5 DEF StartTurn, TypeOK
<1>7. \A d \in Conns : conn'[d].agent = conn[d].agent
  BY <1>4, <1>5 DEF TypeOK
<1>8. TurnsShaped'
  <2> SUFFICES ASSUME NEW u \in Turns
               PROVE  (/\ turn[u].pc # "none" => turn[u].cid \in Cids /\ turn[u].by \in Conns
                       /\ Inside(u) => conn[turn[u].by].agent \in Cids
                       /\ turn[u].pc \in {"announcing", "asking"} => turn[u].asks \in 1..MaxAsks)'
    BY DEF TurnsShaped
  <2>1. CASE u = t
    BY <1>1, <1>2, <2>1 DEF TypeOK, TurnAt, Inside
  <2>2. CASE u # t
    BY <1>1, <1>2, <1>7, <2>2 DEF TypeOK, Shaped, TurnsShaped, Inside
  <2> QED
    BY <2>1, <2>2
<1>9. OthersShaped'
  BY <1>4, <1>5 DEF StartTurn, Shaped, OthersShaped, TypeOK
<1> QED
  BY <1>6, <1>8, <1>9 DEF Shaped

LEMMA StopTyped ==
  ASSUME TypeOK, Shaped, NEW c \in Conns, NEW cid \in Cids \cup {None}, Stop(c, cid)
  PROVE  /\ TypeOK' /\ Shaped'
         /\ \A u \in Turns : turn'[u] = [turn[u] EXCEPT !.cancelled = turn'[u].cancelled]
<1> DEFINE t == StopTarget(c, cid)
<1>1. /\ Live(t)
      /\ turn' = [turn EXCEPT ![t].cancelled = TRUE]
      /\ conn' = [conn EXCEPT ![c] = [@ EXCEPT !.pc = "stopping", !.cid = cid, !.on = t]]
  BY DEF Stop
<1>2. t \in Turns
  BY <1>1 DEF TypeOK, StopTarget, ConnRecords, Live
<1> HIDE DEF t
<1>3. conn[c] \in ConnRecords
  BY DEF TypeOK
<1> DEFINE r == [conn[c] EXCEPT !.pc = "stopping", !.cid = cid, !.on = t]
<1>4. r \in ConnRecords /\ r.agent = conn[c].agent /\ r.pc = "stopping"
  BY <1>2, <1>3 DEF ConnRecords
<1>5. conn' = [conn EXCEPT ![c] = r]
  BY <1>1
<1> HIDE DEF r
<1>6. TypeOK'
  <2> DEFINE new == [turn[t] EXCEPT !.cancelled = TRUE]
  <2>1. new \in TurnRecords
    BY ZenonT(60), <1>2 DEF TypeOK, TurnRecords
  <2>2. turn' = [turn EXCEPT ![t] = new]
    BY <1>1
  <2> HIDE DEF new
  <2>3. turn' \in [Turns -> TurnRecords] /\ conn' \in [Conns -> ConnRecords]
    BY <1>2, <1>4, <1>5, <2>1, <2>2 DEF TypeOK
  <2> QED
    BY <2>3 DEF Stop, TypeOK
<1>7. \A d \in Conns : conn'[d].agent = conn[d].agent
  BY <1>4, <1>5 DEF TypeOK
<1>8. \A u \in Turns : turn'[u] = [turn[u] EXCEPT !.cancelled = turn'[u].cancelled]
  BY <1>1, <1>2 DEF TypeOK, TurnRecords
<1>9. \A u \in Turns : /\ turn'[u].pc = turn[u].pc /\ turn'[u].cid = turn[u].cid
                       /\ turn'[u].by = turn[u].by /\ turn'[u].asks = turn[u].asks
  BY <1>1, <1>2 DEF TypeOK, TurnRecords
<1>10. TurnsShaped'
  BY <1>7, <1>9 DEF Shaped, TurnsShaped, Inside
<1>11. OthersShaped'
  BY <1>4, <1>5 DEF Stop, Shaped, OthersShaped, TypeOK
<1> QED
  BY <1>6, <1>8, <1>10, <1>11 DEF Shaped

LEMMA RespondTyped ==
  ASSUME TypeOK, Shaped, NEW c \in Conns, NEW t \in Turns, NEW verdict \in Broker!Verdicts,
         Respond(c, t, verdict)
  PROVE  TypeOK' /\ Shaped' /\ Card(t) \in Requests
<1>1. Card(t) \in Requests
  BY DEF Respond, Shaped, TurnsShaped, Card, Requests
<1>2. pending' \in [Requests -> Broker!Entries]
  BY <1>1 DEF Respond, TypeOK, Broker!Resolve, Broker!Entries
<1>3. TypeOK'
  BY <1>1, <1>2 DEF Respond, TypeOK
<1>4. Shaped'
  BY DEF Respond, Shaped, TurnsShaped, OthersShaped, Inside
<1> QED
  BY <1>1, <1>3, <1>4

LEMMA TimerTyped ==
  ASSUME TypeOK, Shaped, NEW r \in Requests, RequestTimesOut(r), UNCHANGED <<guest, stored>>
  PROVE  TypeOK' /\ Shaped'
<1>1. pending' \in [Requests -> Broker!Entries]
  BY DEF RequestTimesOut, TypeOK, Broker!TimesOut, Broker!Entries, Broker!Verdicts
<1>2. TypeOK'
  BY <1>1 DEF RequestTimesOut, TypeOK
<1>3. Shaped'
  BY DEF RequestTimesOut, Shaped, TurnsShaped, OthersShaped, Inside
<1> QED
  BY <1>2, <1>3

(* The other entries. *)
Arrives(g) == \E kind \in {"run", "clear", "delete"}, cid \in Cids : GuestArrives(g, kind, cid)

LEMMA GuestTyped ==
  ASSUME TypeOK, Shaped, Locked, NEW g \in Guests, Arrives(g) \/ GuestStep(g)
  PROVE  TypeOK' /\ Shaped'
<1>1. guest[g] \in GuestRecords /\ NoGuest \in GuestRecords
  BY DEF TypeOK, NoGuest, GuestRecords
<1>2. guest[g].pc # "idle" => guest[g].cid \in Cids
  BY DEF Shaped, OthersShaped
<1>3. ASSUME NEW r \in GuestRecords, guest' = [guest EXCEPT ![g] = r],
             r.pc # "idle" => r.cid \in Cids, UNCHANGED <<turn, conn>>
      PROVE  guest' \in [Guests -> GuestRecords] /\ Shaped'
  <2>1. guest' \in [Guests -> GuestRecords]
    BY <1>3 DEF TypeOK
  <2>2. TurnsShaped'
    BY <1>3 DEF Shaped, TurnsShaped, Inside
  <2>3. OthersShaped'
    BY <1>3 DEF TypeOK, Shaped, OthersShaped
  <2> QED
    BY <2>1, <2>2, <2>3 DEF Shaped
<1>4. ASSUME NEW kind \in {"run", "clear", "delete"}, NEW cid \in Cids, GuestArrives(g, kind, cid)
      PROVE  TypeOK' /\ Shaped'
  <2> DEFINE r == [pc |-> "queued", kind |-> kind, cid |-> cid]
  <2>1. r \in GuestRecords /\ r.cid \in Cids
    BY DEF GuestRecords
  <2>2. guest' = [guest EXCEPT ![g] = r] /\ UNCHANGED <<turn, conn>>
    BY <1>4 DEF GuestArrives
  <2> HIDE DEF r
  <2>3. queue' \in Lock!Queues
    BY <1>4, JoinTyped DEF GuestArrives, Users
  <2> QED
    BY <1>3, <1>4, <2>1, <2>2, <2>3 DEF GuestArrives, TypeOK
<1>5. CASE GuestEnters(g)
  <2> DEFINE r == [guest[g] EXCEPT !.pc = "inside"]
  <2>1. r \in GuestRecords /\ r.cid \in Cids
    BY <1>1, <1>2, <1>5 DEF GuestEnters, GuestRecords
  <2>2. guest' = [guest EXCEPT ![g] = r] /\ UNCHANGED <<turn, conn>>
    BY <1>5 DEF GuestEnters
  <2> HIDE DEF r
  <2> QED
    BY <1>2, <1>3, <1>5, <2>1, <2>2 DEF GuestEnters, TypeOK
<1>6. CASE GuestRefused(g)
  <2>1. guest' = [guest EXCEPT ![g] = NoGuest] /\ UNCHANGED <<turn, conn>> /\ NoGuest.pc = "idle"
    BY <1>6 DEF GuestRefused, NoGuest
  <2>2. queue' \in Lock!Queues
    BY <1>2, <1>6, ReleaseTyped DEF GuestRefused, Lock!Holds
  <2> QED
    BY <1>1, <1>3, <1>6, <2>1, <2>2 DEF GuestRefused, TypeOK
<1>7. CASE GuestLeaves(g)
  <2>1. guest' = [guest EXCEPT ![g] = NoGuest] /\ UNCHANGED <<turn, conn>> /\ NoGuest.pc = "idle"
    BY <1>7 DEF GuestLeaves, NoGuest
  <2>2. guest[g].cid \in Cids /\ queue[guest[g].cid] # <<>>
    BY <1>2, <1>7 DEF GuestLeaves, Locked, Workers, Lock!Holds
  <2>3. queue' \in Lock!Queues
    BY <1>7, <2>2, ReleaseTyped DEF GuestLeaves
  <2> QED
    BY <1>1, <1>3, <1>7, <2>1, <2>3 DEF GuestLeaves, TypeOK
<1> QED
  BY <1>4, <1>5, <1>6, <1>7 DEF Arrives, GuestStep

------------------------------------------------------------------------------
(* The locks *)

\* Nobody but m begins to work or ceases to wait.
OnlyMoves(m) ==
  \A u \in Users \ {m}, cid \in Cids :
    /\ Waits(u, cid) => Waits(u, cid)'
    /\ u \in Workers(cid)' => u \in Workers(cid)

(* Without a change of the queues: nobody ceases to wait, new workers hold. *)
LEMMA LockStays ==
  ASSUME Locked, UNCHANGED queue,
         \A u \in Users, cid \in Cids : Waits(u, cid) => Waits(u, cid)',
         \A cid \in Cids : \A u \in Workers(cid)' : Lock!Holds(u, cid)
  PROVE  Locked'
BY DEF Locked, Lock!Holds, Sits

(* Somebody joins a queue, and works at once if it was empty. *)
LEMMA LockJoined ==
  ASSUME TypeOK, Locked, NEW d \in Cids, NEW m \in Users, Lock!Join(m, d), OnlyMoves(m),
         \A cid \in Cids : ~Waits(m, cid), Waits(m, d)',
         \A cid \in Cids : m \in Workers(cid)' => cid = d /\ queue[d] = <<>>
  PROVE  Locked'
<1> DEFINE q == queue[d]
<1>1. q \in Seq(Users) /\ Distinct(q) /\ ~Sits(m, q)
  BY DEF TypeOK, Lock!Queues, Users, Locked
<1>2. \A cid \in Cids : queue'[cid] = IF cid = d THEN Append(q, m) ELSE queue[cid]
  BY DEF TypeOK, Lock!Queues, Lock!Join
<1> HIDE DEF q
<1>3. /\ Distinct(Append(q, m))
      /\ \A v : Sits(v, Append(q, m)) <=> Sits(v, q) \/ v = m
      /\ Append(q, m) # <<>>
      /\ Head(Append(q, m)) = IF q = <<>> THEN m ELSE Head(q)
  BY <1>1, AppendFacts
<1> SUFFICES ASSUME NEW cid \in Cids
             PROVE  /\ Distinct(queue'[cid])
                    /\ \A u \in Users : Sits(u, queue'[cid]) => Waits(u, cid)'
                    /\ \A u \in Workers(cid)' : Lock!Holds(u, cid)'
  BY DEF Locked, Sits, Distinct
<1>4. Distinct(queue'[cid])
  BY <1>2, <1>3 DEF Locked
<1>5. ASSUME NEW u \in Users, Sits(u, queue'[cid]) PROVE Waits(u, cid)'
  <2>1. CASE u = m
    BY <1>1, <1>2, <1>5, <2>1 DEF Locked
  <2>2. CASE u # m
    <3>1. Sits(u, queue[cid])
      BY <1>2, <1>3, <1>5, <2>2 DEF q
    <3> QED
      BY <2>2, <3>1 DEF Locked, OnlyMoves
  <2> QED
    BY <2>1, <2>2
<1>6. ASSUME NEW u \in Workers(cid)' PROVE queue'[cid] # <<>> /\ Head(queue'[cid]) = u
  <2>1. CASE u = m
    BY <1>2, <1>3, <2>1, <1>6 DEF q
  <2>2. CASE u # m
    <3>1. u \in Users
      BY DEF Workers, Users
    <3>2. queue[cid] # <<>> /\ Head(queue[cid]) = u
      BY <2>2, <3>1 DEF OnlyMoves, Locked, Lock!Holds
    <3> QED
      BY <1>2, <1>3, <3>2 DEF q
  <2> QED
    BY <2>1, <2>2
<1> QED
  BY <1>4, <1>5, <1>6 DEF Lock!Holds

(* Somebody leaves a queue in which he sits, and works no more. *)
LEMMA LockLeft ==
  ASSUME Locked, NEW d \in Cids, NEW m \in Users, OnlyMoves(m),
         \A cid \in Cids \ {d} : queue'[cid] = queue[cid] /\ ~Waits(m, cid),
         Distinct(queue'[d]),
         \A u \in Users : Sits(u, queue'[d]) => Sits(u, queue[d]) /\ u # m,
         \A u \in Users \ {m} :
           queue[d] # <<>> /\ Head(queue[d]) = u => queue'[d] # <<>> /\ Head(queue'[d]) = u,
         \A cid \in Cids : m \notin Workers(cid)'
  PROVE  Locked'
<1> SUFFICES ASSUME NEW cid \in Cids
             PROVE  /\ Distinct(queue'[cid])
                    /\ \A u \in Users : Sits(u, queue'[cid]) => Waits(u, cid)'
                    /\ \A u \in Workers(cid)' : Lock!Holds(u, cid)'
  BY DEF Locked, Sits, Distinct
<1>1. Distinct(queue'[cid])
  BY DEF Locked
<1>2. ASSUME NEW u \in Users, Sits(u, queue'[cid]) PROVE Waits(u, cid)'
  <2>1. Sits(u, queue[cid]) /\ Waits(u, cid)
    BY <1>2 DEF Locked
  <2>2. u # m
    BY <1>2, <2>1
  <2> QED
    BY <2>1, <2>2 DEF OnlyMoves
<1>3. ASSUME NEW u \in Workers(cid)' PROVE queue'[cid] # <<>> /\ Head(queue'[cid]) = u
  <2>1. u \in Users /\ u # m
    BY DEF Workers, Users
  <2>2. queue[cid] # <<>> /\ Head(queue[cid]) = u
    BY <2>1 DEF OnlyMoves, Locked, Lock!Holds
  <2> QED
    BY <2>1, <2>2
<1> QED
  BY <1>1, <1>2, <1>3 DEF Lock!Holds

(* The holder releases. *)
LEMMA LockReleased ==
  ASSUME TypeOK, Locked, NEW d \in Cids, NEW m \in Users, Lock!Holds(m, d), Lock!Release(d),
         OnlyMoves(m), \A cid \in Cids \ {d} : ~Waits(m, cid),
         \A cid \in Cids : m \notin Workers(cid)'
  PROVE  Locked'
<1> DEFINE q == queue[d]
<1>1. q \in Seq(Users) /\ Distinct(q) /\ q # <<>> /\ Head(q) = m
  BY DEF TypeOK, Lock!Queues, Users, Locked, Lock!Holds
<1>2. \A cid \in Cids : queue'[cid] = IF cid = d THEN Tail(q) ELSE queue[cid]
  BY DEF TypeOK, Lock!Queues, Lock!Release
<1> HIDE DEF q
<1>3. Distinct(Tail(q)) /\ \A v : Sits(v, Tail(q)) <=> Sits(v, q) /\ v # Head(q)
  BY <1>1, TailFacts
<1> QED
  BY <1>1, <1>2, <1>3, LockLeft DEF q

(* A waiter gives up. *)
LEMMA LockAbandoned ==
  ASSUME TypeOK, Locked, NEW d \in Cids, NEW m \in Users, Lock!Abandon(m, d),
         OnlyMoves(m), \A cid \in Cids \ {d} : ~Waits(m, cid),
         \A cid \in Cids : m \notin Workers(cid)'
  PROVE  Locked'
<1> DEFINE q == queue[d]
<1>1. PICK k \in 1..Len(q) :
        /\ q[k] = m
        /\ queue' = [queue EXCEPT ![d] = SubSeq(q, 1, k - 1) \o SubSeq(q, k + 1, Len(q))]
  BY DEF Lock!Abandon
<1> DEFINE r == SubSeq(q, 1, k - 1) \o SubSeq(q, k + 1, Len(q))
<1>2. q \in Seq(Users) /\ Distinct(q)
  BY DEF TypeOK, Lock!Queues, Users, Locked
<1>3. /\ Distinct(r) /\ \A v : Sits(v, r) <=> Sits(v, q) /\ v # q[k]
      /\ k # 1 => r # <<>> /\ Head(r) = Head(q)
  BY <1>2, DropFacts
<1>4. \A cid \in Cids : queue'[cid] = IF cid = d THEN r ELSE queue[cid]
  BY <1>1 DEF TypeOK, Lock!Queues
<1>5. k = 1 => Head(q) = m
  BY <1>1, <1>2
<1>6. q = queue[d]
  OBVIOUS
<1> HIDE DEF q, r
<1> QED
  BY <1>1, <1>3, <1>4, <1>5, <1>6, LockLeft

(* Waiting and working, read off the record of a turn or of a request. *)
LEMMA TurnWaits ==
  ASSUME NEW t \in Turns, NEW cid
  PROVE  /\ Waits(t, cid) <=> /\ turn[t].pc \in {"queued", "starting", "running", "announcing", "asking", "saving"}
                             /\ turn[t].cid = cid
         /\ t \in Workers(cid) <=> Inside(t) /\ turn[t].cid = cid
<1>1. t \notin Guests
  BY ChatAssumption DEF ChatAssumption
<1> QED
  BY <1>1 DEF Waits, Workers, Inside

LEMMA GuestWaits ==
  ASSUME NEW g \in Guests, NEW cid
  PROVE  /\ Waits(g, cid) <=> guest[g].pc # "idle" /\ guest[g].cid = cid
         /\ g \in Workers(cid) <=> guest[g].pc = "inside" /\ guest[g].cid = cid
<1>1. g \notin Turns
  BY ChatAssumption DEF ChatAssumption
<1> QED
  BY <1>1 DEF Waits, Workers

LEMMA TurnFrame ==
  ASSUME TypeOK, NEW t \in Turns, NEW r, turn' = [turn EXCEPT ![t] = r], UNCHANGED guest
  PROVE  /\ turn'[t] = r
         /\ OnlyMoves(t)
         /\ \A cid \in Cids :
              /\ Waits(t, cid)' <=> r.pc \in {"queued", "starting", "running", "announcing", "asking", "saving"} /\ r.cid = cid
              /\ t \in Workers(cid)' <=> r.pc \in {"starting", "running", "announcing", "asking", "saving"} /\ r.cid = cid
<1>1. turn'[t] = r /\ \A u \in Turns \ {t} : turn'[u] = turn[u]
  BY DEF TypeOK
<1>2. OnlyMoves(t)
  <2> SUFFICES ASSUME NEW u \in Users \ {t}, NEW cid \in Cids
               PROVE  /\ Waits(u, cid) => Waits(u, cid)'
                      /\ u \in Workers(cid)' => u \in Workers(cid)
    BY DEF OnlyMoves
  <2>1. CASE u \in Turns
    <3>1. turn'[u] = turn[u] /\ u \notin Guests
      BY <1>1, <2>1, ChatAssumption DEF ChatAssumption
    <3> QED
      BY <2>1, <3>1 DEF Waits, Workers, Inside
  <2>2. CASE u \in Guests
    <3>1. u \notin Turns
      BY <2>2, ChatAssumption DEF ChatAssumption
    <3> QED
      BY <2>2, <3>1 DEF Waits, Workers
  <2> QED
    BY <2>1, <2>2 DEF Users
<1>3. t \notin Guests
  BY ChatAssumption DEF ChatAssumption
<1>4. ASSUME NEW cid \in Cids
      PROVE  /\ Waits(t, cid)' <=> r.pc \in {"queued", "starting", "running", "announcing", "asking", "saving"} /\ r.cid = cid
             /\ t \in Workers(cid)' <=> r.pc \in {"starting", "running", "announcing", "asking", "saving"} /\ r.cid = cid
  BY <1>1, <1>3 DEF Waits, Workers, Inside
<1> QED
  BY <1>1, <1>2, <1>4

LEMMA GuestFrame ==
  ASSUME TypeOK, NEW g \in Guests, NEW r, guest' = [guest EXCEPT ![g] = r], UNCHANGED turn
  PROVE  /\ OnlyMoves(g)
         /\ \A cid \in Cids :
              /\ Waits(g, cid)' <=> r.pc # "idle" /\ r.cid = cid
              /\ g \in Workers(cid)' <=> r.pc = "inside" /\ r.cid = cid
<1>1. guest'[g] = r /\ \A u \in Guests \ {g} : guest'[u] = guest[u]
  BY DEF TypeOK
<1>2. OnlyMoves(g)
  <2> SUFFICES ASSUME NEW u \in Users \ {g}, NEW cid \in Cids
               PROVE  /\ Waits(u, cid) => Waits(u, cid)'
                      /\ u \in Workers(cid)' => u \in Workers(cid)
    BY DEF OnlyMoves
  <2>1. CASE u \in Turns
    <3>1. u \notin Guests
      BY <2>1, ChatAssumption DEF ChatAssumption
    <3> QED
      BY <2>1, <3>1 DEF Waits, Workers, Inside
  <2>2. CASE u \in Guests
    <3>1. guest'[u] = guest[u] /\ u \notin Turns
      BY <1>1, <2>2, ChatAssumption DEF ChatAssumption
    <3> QED
      BY <2>2, <3>1 DEF Waits, Workers
  <2> QED
    BY <2>1, <2>2 DEF Users
<1>3. g \notin Turns
  BY ChatAssumption DEF ChatAssumption
<1>4. ASSUME NEW cid \in Cids
      PROVE  /\ Waits(g, cid)' <=> r.pc # "idle" /\ r.cid = cid
             /\ g \in Workers(cid)' <=> r.pc = "inside" /\ r.cid = cid
  BY <1>1, <1>3 DEF Waits, Workers
<1> QED
  BY <1>2, <1>4

(* A turn that leaves the queues alone keeps its place, or enters as the holder. *)
LEMMA TurnStays ==
  ASSUME TypeOK, Locked, NEW t \in Turns, NEW r, turn' = [turn EXCEPT ![t] = r],
         UNCHANGED <<guest, queue>>, r.cid = turn[t].cid,
         turn[t].pc \in {"queued", "starting", "running", "announcing", "asking", "saving"} =>
           r.pc \in {"queued", "starting", "running", "announcing", "asking", "saving"},
         r.pc \in {"starting", "running", "announcing", "asking", "saving"} /\ turn[t].cid \in Cids =>
           Lock!Holds(t, turn[t].cid)
  PROVE  Locked'
<1>1. /\ OnlyMoves(t)
      /\ \A cid \in Cids :
           /\ Waits(t, cid)' <=> r.pc \in {"queued", "starting", "running", "announcing", "asking", "saving"} /\ r.cid = cid
           /\ t \in Workers(cid)' <=> r.pc \in {"starting", "running", "announcing", "asking", "saving"} /\ r.cid = cid
  BY TurnFrame
<1>2. ASSUME NEW u \in Users, NEW cid \in Cids, Waits(u, cid) PROVE Waits(u, cid)'
  <2>1. CASE u = t
    BY <1>1, <1>2, <2>1, TurnWaits
  <2>2. CASE u # t
    BY <1>1, <1>2, <2>2 DEF OnlyMoves
  <2> QED
    BY <2>1, <2>2
<1>3. ASSUME NEW cid \in Cids, NEW u \in Workers(cid)' PROVE Lock!Holds(u, cid)
  <2>1. CASE u = t
    BY <1>1, <1>3, <2>1
  <2>2. CASE u # t
    <3>1. u \in Users
      BY DEF Workers, Users
    <3> QED
      BY <1>1, <2>2, <3>1 DEF OnlyMoves, Locked
  <2> QED
    BY <2>1, <2>2
<1> QED
  BY <1>2, <1>3, LockStays

(* Every step of a turn keeps the locks' invariant. *)
LEMMA TurnLocked ==
  ASSUME TypeOK, Shaped, Locked, NEW t \in Turns, TurnStep(t), UNCHANGED <<guest, stored>>
  PROVE  Locked'
<1>1. Inside(t) => turn[t].cid \in Cids /\ Lock!Holds(t, turn[t].cid)
  BY InsideHolds
<1>2. turn[t].pc # "none" => turn[t].cid \in Cids
  BY DEF Shaped, TurnsShaped
<1>3. turn[t] \in TurnRecords /\ t \in Users
  BY DEF TypeOK, Users
<1>4. CASE TurnLocks(t)
  <2> DEFINE r == [turn[t] EXCEPT !.pc = "starting"]
  <2>1. turn' = [turn EXCEPT ![t] = r] /\ UNCHANGED queue
    BY <1>4 DEF TurnLocks, Enter
  <2>2. /\ r.cid = turn[t].cid
        /\ turn[t].pc \in {"queued", "starting", "running", "announcing", "asking", "saving"} =>
             r.pc \in {"queued", "starting", "running", "announcing", "asking", "saving"}
        /\ r.pc \in {"starting", "running", "announcing", "asking", "saving"} => Lock!Holds(t, turn[t].cid)
    BY <1>1, <1>3, <1>4 DEF TurnLocks, Inside, TurnRecords, Enter
  <2> HIDE DEF r
  <2> QED
    BY <2>1, <2>2, TurnStays
<1>5. CASE TurnRuns(t)
  <2> DEFINE r == [turn[t] EXCEPT !.pc = "running", !.thread = AgentOn(t)]
  <2>1. turn' = [turn EXCEPT ![t] = r] /\ UNCHANGED queue
    BY <1>5 DEF TurnRuns
  <2>2. /\ r.cid = turn[t].cid
        /\ turn[t].pc \in {"queued", "starting", "running", "announcing", "asking", "saving"} =>
             r.pc \in {"queued", "starting", "running", "announcing", "asking", "saving"}
        /\ r.pc \in {"starting", "running", "announcing", "asking", "saving"} => Lock!Holds(t, turn[t].cid)
    BY <1>1, <1>3, <1>5 DEF TurnRuns, Inside, TurnRecords
  <2> HIDE DEF r
  <2> QED
    BY <2>1, <2>2, TurnStays
<1>6. CASE TurnAsks(t)
  <2> DEFINE r == [turn[t] EXCEPT !.pc = "announcing", !.asks = @ + 1, !.crowd = Cardinality(Clients)]
  <2>1. turn' = [turn EXCEPT ![t] = r] /\ UNCHANGED queue
    BY <1>6 DEF TurnAsks
  <2>2. /\ r.cid = turn[t].cid
        /\ turn[t].pc \in {"queued", "starting", "running", "announcing", "asking", "saving"} =>
             r.pc \in {"queued", "starting", "running", "announcing", "asking", "saving"}
        /\ r.pc \in {"starting", "running", "announcing", "asking", "saving"} => Lock!Holds(t, turn[t].cid)
    BY <1>1, <1>3, <1>6 DEF TurnAsks, Inside, TurnRecords
  <2> HIDE DEF r
  <2> QED
    BY <2>1, <2>2, TurnStays
<1>7. CASE TurnAnnounced(t)
  <2> DEFINE r == [turn[t] EXCEPT !.pc = "asking"]
  <2>1. turn' = [turn EXCEPT ![t] = r] /\ UNCHANGED queue
    BY <1>7 DEF TurnAnnounced
  <2>2. /\ r.cid = turn[t].cid
        /\ turn[t].pc \in {"queued", "starting", "running", "announcing", "asking", "saving"} =>
             r.pc \in {"queued", "starting", "running", "announcing", "asking", "saving"}
        /\ r.pc \in {"starting", "running", "announcing", "asking", "saving"} => Lock!Holds(t, turn[t].cid)
    BY <1>1, <1>3, <1>7 DEF TurnAnnounced, Inside, TurnRecords
  <2> HIDE DEF r
  <2> QED
    BY <2>1, <2>2, TurnStays
<1>8. CASE TurnResumes(t)
  <2> DEFINE r == [turn[t] EXCEPT !.pc = "running"]
  <2>1. turn' = [turn EXCEPT ![t] = r] /\ UNCHANGED queue
    BY <1>8 DEF TurnResumes
  <2>2. /\ r.cid = turn[t].cid
        /\ turn[t].pc \in {"queued", "starting", "running", "announcing", "asking", "saving"} =>
             r.pc \in {"queued", "starting", "running", "announcing", "asking", "saving"}
        /\ r.pc \in {"starting", "running", "announcing", "asking", "saving"} => Lock!Holds(t, turn[t].cid)
    BY <1>1, <1>3, <1>8 DEF TurnResumes, Inside, TurnRecords
  <2> HIDE DEF r
  <2> QED
    BY <2>1, <2>2, TurnStays
<1>9. CASE TurnFails(t)
  <2> DEFINE r == [turn[t] EXCEPT !.pc = "saving", !.reply = IF turn[t].thread = None THEN @ ELSE AgentOn(t)]
  <2>1. turn' = [turn EXCEPT ![t] = r] /\ UNCHANGED queue
    BY <1>9 DEF TurnFails, Interrupt
  <2>2. /\ r.cid = turn[t].cid
        /\ turn[t].pc \in {"queued", "starting", "running", "announcing", "asking", "saving"} =>
             r.pc \in {"queued", "starting", "running", "announcing", "asking", "saving"}
        /\ r.pc \in {"starting", "running", "announcing", "asking", "saving"} => Lock!Holds(t, turn[t].cid)
    BY <1>1, <1>3, <1>9 DEF TurnFails, Inside, TurnRecords, Interrupt
  <2> HIDE DEF r
  <2> QED
    BY <2>1, <2>2, TurnStays
<1>10. CASE TurnIsCancelled(t)
  <2> DEFINE r == [turn[t] EXCEPT !.pc = "saving", !.reply = IF turn[t].thread = None THEN @ ELSE AgentOn(t)]
  <2>1. turn' = [turn EXCEPT ![t] = r] /\ UNCHANGED queue
    BY <1>10 DEF TurnIsCancelled, Interrupt
  <2>2. /\ r.cid = turn[t].cid
        /\ turn[t].pc \in {"queued", "starting", "running", "announcing", "asking", "saving"} =>
             r.pc \in {"queued", "starting", "running", "announcing", "asking", "saving"}
        /\ r.pc \in {"starting", "running", "announcing", "asking", "saving"} => Lock!Holds(t, turn[t].cid)
    BY <1>1, <1>3, <1>10 DEF TurnIsCancelled, Inside, TurnRecords, Interrupt
  <2> HIDE DEF r
  <2> QED
    BY <2>1, <2>2, TurnStays
<1>11. CASE TurnNeverRuns(t)
  <2> DEFINE r == [turn[t] EXCEPT !.pc = "done"]
  <2>1. turn' = [turn EXCEPT ![t] = r] /\ UNCHANGED queue
    BY <1>11 DEF TurnNeverRuns
  <2>2. /\ r.cid = turn[t].cid
        /\ turn[t].pc \in {"queued", "starting", "running", "announcing", "asking", "saving"} =>
             r.pc \in {"queued", "starting", "running", "announcing", "asking", "saving"}
        /\ r.pc \in {"starting", "running", "announcing", "asking", "saving"} => Lock!Holds(t, turn[t].cid)
    BY <1>1, <1>3, <1>11 DEF TurnNeverRuns, Inside, TurnRecords
  <2> HIDE DEF r
  <2> QED
    BY <2>1, <2>2, TurnStays
<1>12. CASE TurnReturns(t)
  <2> DEFINE r == [turn[t] EXCEPT !.pc = "done", !.reply = AgentOn(t)]
  <2>1. turn' = [turn EXCEPT ![t] = r] /\ Lock!Release(turn[t].cid)
    BY <1>12 DEF TurnReturns
  <2>2. turn[t].cid \in Cids /\ r.pc = "done" /\ Lock!Holds(t, turn[t].cid)
    BY <1>1, <1>2, <1>3, <1>12 DEF TurnReturns, Inside, TurnRecords
  <2> HIDE DEF r
  <2>3. OnlyMoves(t) /\ \A cid \in Cids : t \notin Workers(cid)'
    BY <2>1, <2>2, TurnFrame
  <2>4. \A cid \in Cids \ {turn[t].cid} : ~Waits(t, cid)
    BY TurnWaits
  <2> QED
    BY <1>3, <2>1, <2>2, <2>3, <2>4, LockReleased
<1>13. CASE TurnEnds(t)
  <2> DEFINE r == [turn[t] EXCEPT !.pc = "done"]
  <2>1. turn' = [turn EXCEPT ![t] = r] /\ Lock!Release(turn[t].cid)
    BY <1>13 DEF TurnEnds
  <2>2. turn[t].cid \in Cids /\ r.pc = "done" /\ Lock!Holds(t, turn[t].cid)
    BY <1>1, <1>2, <1>3, <1>13 DEF TurnEnds, Inside, TurnRecords
  <2> HIDE DEF r
  <2>3. OnlyMoves(t) /\ \A cid \in Cids : t \notin Workers(cid)'
    BY <2>1, <2>2, TurnFrame
  <2>4. \A cid \in Cids \ {turn[t].cid} : ~Waits(t, cid)
    BY TurnWaits
  <2> QED
    BY <1>3, <2>1, <2>2, <2>3, <2>4, LockReleased
<1>14. CASE TurnGivesUp(t)
  <2> DEFINE r == [turn[t] EXCEPT !.pc = "done"]
  <2>1. turn' = [turn EXCEPT ![t] = r] /\ Lock!Abandon(t, turn[t].cid)
    BY <1>14 DEF TurnGivesUp
  <2>2. turn[t].cid \in Cids /\ r.pc = "done"
    BY <1>1, <1>2, <1>3, <1>14 DEF TurnGivesUp, Inside, TurnRecords
  <2> HIDE DEF r
  <2>3. OnlyMoves(t) /\ \A cid \in Cids : t \notin Workers(cid)'
    BY <2>1, <2>2, TurnFrame
  <2>4. \A cid \in Cids \ {turn[t].cid} : ~Waits(t, cid)
    BY TurnWaits
  <2> QED
    BY <1>3, <2>1, <2>2, <2>3, <2>4, LockAbandoned
<1>15. CASE TurnStarts(t)
  <2>1. PICK pc \in {"starting", "queued"} :
          /\ turn' = [turn EXCEPT ![t] = [turn[t] EXCEPT !.pc = pc]]
          /\ pc = "starting" => Lock!IsFree(turn[t].cid)
    BY <1>15 DEF TurnStarts, Enter
  <2> DEFINE r == [turn[t] EXCEPT !.pc = pc]
  <2>2. /\ turn[t].pc = "created" /\ turn[t].cid \in Cids /\ Lock!Join(t, turn[t].cid)
        /\ r.pc = pc /\ r.cid = turn[t].cid
    BY <1>2, <1>3, <1>15 DEF TurnStarts, TurnRecords
  <2>3. turn' = [turn EXCEPT ![t] = r]
    BY <2>1
  <2> HIDE DEF r
  <2>4. PICK d \in Cids : d = turn[t].cid
    BY <2>2
  <2>5. /\ OnlyMoves(t) /\ Waits(t, d)'
        /\ \A cid \in Cids : t \in Workers(cid)' => cid = d /\ queue[d] = <<>>
    BY ZenonT(60), <2>1, <2>2, <2>3, <2>4, TurnFrame DEF Lock!IsFree
  <2>6. \A cid \in Cids : ~Waits(t, cid)
    BY <2>2, TurnWaits
  <2> QED
    BY <1>3, <2>2, <2>4, <2>5, <2>6, LockJoined
<1> QED
  BY <1>4, <1>5, <1>6, <1>7, <1>8, <1>9, <1>10, <1>11, <1>12, <1>13, <1>14, <1>15 DEF TurnStep

LEMMA GuestLocked ==
  ASSUME TypeOK, Shaped, Locked, NEW g \in Guests, Arrives(g) \/ GuestStep(g)
  PROVE  Locked'
<1>1. guest[g] \in GuestRecords /\ g \in Users
  BY DEF TypeOK, Users
<1>2. guest[g].pc # "idle" => guest[g].cid \in Cids
  BY DEF Shaped, OthersShaped
<1>3. ASSUME NEW kind \in {"run", "clear", "delete"}, NEW d \in Cids, GuestArrives(g, kind, d)
      PROVE  Locked'
  <2> DEFINE r == [pc |-> "queued", kind |-> kind, cid |-> d]
  <2>1. guest' = [guest EXCEPT ![g] = r] /\ UNCHANGED turn /\ Lock!Join(g, d)
    BY <1>3 DEF GuestArrives
  <2>2. guest[g].pc = "idle" /\ r.pc = "queued" /\ r.cid = d
    BY <1>3 DEF GuestArrives
  <2> HIDE DEF r
  <2>3. /\ OnlyMoves(g) /\ Waits(g, d)' /\ \A cid \in Cids : g \notin Workers(cid)'
    BY <2>1, <2>2, GuestFrame
  <2>4. \A cid \in Cids : ~Waits(g, cid)
    BY <2>2, GuestWaits
  <2> QED
    BY <1>1, <2>1, <2>3, <2>4, LockJoined
<1>4. CASE GuestEnters(g)
  <2> DEFINE r == [guest[g] EXCEPT !.pc = "inside"]
  <2>1. /\ guest' = [guest EXCEPT ![g] = r] /\ UNCHANGED <<turn, queue>>
        /\ guest[g].pc = "queued" /\ Lock!Holds(g, guest[g].cid)
    BY <1>4 DEF GuestEnters
  <2>2. r.pc = "inside" /\ r.cid = guest[g].cid
    BY <1>1 DEF GuestRecords
  <2> HIDE DEF r
  <2>3. /\ OnlyMoves(g)
        /\ \A cid \in Cids :
             /\ Waits(g, cid)' <=> r.pc # "idle" /\ r.cid = cid
             /\ g \in Workers(cid)' <=> r.pc = "inside" /\ r.cid = cid
    BY <2>1, GuestFrame
  <2>4. ASSUME NEW u \in Users, NEW cid \in Cids, Waits(u, cid) PROVE Waits(u, cid)'
    <3>1. CASE u = g
      BY <2>2, <2>3, <2>4, <3>1, GuestWaits
    <3>2. CASE u # g
      BY <2>3, <2>4, <3>2 DEF OnlyMoves
    <3> QED
      BY <3>1, <3>2
  <2>5. ASSUME NEW cid \in Cids, NEW u \in Workers(cid)' PROVE Lock!Holds(u, cid)
    <3>1. CASE u = g
      BY <2>1, <2>2, <2>3, <2>5, <3>1
    <3>2. CASE u # g
      <4>1. u \in Users
        BY DEF Workers, Users
      <4> QED
        BY <2>3, <3>2, <4>1 DEF OnlyMoves, Locked
    <3> QED
      BY <3>1, <3>2
  <2> QED
    BY <2>1, <2>4, <2>5, LockStays
<1>5. ASSUME guest[g].pc # "idle", Lock!Holds(g, guest[g].cid), Lock!Release(guest[g].cid),
             guest' = [guest EXCEPT ![g] = NoGuest], UNCHANGED turn
      PROVE  Locked'
  <2>1. guest[g].cid \in Cids /\ NoGuest.pc = "idle"
    BY <1>2, <1>5 DEF NoGuest
  <2>2. OnlyMoves(g) /\ \A cid \in Cids : g \notin Workers(cid)'
    BY <1>5, <2>1, GuestFrame
  <2>3. \A cid \in Cids \ {guest[g].cid} : ~Waits(g, cid)
    BY GuestWaits
  <2> QED
    BY <1>1, <1>5, <2>1, <2>2, <2>3, LockReleased
<1>6. CASE GuestRefused(g)
  BY <1>5, <1>6 DEF GuestRefused
<1>7. CASE GuestLeaves(g)
  <2>1. Lock!Holds(g, guest[g].cid)
    BY <1>2, <1>7, GuestWaits DEF GuestLeaves, Locked
  <2> QED
    BY <1>5, <1>7, <2>1 DEF GuestLeaves
<1> QED
  BY <1>3, <1>4, <1>6, <1>7 DEF Arrives, GuestStep

(* Steps that touch neither queue nor request, and no turn that waits or works. *)
LEMMA LockUntouched ==
  ASSUME Locked, UNCHANGED <<queue, guest>>,
         \A t \in Turns :
           turn[t].pc \in {"queued", "starting", "running", "announcing", "asking", "saving"} \/
           turn'[t].pc \in {"queued", "starting", "running", "announcing", "asking", "saving"} =>
             turn'[t].pc = turn[t].pc /\ turn'[t].cid = turn[t].cid
  PROVE  Locked'
<1>1. ASSUME NEW u \in Users, NEW cid \in Cids, Waits(u, cid) PROVE Waits(u, cid)'
  BY <1>1 DEF Waits, Inside
<1>2. ASSUME NEW cid \in Cids, NEW u \in Workers(cid)' PROVE Lock!Holds(u, cid)
  <2>1. u \in Workers(cid)
    BY <1>2 DEF Workers, Inside
  <2> QED
    BY <2>1 DEF Locked
<1> QED
  BY <1>1, <1>2, LockStays

------------------------------------------------------------------------------
(* Approvals *)

(* Entries, answers and executed tools over a step of a turn. *)
LEMMA TurnConsented ==
  ASSUME TypeOK, Shaped, Consented, NEW t \in Turns, TurnStep(t)
  PROVE  Consented'
<1>1. turn[t] \in TurnRecords
  BY DEF TypeOK
<1>2. \A u \in Turns, n \in 1..MaxAsks :
        pending[<<u, n>>] # "absent" => turn[u].pc = "asking" /\ turn[u].asks = n
  BY DEF Consented, BusyMeansAsking
<1>3. turn[t].pc \in {"announcing", "asking"} => turn[t].asks \in 1..MaxAsks /\ Card(t) \in Requests
  BY DEF Shaped, TurnsShaped, Card, Requests
<1>4. ASSUME NEW r, turn' = [turn EXCEPT ![t] = r], UNCHANGED <<pending, answers, executed>>,
             turn[t].pc # "asking"
      PROVE  Consented'
  <2>1. BusyMeansAsking'
    BY <1>2, <1>4 DEF BusyMeansAsking, TypeOK
  <2> QED
    BY <1>4, <2>1 DEF Consented, ApprovalsAnswered, ToolsNeedConsent
<1>5. ASSUME NEW r, turn' = [turn EXCEPT ![t] = r], turn[t].pc = "asking",
             Broker!Discard(Card(t)), UNCHANGED answers,
             executed' \subseteq executed \cup {x \in {Card(t)} : pending[x] = "approved"}
      PROVE  Consented'
  <2>1. \A x \in Requests : pending'[x] = IF x = Card(t) THEN "absent" ELSE pending[x]
    BY <1>5 DEF Broker!Discard, TypeOK
  <2>2. BusyMeansAsking'
    <3> SUFFICES ASSUME NEW u \in Turns, NEW n \in 1..MaxAsks, pending'[<<u, n>>] # "absent"
                 PROVE  turn'[u].pc = "asking" /\ turn'[u].asks = n
      BY DEF BusyMeansAsking
    <3>1. <<u, n>> \in Requests
      BY DEF Requests
    <3>2. pending[<<u, n>>] # "absent" /\ <<u, n>> # Card(t)
      BY <2>1, <3>1
    <3>3. turn[u].pc = "asking" /\ turn[u].asks = n
      BY <1>2, <3>2
    <3>4. u # t
      BY <3>2, <3>3 DEF Card
    <3> QED
      BY <1>5, <3>3, <3>4 DEF TypeOK
  <2>3. ApprovalsAnswered'
    BY <1>5, <2>1 DEF Consented, ApprovalsAnswered
  <2>4. ToolsNeedConsent'
    BY <1>3, <1>5 DEF Consented, ApprovalsAnswered, ToolsNeedConsent
  <2> QED
    BY <2>2, <2>3, <2>4 DEF Consented
<1>6. CASE TurnStarts(t)
  <2>1. \E r : turn' = [turn EXCEPT ![t] = r]
    BY <1>6 DEF TurnStarts, Enter
  <2> QED
    BY <1>4, <1>6, <2>1 DEF TurnStarts
<1>7. CASE TurnLocks(t)
  <2>1. \E r : turn' = [turn EXCEPT ![t] = r]
    BY <1>7 DEF TurnLocks, Enter
  <2> QED
    BY <1>4, <1>7, <2>1 DEF TurnLocks
<1>8. CASE TurnRuns(t) \/ TurnAsks(t) \/ TurnReturns(t) \/ TurnEnds(t) \/ TurnGivesUp(t)
           \/ TurnNeverRuns(t)
  <2>1. \E r : turn' = [turn EXCEPT ![t] = r]
    BY <1>8 DEF TurnRuns, TurnAsks, TurnReturns, TurnEnds, TurnGivesUp, TurnNeverRuns
  <2> QED
    BY <1>4, <1>8, <2>1
       DEF TurnRuns, TurnAsks, TurnReturns, TurnEnds, TurnGivesUp, TurnNeverRuns
<1>9. CASE TurnFails(t)
  <2>1. \E r : turn' = [turn EXCEPT ![t] = r]
    BY <1>9 DEF TurnFails, Interrupt
  <2> QED
    BY <1>4, <1>9, <2>1 DEF TurnFails
<1>10. CASE TurnIsCancelled(t)
  <2>1. \E r : turn' = [turn EXCEPT ![t] = r]
    BY <1>10 DEF TurnIsCancelled, Interrupt
  <2>2. CASE turn[t].pc = "asking"
    BY <1>5, <1>10, <2>1, <2>2 DEF TurnIsCancelled
  <2>3. CASE turn[t].pc # "asking"
    BY <1>4, <1>10, <2>1, <2>3 DEF TurnIsCancelled
  <2> QED
    BY <2>2, <2>3
<1>11. CASE TurnResumes(t)
  <2>1. \E r : turn' = [turn EXCEPT ![t] = r]
    BY <1>11 DEF TurnResumes
  <2>2. executed' \subseteq executed \cup {x \in {Card(t)} : pending[x] = "approved"}
    BY <1>11 DEF TurnResumes
  <2> QED
    BY <1>5, <1>11, <2>1, <2>2 DEF TurnResumes
<1>12. CASE TurnAnnounced(t)
  <2>1. /\ turn[t].pc = "announcing" /\ Broker!Register(Card(t)) /\ UNCHANGED <<answers, executed>>
        /\ turn' = [turn EXCEPT ![t] = [turn[t] EXCEPT !.pc = "asking"]]
    BY <1>12 DEF TurnAnnounced
  <2>2. \A x \in Requests : pending'[x] = IF x = Card(t) THEN "open" ELSE pending[x]
    BY <2>1 DEF Broker!Register, TypeOK
  <2>3. /\ turn'[t].pc = "asking" /\ turn'[t].asks = turn[t].asks
        /\ \A u \in Turns \ {t} : turn'[u] = turn[u]
    BY <1>1, <2>1 DEF TypeOK, TurnRecords
  <2>4. BusyMeansAsking'
    <3> SUFFICES ASSUME NEW u \in Turns, NEW n \in 1..MaxAsks, pending'[<<u, n>>] # "absent"
                 PROVE  turn'[u].pc = "asking" /\ turn'[u].asks = n
      BY DEF BusyMeansAsking
    <3>1. <<u, n>> \in Requests
      BY DEF Requests
    <3>2. CASE <<u, n>> = Card(t)
      BY <2>3, <3>2 DEF Card
    <3>3. CASE <<u, n>> # Card(t)
      <4>1. turn[u].pc = "asking" /\ turn[u].asks = n
        BY <1>2, <2>2, <3>1, <3>3
      <4> QED
        BY <2>1, <2>3, <4>1
    <3> QED
      BY <3>2, <3>3
  <2>5. ApprovalsAnswered' /\ ToolsNeedConsent'
    BY <2>1, <2>2 DEF Consented, ApprovalsAnswered, ToolsNeedConsent
  <2> QED
    BY <2>4, <2>5 DEF Consented
<1> QED
  BY <1>6, <1>7, <1>8, <1>9, <1>10, <1>11, <1>12 DEF TurnStep

(* An answer settles an open request and is on record; the timer denies. *)
LEMMA RespondConsented ==
  ASSUME TypeOK, Shaped, Consented, NEW c \in Conns, NEW t \in Turns,
         NEW verdict \in Broker!Verdicts, Respond(c, t, verdict)
  PROVE  Consented'
<1>1. /\ UNCHANGED <<turn, executed>> /\ answers' = answers \cup {<<Card(t), verdict>>}
      /\ \/ pending[Card(t)] = "open" /\ pending' = [pending EXCEPT ![Card(t)] = verdict]
         \/ UNCHANGED pending
  BY DEF Respond, Broker!Resolve
<1>2. \A x \in Requests :
        \/ pending'[x] = pending[x]
        \/ x = Card(t) /\ pending[x] = "open" /\ pending'[x] = verdict
  BY <1>1 DEF TypeOK
<1>3. BusyMeansAsking'
  BY <1>1, <1>2 DEF Consented, BusyMeansAsking, Requests
<1>4. ApprovalsAnswered'
  BY <1>1, <1>2 DEF Consented, ApprovalsAnswered
<1>5. ToolsNeedConsent'
  BY <1>1 DEF Consented, ToolsNeedConsent
<1> QED
  BY <1>3, <1>4, <1>5 DEF Consented

LEMMA TimerConsented ==
  ASSUME TypeOK, Consented, NEW r \in Requests, RequestTimesOut(r)
  PROVE  Consented'
<1>1. /\ UNCHANGED <<turn, executed, answers>>
      /\ pending[r] = "open" /\ pending' = [pending EXCEPT ![r] = "denied"]
  BY DEF RequestTimesOut, Broker!TimesOut
<1>2. \A x \in Requests : pending'[x] = IF x = r THEN "denied" ELSE pending[x]
  BY <1>1 DEF TypeOK
<1>3. BusyMeansAsking'
  BY <1>1, <1>2 DEF Consented, BusyMeansAsking, Requests
<1>4. ApprovalsAnswered' /\ ToolsNeedConsent'
  BY <1>1, <1>2 DEF Consented, ApprovalsAnswered, ToolsNeedConsent
<1> QED
  BY <1>3, <1>4 DEF Consented

(* Steps that touch no request, and no turn that awaits one. *)
LEMMA ConsentUntouched ==
  ASSUME Consented, UNCHANGED <<pending, answers, executed>>,
         \A t \in Turns :
           turn[t].pc = "asking" => turn'[t].pc = "asking" /\ turn'[t].asks = turn[t].asks
  PROVE  Consented'
BY DEF Consented, BusyMeansAsking, ApprovalsAnswered, ToolsNeedConsent

------------------------------------------------------------------------------
(* Streams *)

(* No registered stream's turn ends or begins. *)
LEMMA StreamsUntouched ==
  ASSUME StreamsAreLive, TypeOK, UNCHANGED streams,
         \A t \in Turns :
           turn[t].pc \notin {"none", "created", "done"} =>
             turn'[t].pc \notin {"none", "created", "done"} /\ turn'[t].cid = turn[t].cid
  PROVE  StreamsAreLive'
<1>1. \A cid \in Cids : streams[cid] # None => streams[cid] \in Turns
  BY DEF TypeOK
<1> QED
  BY <1>1 DEF StreamsAreLive

LEMMA TurnStreams ==
  ASSUME TypeOK, Shaped, StreamsAreLive, NEW t \in Turns, TurnStep(t)
  PROVE  StreamsAreLive'
<1>1. turn[t] \in TurnRecords
  BY DEF TypeOK
<1>2. \A cid \in Cids : streams[cid] # None => streams[cid] \in Turns
  BY DEF TypeOK
<1>3. ASSUME NEW r, turn' = [turn EXCEPT ![t] = r], UNCHANGED streams, r.cid = turn[t].cid,
             r.pc \notin {"none", "created", "done"} \/ turn[t].pc = "created"
      PROVE  StreamsAreLive'
  <2>1. \A u \in Turns : turn'[u] = IF u = t THEN r ELSE turn[u]
    BY <1>3 DEF TypeOK
  <2> QED
    BY <1>3, <2>1, StreamsUntouched
<1>4. ASSUME NEW r, turn' = [turn EXCEPT ![t] = r], Unregister(t)
      PROVE  StreamsAreLive'
  <2>1. \A u \in Turns : turn'[u] = IF u = t THEN r ELSE turn[u]
    BY <1>4 DEF TypeOK
  <2>2. ASSUME NEW cid \in Cids, streams'[cid] # None
        PROVE  streams'[cid] = streams[cid] /\ streams[cid] # t
    BY <2>2, <1>4 DEF Unregister, TypeOK, StreamsAreLive
  <2> QED
    BY <1>2, <2>1, <2>2 DEF StreamsAreLive
<1>5. CASE TurnLocks(t)
  <2> DEFINE r == [turn[t] EXCEPT !.pc = "starting"]
  <2>1. turn' = [turn EXCEPT ![t] = r] /\ UNCHANGED streams
    BY <1>5 DEF TurnLocks, Enter
  <2>2. r.cid = turn[t].cid /\ (r.pc \notin {"none", "created", "done"} \/ turn[t].pc = "created")
    BY <1>1, <1>5 DEF TurnLocks, TurnRecords
  <2> HIDE DEF r
  <2> QED
    BY <1>3, <2>1, <2>2
<1>6. CASE TurnRuns(t)
  <2> DEFINE r == [turn[t] EXCEPT !.pc = "running", !.thread = AgentOn(t)]
  <2>1. turn' = [turn EXCEPT ![t] = r] /\ UNCHANGED streams
    BY <1>6 DEF TurnRuns
  <2>2. r.cid = turn[t].cid /\ (r.pc \notin {"none", "created", "done"} \/ turn[t].pc = "created")
    BY <1>1, <1>6 DEF TurnRuns, TurnRecords
  <2> HIDE DEF r
  <2> QED
    BY <1>3, <2>1, <2>2
<1>7. CASE TurnAsks(t)
  <2> DEFINE r == [turn[t] EXCEPT !.pc = "announcing", !.asks = @ + 1, !.crowd = Cardinality(Clients)]
  <2>1. turn' = [turn EXCEPT ![t] = r] /\ UNCHANGED streams
    BY <1>7 DEF TurnAsks
  <2>2. r.cid = turn[t].cid /\ (r.pc \notin {"none", "created", "done"} \/ turn[t].pc = "created")
    BY <1>1, <1>7 DEF TurnAsks, TurnRecords
  <2> HIDE DEF r
  <2> QED
    BY <1>3, <2>1, <2>2
<1>8. CASE TurnAnnounced(t)
  <2> DEFINE r == [turn[t] EXCEPT !.pc = "asking"]
  <2>1. turn' = [turn EXCEPT ![t] = r] /\ UNCHANGED streams
    BY <1>8 DEF TurnAnnounced
  <2>2. r.cid = turn[t].cid /\ (r.pc \notin {"none", "created", "done"} \/ turn[t].pc = "created")
    BY <1>1, <1>8 DEF TurnAnnounced, TurnRecords
  <2> HIDE DEF r
  <2> QED
    BY <1>3, <2>1, <2>2
<1>9. CASE TurnResumes(t)
  <2> DEFINE r == [turn[t] EXCEPT !.pc = "running"]
  <2>1. turn' = [turn EXCEPT ![t] = r] /\ UNCHANGED streams
    BY <1>9 DEF TurnResumes
  <2>2. r.cid = turn[t].cid /\ (r.pc \notin {"none", "created", "done"} \/ turn[t].pc = "created")
    BY <1>1, <1>9 DEF TurnResumes, TurnRecords
  <2> HIDE DEF r
  <2> QED
    BY <1>3, <2>1, <2>2
<1>10. CASE TurnFails(t)
  <2> DEFINE r == [turn[t] EXCEPT !.pc = "saving", !.reply = IF turn[t].thread = None THEN @ ELSE AgentOn(t)]
  <2>1. turn' = [turn EXCEPT ![t] = r] /\ UNCHANGED streams
    BY <1>10 DEF TurnFails, Interrupt
  <2>2. r.cid = turn[t].cid /\ (r.pc \notin {"none", "created", "done"} \/ turn[t].pc = "created")
    BY <1>1, <1>10 DEF TurnFails, TurnRecords
  <2> HIDE DEF r
  <2> QED
    BY <1>3, <2>1, <2>2
<1>11. CASE TurnIsCancelled(t)
  <2> DEFINE r == [turn[t] EXCEPT !.pc = "saving", !.reply = IF turn[t].thread = None THEN @ ELSE AgentOn(t)]
  <2>1. turn' = [turn EXCEPT ![t] = r] /\ UNCHANGED streams
    BY <1>11 DEF TurnIsCancelled, Interrupt
  <2>2. r.cid = turn[t].cid /\ (r.pc \notin {"none", "created", "done"} \/ turn[t].pc = "created")
    BY <1>1, <1>11 DEF TurnIsCancelled, TurnRecords
  <2> HIDE DEF r
  <2> QED
    BY <1>3, <2>1, <2>2
<1>12. CASE TurnNeverRuns(t)
  <2> DEFINE r == [turn[t] EXCEPT !.pc = "done"]
  <2>1. turn' = [turn EXCEPT ![t] = r] /\ UNCHANGED streams
    BY <1>12 DEF TurnNeverRuns
  <2>2. r.cid = turn[t].cid /\ (r.pc \notin {"none", "created", "done"} \/ turn[t].pc = "created")
    BY <1>1, <1>12 DEF TurnNeverRuns, TurnRecords
  <2> HIDE DEF r
  <2> QED
    BY <1>3, <2>1, <2>2
<1>13. CASE TurnReturns(t) \/ TurnEnds(t) \/ TurnGivesUp(t)
  <2>1. \E r : turn' = [turn EXCEPT ![t] = r]
    BY <1>13 DEF TurnReturns, TurnEnds, TurnGivesUp
  <2> QED
    BY <1>4, <1>13, <2>1 DEF TurnReturns, TurnEnds, TurnGivesUp
<1>14. CASE TurnStarts(t)
  <2>1. PICK pc \in {"starting", "queued"} :
          turn' = [turn EXCEPT ![t] = [turn[t] EXCEPT !.pc = pc]]
    BY <1>14 DEF TurnStarts, Enter
  <2>2. turn[t].pc = "created" /\ streams' = [streams EXCEPT ![turn[t].cid] = t]
    BY <1>14 DEF TurnStarts
  <2>3. turn[t].cid \in Cids
    BY <2>2 DEF Shaped, TurnsShaped
  <2>4. /\ turn'[t].pc = pc /\ turn'[t].cid = turn[t].cid
        /\ \A u \in Turns \ {t} : turn'[u] = turn[u]
    BY <1>1, <2>1 DEF TypeOK, TurnRecords
  <2>5. \A cid \in Cids : streams'[cid] = IF cid = turn[t].cid THEN t ELSE streams[cid]
    BY <2>2, <2>3 DEF TypeOK
  <2> SUFFICES ASSUME NEW cid \in Cids, streams'[cid] # None
               PROVE  /\ turn'[streams'[cid]].cid = cid
                      /\ turn'[streams'[cid]].pc \notin {"none", "created", "done"}
    BY DEF StreamsAreLive
  <2>6. CASE cid = turn[t].cid
    BY <2>4, <2>5, <2>6
  <2>7. CASE cid # turn[t].cid
    <3>1. streams'[cid] = streams[cid] /\ streams[cid] \in Turns /\ streams[cid] # t
      BY <1>2, <2>2, <2>5, <2>7 DEF StreamsAreLive
    <3> QED
      BY <2>4, <3>1 DEF StreamsAreLive
  <2> QED
    BY <2>6, <2>7
<1> QED
  BY <1>5, <1>6, <1>7, <1>8, <1>9, <1>10, <1>11, <1>12, <1>13, <1>14 DEF TurnStep

------------------------------------------------------------------------------
(* The invariant is inductive *)

LEMMA InitIInv == Init => IInv
<1> SUFFICES ASSUME Init PROVE IInv
  OBVIOUS
<1>1. \A t \in Turns : turn[t] = TurnAt("none", None, None)
  BY DEF Init
<1>2. TurnAt("none", None, None) \in TurnRecords /\ TurnAt("none", None, None).pc = "none"
  BY ChatAssumption DEF ChatAssumption, TurnAt, TurnRecords, TurnPoints
<1>3. NoGuest \in GuestRecords /\ NoGuest.pc = "idle"
  BY DEF NoGuest, GuestRecords
<1>4. queue \in Lock!Queues /\ \A cid \in Cids : queue[cid] = <<>>
  BY DEF Init, Lock!Queues
<1>5. pending \in [Requests -> Broker!Entries] /\ \A r \in Requests : pending[r] = "absent"
  BY DEF Init, Broker!NothingPending, Broker!Entries
<1>6. \A c \in Conns : conn[c].pc = "new" /\ conn[c] \in ConnRecords
  BY DEF Init, ConnRecords
<1>7. TypeOK
  BY <1>2, <1>3, <1>4, <1>5, <1>6 DEF Init, TypeOK
<1>8. Shaped
  BY <1>1, <1>2, <1>3, <1>6 DEF Init, Shaped, TurnsShaped, OthersShaped, Inside
<1>9. Locked
  <2>1. \A cid \in Cids : Workers(cid) = {}
    BY <1>1, <1>2, <1>3 DEF Init, Workers, Inside
  <2>2. Distinct(<<>>) /\ \A u : ~Sits(u, <<>>)
    BY DEF Distinct, Sits
  <2> QED
    BY <1>4, <2>1, <2>2 DEF Locked
<1>10. Consented
  BY <1>5 DEF Init, Consented, BusyMeansAsking, ApprovalsAnswered, ToolsNeedConsent, Requests
<1>11. StreamsAreLive
  BY DEF Init, StreamsAreLive
<1> QED
  BY <1>7, <1>8, <1>9, <1>10, <1>11 DEF IInv

LEMMA ConnOnlyStep ==
  ASSUME IInv, NEW c \in Conns, ConnOnly(c)
  PROVE  IInv'
<1>1. UNCHANGED <<turn, streams, queue, pending, answers, executed, guest>>
  BY DEF ConnOnly
<1> QED
  BY <1>1, ConnOnlyTyped, LockUntouched, ConsentUntouched, StreamsUntouched DEF IInv

LEMMA StartStep ==
  ASSUME IInv, NEW c \in Conns, NEW cid \in Cids, StartTurn(c, cid)
  PROVE  IInv'
<1>1. PICK t \in Unused : turn' = [turn EXCEPT ![t] = TurnAt("created", cid, c)]
  BY DEF StartTurn
<1>2. /\ t \in Turns /\ turn[t].pc = "none" /\ turn'[t].pc = "created"
      /\ \A u \in Turns \ {t} : turn'[u] = turn[u]
  BY <1>1 DEF Unused, TurnAt, IInv, TypeOK
<1>3. UNCHANGED <<streams, queue, pending, answers, executed, guest>>
  BY DEF StartTurn
<1>4. Locked'
  BY <1>2, <1>3, LockUntouched DEF IInv
<1>5. Consented'
  BY <1>2, <1>3, ConsentUntouched DEF IInv
<1>6. StreamsAreLive'
  BY <1>2, <1>3, StreamsUntouched DEF IInv
<1> QED
  BY <1>4, <1>5, <1>6, StartTyped DEF IInv

LEMMA StopStep ==
  ASSUME IInv, NEW c \in Conns, NEW cid \in Cids \cup {None}, Stop(c, cid)
  PROVE  IInv'
<1>1. /\ TypeOK' /\ Shaped'
      /\ \A u \in Turns : turn'[u] = [turn[u] EXCEPT !.cancelled = turn'[u].cancelled]
  BY StopTyped DEF IInv
<1>2. ASSUME NEW u \in Turns
      PROVE  turn'[u].pc = turn[u].pc /\ turn'[u].cid = turn[u].cid /\ turn'[u].asks = turn[u].asks
  <2> DEFINE new == turn'[u]
  <2>1. turn[u] \in TurnRecords /\ new = [turn[u] EXCEPT !.cancelled = new.cancelled]
    BY <1>1 DEF IInv, TypeOK
  <2> HIDE DEF new
  <2>2. new.pc = turn[u].pc /\ new.cid = turn[u].cid /\ new.asks = turn[u].asks
    BY <2>1 DEF TurnRecords
  <2> QED
    BY <2>2 DEF new
<1>3. UNCHANGED <<streams, queue, pending, answers, executed, guest>>
  BY DEF Stop
<1>4. Locked'
  BY <1>2, <1>3, LockUntouched DEF IInv
<1>5. Consented'
  BY <1>2, <1>3, ConsentUntouched DEF IInv
<1>6. StreamsAreLive'
  BY <1>2, <1>3, StreamsUntouched DEF IInv
<1> QED
  BY <1>1, <1>4, <1>5, <1>6 DEF IInv

LEMMA RespondStep ==
  ASSUME IInv, NEW c \in Conns, NEW t \in Turns, NEW verdict \in Broker!Verdicts,
         Respond(c, t, verdict)
  PROVE  IInv'
<1>1. UNCHANGED <<turn, streams, queue, guest>>
  BY DEF Respond
<1> QED
  BY <1>1, RespondTyped, RespondConsented, LockUntouched, StreamsUntouched DEF IInv

LEMMA TurnStepIInv ==
  ASSUME IInv, NEW t \in Turns, TurnStep(t), UNCHANGED <<guest, stored>>
  PROVE  IInv'
BY TurnTyped, TurnLocked, TurnConsented, TurnStreams DEF IInv

LEMMA TimerStep ==
  ASSUME IInv, NEW r \in Requests, RequestTimesOut(r), UNCHANGED <<guest, stored>>
  PROVE  IInv'
<1>1. UNCHANGED <<turn, streams, queue, guest>>
  BY DEF RequestTimesOut
<1> QED
  BY <1>1, TimerTyped, TimerConsented, LockUntouched, StreamsUntouched DEF IInv

LEMMA OtherStep ==
  ASSUME IInv, NEW g \in Guests, Arrives(g) \/ GuestStep(g)
  PROVE  IInv'
<1>1. UNCHANGED <<turn, streams, pending, answers, executed>>
  BY DEF Arrives, GuestArrives, GuestStep, GuestEnters, GuestRefused, GuestLeaves
<1> QED
  BY <1>1, GuestTyped, GuestLocked, ConsentUntouched, StreamsUntouched DEF IInv

(* What a step is. *)
LEMMA Steps ==
  ASSUME IInv, Next
  PROVE  \/ \E c \in Conns :
              \/ ConnOnly(c)
              \/ \E cid \in Cids : StartTurn(c, cid)
              \/ \E cid \in Cids \cup {None} : Stop(c, cid)
              \/ \E t \in Turns, verdict \in Broker!Verdicts : Respond(c, t, verdict)
         \/ \E t \in Turns : TurnStep(t) /\ UNCHANGED <<guest, stored>>
         \/ \E r \in Requests : RequestTimesOut(r) /\ UNCHANGED <<guest, stored>>
         \/ \E g \in Guests : Arrives(g) \/ GuestStep(g)
<1>1. CASE \E c \in Conns : Connect(c) \/ Disconnect(c) \/ Receive(c) \/ HandlerResumes(c)
  BY <1>1, HandlerSteps DEF IInv
<1>2. CASE \E t \in Turns : TurnStep(t) /\ UNCHANGED <<guest, stored>>
  BY <1>2
<1>3. CASE \E r \in Requests : RequestTimesOut(r) /\ UNCHANGED <<guest, stored>>
  BY <1>3
<1>4. CASE \E g \in Guests :
             \/ \E kind \in {"run", "clear", "delete"}, cid \in Cids : GuestArrives(g, kind, cid)
             \/ GuestStep(g)
  BY <1>4 DEF Arrives
<1> QED
  BY <1>1, <1>2, <1>3, <1>4 DEF Next

LEMMA NextIInv == IInv /\ [Next]_vars => IInv'
<1>1. ASSUME IInv, Next PROVE IInv'
  BY <1>1, Steps, ConnOnlyStep, StartStep, StopStep, RespondStep, TurnStepIInv, TimerStep,
     OtherStep
<1>2. ASSUME IInv, UNCHANGED vars PROVE IInv'
  <2>1. UNCHANGED <<turn, gen, streams, conn, queue, pending, answers, executed, threads,
                    guest, stored>>
    BY <1>2 DEF vars
  <2>2. TypeOK'
    BY <1>2, <2>1 DEF IInv, TypeOK
  <2>3. Shaped'
    BY <1>2, <2>1 DEF IInv, Shaped, TurnsShaped, OthersShaped, Inside
  <2> QED
    BY <1>2, <2>1, <2>2, <2>3, LockUntouched, ConsentUntouched, StreamsUntouched DEF IInv
<1> QED
  BY <1>1, <1>2

LEMMA IInvHolds == Spec => []IInv
BY InitIInv, NextIInv, PTL DEF Spec

------------------------------------------------------------------------------
(* Invariants *)

(* Every variable keeps its type, over all messages, stops, answers, failures and
   requests of other entries (websocket.py, permission_broker.py). *)
THEOREM TypeCorrect == Spec => []TypeOK
<1>1. IInv => TypeOK
  BY DEF IInv
<1> QED
  BY <1>1, IInvHolds, PTL

LEMMA OneWorker == IInv => OneAtATime
<1> SUFFICES ASSUME IInv, NEW cid \in Cids, NEW u \in Workers(cid), NEW v \in Workers(cid)
             PROVE  u = v
  BY DEF OneAtATime
<1>1. Lock!Holds(u, cid) /\ Lock!Holds(v, cid)
  BY DEF IInv, Locked
<1> QED
  BY <1>1 DEF Lock!Holds

(* At most one turn or request is at work on a conversation, for any number of
   connections, turns and requests (per_conversation_lock). *)
THEOREM OneAtATimeHolds == Spec => []OneAtATime
BY OneWorker, IInvHolds, PTL

(* The broker's entries are those of turns that await an approval, hence no
   conversation is refused as busy for ever (PermissionBroker.wait). *)
THEOREM BusyMeansAskingHolds == Spec => []BusyMeansAsking
<1>1. IInv => BusyMeansAsking
  BY DEF IInv, Consented
<1> QED
  BY <1>1, IInvHolds, PTL

(* A tool that needs approval runs only after a user approved this very request
   (PermissionBroker, _make_waiter). *)
THEOREM ToolsNeedConsentHolds == Spec => []ToolsNeedConsent
<1>1. IInv => ToolsNeedConsent
  BY DEF IInv, Consented
<1> QED
  BY <1>1, IInvHolds, PTL

(* The stream registered for a conversation is that of an unfinished turn of it
   (_turn_streams). *)
THEOREM StreamsAreLiveHolds == Spec => []StreamsAreLive
<1>1. IInv => StreamsAreLive
  BY DEF IInv
<1> QED
  BY <1>1, IInvHolds, PTL

------------------------------------------------------------------------------
(* Action properties *)

Verdict(r) == Broker!Settled(r) => pending'[r] \in {pending[r], "absent"}

LEMMA VerdictStep == ASSUME IInv, [Next]_vars, NEW r \in Requests PROVE Verdict(r)
<1>1. CASE UNCHANGED pending
  BY <1>1 DEF Verdict
<1>2. ASSUME NEW t \in Turns, TurnStep(t) PROVE Verdict(r)
  <2>1. CASE UNCHANGED pending
    BY <2>1 DEF Verdict
  <2>2. CASE Broker!Discard(Card(t))
    BY <2>2 DEF Broker!Discard, Verdict, IInv, TypeOK
  <2>3. CASE TurnAnnounced(t)
    <3>1. turn[t].pc = "announcing" /\ pending' = [pending EXCEPT ![Card(t)] = "open"]
      BY <2>3 DEF TurnAnnounced, Broker!Register
    <3>2. CASE r = Card(t)
      <4>1. turn[t].asks \in 1..MaxAsks
        BY <3>1 DEF IInv, Shaped, TurnsShaped
      <4>2. pending[r] = "absent"
        BY <3>1, <3>2, <4>1 DEF IInv, Consented, BusyMeansAsking, Card
      <4> QED
        BY <4>2 DEF Verdict, Broker!Settled, Broker!Verdicts
    <3>3. CASE r # Card(t)
      BY <3>1, <3>3 DEF Verdict, IInv, TypeOK
    <3> QED
      BY <3>2, <3>3
  <2> QED
    BY <1>2, <2>1, <2>2, <2>3
       DEF TurnStep, TurnStarts, TurnLocks, TurnRuns, TurnAsks, TurnResumes, TurnReturns,
           TurnFails, TurnIsCancelled, TurnEnds, TurnGivesUp, TurnNeverRuns
<1>3. ASSUME NEW x \in Requests, RequestTimesOut(x) PROVE Verdict(r)
  BY <1>3 DEF RequestTimesOut, Broker!TimesOut, Broker!Settled, Broker!Verdicts, Verdict,
              IInv, TypeOK
<1>4. ASSUME NEW c \in Conns, NEW t \in Turns, NEW verdict \in Broker!Verdicts,
             Respond(c, t, verdict)
      PROVE  Verdict(r)
  BY <1>4 DEF Respond, Broker!Resolve, Broker!Settled, Broker!Verdicts, Verdict, IInv, TypeOK
<1>5. CASE Next
  BY <1>1, <1>2, <1>3, <1>4, <1>5, Steps
     DEF ConnOnly, StartTurn, Stop, Arrives, GuestArrives, GuestStep, GuestEnters,
         GuestRefused, GuestLeaves
<1>6. CASE UNCHANGED vars
  BY <1>1, <1>6 DEF vars
<1> QED
  BY <1>5, <1>6

(* The verdict on a request stands until its turn has read it (resolve,
   _on_timeout): no second answer and no timer replaces it. *)
THEOREM FirstVerdictStandsHolds == Spec => FirstVerdictStands
<1>1. IInv /\ [Next]_vars => [\A r \in Requests :
        Broker!Settled(r) => pending'[r] \in {pending[r], "absent"}]_vars
  BY VerdictStep DEF Verdict
<1> QED
  BY <1>1, IInvHolds, PTL DEF Spec, FirstVerdictStands

Kept(cid) ==
  gen'[cid] # gen[cid] /\ gen[cid] # None =>
    \/ turn'[gen[cid]].pc = "done"
    \/ gen'[cid] # None /\ turn[gen'[cid]].pc = "none"

LEMMA KeptStep == ASSUME IInv, [Next]_vars, NEW cid \in Cids PROVE Kept(cid)
<1>1. CASE UNCHANGED gen
  BY <1>1 DEF Kept
<1>2. ASSUME NEW t \in Turns, TurnStep(t) PROVE Kept(cid)
  <2>1. CASE UNCHANGED gen
    BY <2>1 DEF Kept
  <2>2. CASE TurnReturns(t) \/ TurnEnds(t) \/ TurnGivesUp(t)
    <3>1. turn'[t].pc = "done" /\ Unregister(t)
      BY <2>2 DEF TurnReturns, TurnEnds, TurnGivesUp, IInv, TypeOK, TurnRecords
    <3>2. gen'[cid] # gen[cid] => gen[cid] = t
      BY <3>1 DEF Unregister, IInv, TypeOK
    <3> QED
      BY <3>1, <3>2 DEF Kept
  <2> QED
    BY <1>2, <2>1, <2>2
       DEF TurnStep, TurnStarts, TurnLocks, TurnRuns, TurnAsks, TurnAnnounced, TurnResumes,
           TurnFails, TurnIsCancelled, TurnNeverRuns
<1>3. ASSUME NEW c \in Conns, NEW d \in Cids, StartTurn(c, d) PROVE Kept(cid)
  <2>1. PICK t \in Unused : gen' = [gen EXCEPT ![d] = t]
    BY <1>3 DEF StartTurn
  <2>2. t # None /\ turn[t].pc = "none"
    BY <2>1, ChatAssumption DEF ChatAssumption, Unused
  <2> QED
    BY <2>1, <2>2 DEF Kept, IInv, TypeOK
<1>4. CASE Next
  BY <1>1, <1>2, <1>3, <1>4, Steps
     DEF ConnOnly, Stop, Respond, RequestTimesOut, Arrives, GuestArrives, GuestStep,
         GuestEnters, GuestRefused, GuestLeaves
<1>5. CASE UNCHANGED vars
  BY <1>1, <1>5 DEF vars
<1> QED
  BY <1>4, <1>5

(* The end of a turn takes no other turn's registration with it, and only a new
   turn replaces one (_run_generation's identity checks). *)
THEOREM EntriesOutliveOthersHolds == Spec => EntriesOutliveOthers
<1>1. IInv /\ [Next]_vars => [\A cid \in Cids :
        gen'[cid] # gen[cid] /\ gen[cid] # None =>
          \/ turn'[gen[cid]].pc = "done"
          \/ gen'[cid] # None /\ turn[gen'[cid]].pc = "none"]_vars
  BY KeptStep DEF Kept
<1> QED
  BY <1>1, IInvHolds, PTL DEF Spec, EntriesOutliveOthers

Spared(t) == Inside(t) /\ turn[t].cid \in threads => turn[t].cid \in threads'

LEMMA SparedStep == ASSUME IInv, [Next]_vars, NEW t \in Turns PROVE Spared(t)
<1>1. CASE threads \subseteq threads'
  BY <1>1 DEF Spared
<1>2. ASSUME NEW g \in Guests, GuestLeaves(g) PROVE Spared(t)
  <2>1. guest[g].pc = "inside" /\ guest[g].cid \in Cids
    BY <1>2 DEF GuestLeaves, IInv, Shaped, OthersShaped
  <2>2. Inside(t) => turn[t].cid # guest[g].cid
    BY <2>1, OneWorker, ChatAssumption DEF OneAtATime, Workers, ChatAssumption
  <2>3. threads \ {guest[g].cid} \subseteq threads'
    BY <1>2 DEF GuestLeaves
  <2> QED
    BY <2>2, <2>3 DEF Spared
<1>3. ASSUME NEW u \in Turns, TurnStep(u) PROVE Spared(t)
  BY <1>1, <1>3
     DEF TurnStep, TurnStarts, TurnLocks, TurnRuns, TurnAsks, TurnAnnounced, TurnResumes,
         TurnReturns, TurnFails, TurnIsCancelled, TurnEnds, TurnGivesUp, TurnNeverRuns
<1>4. CASE Next
  BY <1>1, <1>2, <1>3, <1>4, Steps
     DEF ConnOnly, StartTurn, Stop, Respond, RequestTimesOut, Arrives, GuestArrives,
         GuestStep, GuestEnters, GuestRefused
<1>5. CASE UNCHANGED vars
  BY <1>1, <1>5 DEF vars
<1> QED
  BY <1>4, <1>5

(* A conversation's checkpoint is not dropped while a turn works on it
   (clear_conversation_messages, delete_conversation). *)
THEOREM NotPulledAwayHolds == Spec => NotPulledAway
<1>1. IInv /\ [Next]_vars => [\A t \in Turns :
        Inside(t) /\ turn[t].cid \in threads => turn[t].cid \in threads']_vars
  BY SparedStep DEF Spared
<1> QED
  BY <1>1, IInvHolds, PTL DEF Spec, NotPulledAway

------------------------------------------------------------------------------
(* Turns that stay home.  The turns of a connection run one after the other as
   long as nobody else uses its conversations: the handler waits for the turn of
   the conversation or, if there is none, for the last one of the connection, and
   only another connection's turn could stand in the way of the second. *)

Begun(t) == turn[t].pc # "none"

\* Every conversation is used on one connection only.
OneConnectionEach ==
  \A t, u \in Turns : Begun(t) /\ Begun(u) /\ turn[t].cid = turn[u].cid => turn[t].by = turn[u].by

\* A turn that another connection has begun in the conversation.
Foreign(c, cid) == \E t \in Turns : Begun(t) /\ turn[t].cid = cid /\ turn[t].by # c

Registered == \A cid \in Cids : gen[cid] # None => Begun(gen[cid]) /\ turn[gen[cid]].cid = cid

LastOnly == \A t \in Turns : Live(t) => t = conn[turn[t].by].last

Succeeds(c) ==
  /\ conn[c].last # None => Begun(conn[c].last)
  /\ conn[c].pc = "waiting" => conn[c].on = conn[c].last \/ Foreign(c, conn[c].cid)
  /\ conn[c].pc = "checking" => ~Live(conn[c].last) \/ Foreign(c, conn[c].cid)

\* A turn that holds its lock finds the clone on its conversation.
Pointed == \A t \in Turns : Inside(t) => AgentOn(t) = turn[t].cid

HomeInv == Registered /\ LastOnly /\ (\A c \in Conns : Succeeds(c)) /\ Pointed /\ TurnsStayHome

LEMMA HomeUntouched ==
  ASSUME HomeInv, UNCHANGED <<turn, gen, conn>>
  PROVE  HomeInv'
BY DEF HomeInv, Registered, LastOnly, Succeeds, Pointed, TurnsStayHome, Begun, Foreign, Live,
       Inside, AgentOn

\* A handler that starts no turn.
LEMMA HandlerHome ==
  ASSUME IInv, HomeInv, NEW c \in Conns, NEW r,
         conn' = [conn EXCEPT ![c] = r], UNCHANGED <<turn, gen>>,
         r.agent = conn[c].agent, r.last = conn[c].last,
         r.pc = "waiting" => r.on = r.last \/ Foreign(c, r.cid),
         r.pc = "checking" => ~Live(r.last) \/ Foreign(c, r.cid)
  PROVE  HomeInv'
<1>1. \A d \in Conns : conn'[d] = IF d = c THEN r ELSE conn[d]
  BY DEF IInv, TypeOK
<1>2. \A d \in Conns : conn'[d].agent = conn[d].agent /\ conn'[d].last = conn[d].last
  BY <1>1
<1>3. \A t \in Turns : Live(t)' = Live(t) /\ Inside(t)' = Inside(t) /\ (Inside(t) => Live(t))
  BY ChatAssumption DEF Live, Inside, ChatAssumption
<1>4. \A t \in Turns : Live(t) => turn[t].by \in Conns
  BY DEF IInv, Shaped, TurnsShaped, Live
<1>5. Registered' /\ TurnsStayHome'
  BY DEF HomeInv, Registered, TurnsStayHome, Begun
<1>6. LastOnly' /\ Pointed'
  BY <1>2, <1>3, <1>4 DEF HomeInv, LastOnly, Pointed, AgentOn
<1>7. \A d \in Conns : Succeeds(d)'
  <2>1. \A d \in Conns : \A cid : Foreign(d, cid) => Foreign(d, cid)'
    BY DEF Foreign, Begun
  <2>2. \A t : Live(t)' = Live(t)
    BY DEF Live
  <2> SUFFICES ASSUME NEW d \in Conns PROVE Succeeds(d)'
    OBVIOUS
  <2>3. CASE d = c
    BY <1>1, <2>1, <2>2, <2>3 DEF Succeeds, Foreign, Begun, HomeInv
  <2>4. CASE d # c
    BY <1>1, <2>1, <2>2, <2>4 DEF Succeeds, Foreign, Begun, HomeInv
  <2> QED
    BY <2>3, <2>4
<1> QED
  BY <1>5, <1>6, <1>7 DEF HomeInv

\* A turn starts on a connection whose last one has ended.
LEMMA StartHome ==
  ASSUME IInv, HomeInv, NEW c \in Conns, NEW cid \in Cids, StartTurn(c, cid), ~Live(conn[c].last)
  PROVE  HomeInv'
<1>1. PICK t \in Unused :
        /\ turn' = [turn EXCEPT ![t] = TurnAt("created", cid, c)]
        /\ gen' = [gen EXCEPT ![cid] = t]
        /\ conn' = [conn EXCEPT ![c] = [@ EXCEPT !.pc = "reading", !.cid = None, !.on = None,
                                                 !.last = t]]
  BY DEF StartTurn
<1>2. t \in Turns /\ turn[t].pc = "none" /\ t # None
  BY ChatAssumption DEF Unused, ChatAssumption
<1> DEFINE r == [conn[c] EXCEPT !.pc = "reading", !.cid = None, !.on = None, !.last = t]
<1>3. /\ conn[c] \in ConnRecords
      /\ r.pc = "reading" /\ r.last = t /\ r.agent = conn[c].agent
  BY DEF ConnRecords, IInv, TypeOK
<1>4. conn' = [conn EXCEPT ![c] = r]
  BY <1>1
<1> HIDE DEF r
<1>5. \A d \in Conns : conn'[d] = IF d = c THEN r ELSE conn[d]
  BY <1>4 DEF IInv, TypeOK
<1> DEFINE new == TurnAt("created", cid, c)
<1>6. new.pc = "created" /\ new.cid = cid /\ new.by = c /\ new.thread = None /\ new.reply = None
  BY DEF TurnAt
<1>7. \A u \in Turns : turn'[u] = IF u = t THEN new ELSE turn[u]
  BY <1>1, <1>2 DEF IInv, TypeOK
<1> HIDE DEF new
<1>8. \A d \in Cids : gen'[d] = IF d = cid THEN t ELSE gen[d]
  BY <1>1 DEF IInv, TypeOK
<1>9. \A d \in Cids : gen[d] \in Turns \cup {None}
  BY DEF IInv, TypeOK
<1>10. \A u \in Turns : Live(u) => turn[u].by \in Conns
  BY DEF IInv, Shaped, TurnsShaped, Live
<1>11. \A u \in Turns : u # t => Live(u)' = Live(u) /\ Inside(u)' = Inside(u) /\ Begun(u)' = Begun(u)
  BY <1>7 DEF Live, Inside, Begun
<1>12. \A u \in Turns : Inside(u) => Live(u)
  BY ChatAssumption DEF Live, Inside, ChatAssumption
<1>13. Registered'
  <2> SUFFICES ASSUME NEW d \in Cids, gen'[d] # None
               PROVE  Begun(gen[d])' /\ turn'[gen'[d]].cid = d
    BY DEF Registered
  <2>1. CASE d = cid
    BY <1>2, <1>6, <1>7, <1>8, <2>1 DEF Begun
  <2>2. CASE d # cid
    <3>1. gen'[d] = gen[d] /\ gen[d] \in Turns /\ Begun(gen[d]) /\ turn[gen[d]].cid = d
      BY <1>8, <1>9, <2>2 DEF HomeInv, Registered
    <3>2. gen[d] # t
      BY <1>2, <3>1 DEF Begun
    <3> QED
      BY <1>7, <3>1, <3>2 DEF Begun
  <2> QED
    BY <2>1, <2>2
<1>14. LastOnly'
  <2> SUFFICES ASSUME NEW u \in Turns, Live(u)' PROVE u = conn'[turn'[u].by].last
    BY DEF LastOnly
  <2>1. CASE u = t
    BY <1>3, <1>5, <1>6, <1>7, <2>1
  <2>2. CASE u # t
    <3>1. Live(u) /\ u = conn[turn[u].by].last /\ turn'[u] = turn[u] /\ turn[u].by \in Conns
      BY <1>7, <1>10, <1>11, <2>2 DEF HomeInv, LastOnly
    <3>2. turn[u].by # c
      BY <3>1
    <3> QED
      BY <1>5, <3>1, <3>2
  <2> QED
    BY <2>1, <2>2
<1>15. \A d \in Conns : Succeeds(d)'
  <2> SUFFICES ASSUME NEW d \in Conns PROVE Succeeds(d)'
    OBVIOUS
  <2>1. CASE d = c
    BY <1>2, <1>3, <1>5, <1>6, <1>7, <2>1 DEF Succeeds, Begun
  <2>2. CASE d # c
    <3>1. conn'[d] = conn[d] /\ conn[d].last \in Turns \cup {None} /\ Succeeds(d)
      BY <1>5, <2>2 DEF IInv, TypeOK, ConnRecords, HomeInv
    <3>2. ASSUME NEW e, Foreign(d, e) PROVE Foreign(d, e)'
      <4>1. PICK u \in Turns : Begun(u) /\ turn[u].cid = e /\ turn[u].by # d
        BY <3>2 DEF Foreign
      <4>2. u # t
        BY <1>2, <4>1 DEF Begun
      <4> QED
        BY <1>7, <1>11, <4>1, <4>2 DEF Foreign
    <3>3. conn[d].last # None => Begun(conn[d].last)'
      BY <1>6, <1>7, <1>11, <3>1 DEF Succeeds, Begun
    <3>4. CASE conn[d].pc = "checking" /\ ~Live(conn[d].last)
      <4>1. CASE conn[d].last # t
        <5>1. ~Live(conn[d].last)'
          BY <1>7, <3>1, <3>4, <4>1 DEF Live
        <5> QED
          BY <3>1, <3>3, <3>4, <5>1 DEF Succeeds
      <4>2. CASE conn[d].last = t
        <5> QED
          BY <1>2, <3>1, <4>2 DEF Succeeds, Begun
      <4> QED
        BY <4>1, <4>2
    <3> QED
      BY <3>1, <3>2, <3>3, <3>4 DEF Succeeds
  <2> QED
    BY <2>1, <2>2
<1>16. Pointed'
  <2> SUFFICES ASSUME NEW u \in Turns, Inside(u)' PROVE conn'[turn'[u].by].agent = turn'[u].cid
    BY DEF Pointed, AgentOn
  <2>1. u # t
    BY <1>6, <1>7 DEF Inside
  <2>2. Inside(u) /\ turn'[u] = turn[u] /\ turn[u].by \in Conns
    BY <1>7, <1>10, <1>11, <1>12, <2>1
  <2> QED
    BY <1>3, <1>5, <2>2 DEF HomeInv, Pointed, AgentOn
<1>17. TurnsStayHome'
  BY <1>6, <1>7 DEF HomeInv, TurnsStayHome
<1> QED
  BY <1>13, <1>14, <1>15, <1>16, <1>17 DEF HomeInv

\* What a turn's step does to its record, its clone and the registrations.
LEMMA TurnHome ==
  ASSUME IInv, HomeInv, NEW t \in Turns, Begun(t), NEW r, NEW a,
         turn' = [turn EXCEPT ![t] = r],
         r.cid = turn[t].cid, r.by = turn[t].by, r.pc # "none",
         r.pc # "done" => Live(t),
         {r.thread, r.reply} \subseteq {None, turn[t].cid},
         conn' = [conn EXCEPT ![turn[t].by] = a],
         LET was == conn[turn[t].by] IN
           a.pc = was.pc /\ a.cid = was.cid /\ a.on = was.on /\ a.last = was.last,
         a.agent = conn[turn[t].by].agent \/ (Live(t) /\ a.agent = turn[t].cid),
         r.pc \in {"starting", "running", "announcing", "asking", "saving"} => a.agent = turn[t].cid,
         \A cid \in Cids : gen'[cid] \in {gen[cid], None}
  PROVE  HomeInv'
<1> DEFINE b == turn[t].by
<1>1. b \in Conns /\ turn[t].cid \in Cids
  BY DEF Begun, IInv, Shaped, TurnsShaped
<1>2. \A u \in Turns : turn'[u] = IF u = t THEN r ELSE turn[u]
  BY DEF IInv, TypeOK
<1>3. \A d \in Conns : conn'[d] = IF d = b THEN a ELSE conn[d]
  BY DEF IInv, TypeOK
<1>4. \A u \in Turns : Begun(u)' = Begun(u) /\ turn'[u].cid = turn[u].cid /\ turn'[u].by = turn[u].by
  BY <1>2 DEF Begun
<1>5. \A u \in Turns : Live(u)' => Live(u)
  BY <1>2 DEF Live
<1>6. \A d \in Conns : conn'[d].pc = conn[d].pc /\ conn'[d].cid = conn[d].cid
                        /\ conn'[d].on = conn[d].on /\ conn'[d].last = conn[d].last
  BY <1>3
<1>7. \A u \in Turns : Live(u) => turn[u].by \in Conns
  BY DEF IInv, Shaped, TurnsShaped, Live
<1>8. \A u \in Turns : Inside(u) => Live(u)
  BY ChatAssumption DEF Live, Inside, ChatAssumption
<1> HIDE DEF b
<1>9. Registered'
  BY <1>4 DEF HomeInv, Registered, IInv, TypeOK
<1>10. LastOnly'
  BY <1>4, <1>5, <1>6, <1>7 DEF HomeInv, LastOnly
<1>11. \A d \in Conns : Succeeds(d)'
  <2> SUFFICES ASSUME NEW d \in Conns PROVE Succeeds(d)'
    OBVIOUS
  <2>1. Succeeds(d) /\ conn[d].last \in Turns \cup {None}
    BY DEF HomeInv, IInv, TypeOK, ConnRecords
  <2>2. \A e : Foreign(d, e) => Foreign(d, e)'
    BY <1>4 DEF Foreign
  <2>3. ~Live(conn[d].last) => ~Live(conn[d].last)'
    BY <1>5, <1>6, <2>1 DEF Live
  <2> QED
    BY <1>4, <1>6, <2>1, <2>2, <2>3 DEF Succeeds
<1>12. Pointed'
  <2> SUFFICES ASSUME NEW u \in Turns, Inside(u)' PROVE conn'[turn[u].by].agent = turn[u].cid
    BY <1>4 DEF Pointed, AgentOn
  <2>1. CASE u = t
    BY <1>1, <1>2, <1>3, <2>1 DEF Inside, b
  <2>2. CASE u # t
    <3>1. Inside(u) /\ Live(u) /\ conn[turn[u].by].agent = turn[u].cid
      BY <1>2, <1>8, <2>2 DEF Inside, HomeInv, Pointed, AgentOn
    <3>2. CASE turn[u].by # b
      BY <1>3, <1>7, <3>1, <3>2
    <3>3. CASE turn[u].by = b
      <4>1. ~Live(t)
        BY <2>2, <3>1, <3>3 DEF HomeInv, LastOnly, b
      <4> QED
        BY <1>1, <1>3, <3>1, <3>3, <4>1 DEF b
    <3> QED
      BY <3>2, <3>3
  <2> QED
    BY <2>1, <2>2
<1>13. TurnsStayHome'
  BY <1>2 DEF HomeInv, TurnsStayHome
<1> QED
  BY <1>9, <1>10, <1>11, <1>12, <1>13 DEF HomeInv

LEMMA TurnQuiet ==
  ASSUME IInv, HomeInv, NEW t \in Turns, Begun(t), NEW r, UNCHANGED conn,
         turn' = [turn EXCEPT ![t] = r],
         r.cid = turn[t].cid, r.by = turn[t].by, r.pc # "none",
         r.pc # "done" => Live(t),
         r.pc \in {"starting", "running", "announcing", "asking", "saving"} => Inside(t),
         r.thread = turn[t].thread \/ (Inside(t) /\ r.thread = AgentOn(t)),
         r.reply = turn[t].reply \/ (Inside(t) /\ r.reply = AgentOn(t)),
         \A cid \in Cids : gen'[cid] \in {gen[cid], None}
  PROVE  HomeInv'
<1> DEFINE a == conn[turn[t].by]
<1>1. conn' = [conn EXCEPT ![turn[t].by] = a]
  BY DEF IInv, TypeOK
<1>2. Inside(t) => AgentOn(t) = turn[t].cid
  BY DEF HomeInv, Pointed
<1>3. {r.thread, r.reply} \subseteq {None, turn[t].cid}
  BY <1>2 DEF HomeInv, TurnsStayHome
<1>4. r.pc \in {"starting", "running", "announcing", "asking", "saving"} => a.agent = turn[t].cid
  BY <1>2 DEF AgentOn
<1> HIDE DEF a
<1>5. a = conn[turn[t].by]
  BY DEF a
<1> QED
  BY <1>1, <1>3, <1>4, <1>5, TurnHome

LEMMA TurnStepHome ==
  ASSUME IInv, HomeInv, NEW t \in Turns, TurnStep(t)
  PROVE  HomeInv'
<1>1. turn[t] \in TurnRecords /\ t # None
  BY ChatAssumption DEF ChatAssumption, IInv, TypeOK
<1>2. Begun(t) /\ (turn[t].pc # "done" => Live(t))
  BY <1>1 DEF TurnStep, TurnStarts, TurnLocks, TurnRuns, TurnAsks, TurnAnnounced, TurnResumes, TurnReturns,
              TurnFails, TurnIsCancelled, TurnEnds, TurnGivesUp, TurnNeverRuns, Begun, Live
<1>3. turn[t].by \in Conns /\ conn[turn[t].by] \in ConnRecords
  BY <1>2 DEF Begun, IInv, TypeOK, Shaped, TurnsShaped
<1>4. Unregister(t) => \A cid \in Cids : gen'[cid] \in {gen[cid], None}
  BY DEF Unregister, IInv, TypeOK
<1>5. CASE TurnRuns(t)
  <2> DEFINE r == [turn[t] EXCEPT !.pc = "running", !.thread = AgentOn(t)]
  <2>1. /\ turn' = [turn EXCEPT ![t] = r] /\ UNCHANGED conn
        /\ \A cid \in Cids : gen'[cid] \in {gen[cid], None}
    BY <1>4, <1>5 DEF TurnRuns
  <2>2. /\ r.cid = turn[t].cid /\ r.by = turn[t].by /\ r.pc # "none"
        /\ r.pc # "done" => Live(t)
        /\ r.pc \in {"starting", "running", "announcing", "asking", "saving"} => Inside(t)
        /\ r.thread = turn[t].thread \/ (Inside(t) /\ r.thread = AgentOn(t))
        /\ r.reply = turn[t].reply \/ (Inside(t) /\ r.reply = AgentOn(t))
    BY <1>1, <1>2, <1>5 DEF TurnRuns, TurnRecords, Inside
  <2> HIDE DEF r
  <2> QED
    BY <1>2, <2>1, <2>2, TurnQuiet
<1>6. CASE TurnAsks(t)
  <2> DEFINE r == [turn[t] EXCEPT !.pc = "announcing", !.asks = @ + 1, !.crowd = Cardinality(Clients)]
  <2>1. /\ turn' = [turn EXCEPT ![t] = r] /\ UNCHANGED conn
        /\ \A cid \in Cids : gen'[cid] \in {gen[cid], None}
    BY <1>4, <1>6 DEF TurnAsks
  <2>2. /\ r.cid = turn[t].cid /\ r.by = turn[t].by /\ r.pc # "none"
        /\ r.pc # "done" => Live(t)
        /\ r.pc \in {"starting", "running", "announcing", "asking", "saving"} => Inside(t)
        /\ r.thread = turn[t].thread \/ (Inside(t) /\ r.thread = AgentOn(t))
        /\ r.reply = turn[t].reply \/ (Inside(t) /\ r.reply = AgentOn(t))
    BY <1>1, <1>2, <1>6 DEF TurnAsks, TurnRecords, Inside
  <2> HIDE DEF r
  <2> QED
    BY <1>2, <2>1, <2>2, TurnQuiet
<1>7. CASE TurnAnnounced(t)
  <2> DEFINE r == [turn[t] EXCEPT !.pc = "asking"]
  <2>1. /\ turn' = [turn EXCEPT ![t] = r] /\ UNCHANGED conn
        /\ \A cid \in Cids : gen'[cid] \in {gen[cid], None}
    BY <1>4, <1>7 DEF TurnAnnounced
  <2>2. /\ r.cid = turn[t].cid /\ r.by = turn[t].by /\ r.pc # "none"
        /\ r.pc # "done" => Live(t)
        /\ r.pc \in {"starting", "running", "announcing", "asking", "saving"} => Inside(t)
        /\ r.thread = turn[t].thread \/ (Inside(t) /\ r.thread = AgentOn(t))
        /\ r.reply = turn[t].reply \/ (Inside(t) /\ r.reply = AgentOn(t))
    BY <1>1, <1>2, <1>7 DEF TurnAnnounced, TurnRecords, Inside
  <2> HIDE DEF r
  <2> QED
    BY <1>2, <2>1, <2>2, TurnQuiet
<1>8. CASE TurnResumes(t)
  <2> DEFINE r == [turn[t] EXCEPT !.pc = "running"]
  <2>1. /\ turn' = [turn EXCEPT ![t] = r] /\ UNCHANGED conn
        /\ \A cid \in Cids : gen'[cid] \in {gen[cid], None}
    BY <1>4, <1>8 DEF TurnResumes
  <2>2. /\ r.cid = turn[t].cid /\ r.by = turn[t].by /\ r.pc # "none"
        /\ r.pc # "done" => Live(t)
        /\ r.pc \in {"starting", "running", "announcing", "asking", "saving"} => Inside(t)
        /\ r.thread = turn[t].thread \/ (Inside(t) /\ r.thread = AgentOn(t))
        /\ r.reply = turn[t].reply \/ (Inside(t) /\ r.reply = AgentOn(t))
    BY <1>1, <1>2, <1>8 DEF TurnResumes, TurnRecords, Inside
  <2> HIDE DEF r
  <2> QED
    BY <1>2, <2>1, <2>2, TurnQuiet
<1>9. CASE TurnReturns(t)
  <2> DEFINE r == [turn[t] EXCEPT !.pc = "done", !.reply = AgentOn(t)]
  <2>1. /\ turn' = [turn EXCEPT ![t] = r] /\ UNCHANGED conn
        /\ \A cid \in Cids : gen'[cid] \in {gen[cid], None}
    BY <1>4, <1>9 DEF TurnReturns
  <2>2. /\ r.cid = turn[t].cid /\ r.by = turn[t].by /\ r.pc # "none"
        /\ r.pc # "done" => Live(t)
        /\ r.pc \in {"starting", "running", "announcing", "asking", "saving"} => Inside(t)
        /\ r.thread = turn[t].thread \/ (Inside(t) /\ r.thread = AgentOn(t))
        /\ r.reply = turn[t].reply \/ (Inside(t) /\ r.reply = AgentOn(t))
    BY <1>1, <1>2, <1>9 DEF TurnReturns, TurnRecords, Inside
  <2> HIDE DEF r
  <2> QED
    BY <1>2, <2>1, <2>2, TurnQuiet
<1>10. CASE TurnFails(t)
  <2> DEFINE r == [turn[t] EXCEPT !.pc = "saving", !.reply = IF turn[t].thread = None THEN @ ELSE AgentOn(t)]
  <2>1. /\ turn' = [turn EXCEPT ![t] = r] /\ UNCHANGED conn
        /\ \A cid \in Cids : gen'[cid] \in {gen[cid], None}
    BY <1>4, <1>10 DEF TurnFails, Interrupt
  <2>2. /\ r.cid = turn[t].cid /\ r.by = turn[t].by /\ r.pc # "none"
        /\ r.pc # "done" => Live(t)
        /\ r.pc \in {"starting", "running", "announcing", "asking", "saving"} => Inside(t)
        /\ r.thread = turn[t].thread \/ (Inside(t) /\ r.thread = AgentOn(t))
        /\ r.reply = turn[t].reply \/ (Inside(t) /\ r.reply = AgentOn(t))
    BY <1>1, <1>2, <1>10 DEF TurnFails, TurnRecords, Inside
  <2> HIDE DEF r
  <2> QED
    BY <1>2, <2>1, <2>2, TurnQuiet
<1>11. CASE TurnIsCancelled(t)
  <2> DEFINE r == [turn[t] EXCEPT !.pc = "saving", !.reply = IF turn[t].thread = None THEN @ ELSE AgentOn(t)]
  <2>1. /\ turn' = [turn EXCEPT ![t] = r] /\ UNCHANGED conn
        /\ \A cid \in Cids : gen'[cid] \in {gen[cid], None}
    BY <1>4, <1>11 DEF TurnIsCancelled, Interrupt
  <2>2. /\ r.cid = turn[t].cid /\ r.by = turn[t].by /\ r.pc # "none"
        /\ r.pc # "done" => Live(t)
        /\ r.pc \in {"starting", "running", "announcing", "asking", "saving"} => Inside(t)
        /\ r.thread = turn[t].thread \/ (Inside(t) /\ r.thread = AgentOn(t))
        /\ r.reply = turn[t].reply \/ (Inside(t) /\ r.reply = AgentOn(t))
    BY <1>1, <1>2, <1>11 DEF TurnIsCancelled, TurnRecords, Inside
  <2> HIDE DEF r
  <2> QED
    BY <1>2, <2>1, <2>2, TurnQuiet
<1>12. CASE TurnEnds(t)
  <2> DEFINE r == [turn[t] EXCEPT !.pc = "done"]
  <2>1. /\ turn' = [turn EXCEPT ![t] = r] /\ UNCHANGED conn
        /\ \A cid \in Cids : gen'[cid] \in {gen[cid], None}
    BY <1>4, <1>12 DEF TurnEnds
  <2>2. /\ r.cid = turn[t].cid /\ r.by = turn[t].by /\ r.pc # "none"
        /\ r.pc # "done" => Live(t)
        /\ r.pc \in {"starting", "running", "announcing", "asking", "saving"} => Inside(t)
        /\ r.thread = turn[t].thread \/ (Inside(t) /\ r.thread = AgentOn(t))
        /\ r.reply = turn[t].reply \/ (Inside(t) /\ r.reply = AgentOn(t))
    BY <1>1, <1>2, <1>12 DEF TurnEnds, TurnRecords, Inside
  <2> HIDE DEF r
  <2> QED
    BY <1>2, <2>1, <2>2, TurnQuiet
<1>13. CASE TurnGivesUp(t)
  <2> DEFINE r == [turn[t] EXCEPT !.pc = "done"]
  <2>1. /\ turn' = [turn EXCEPT ![t] = r] /\ UNCHANGED conn
        /\ \A cid \in Cids : gen'[cid] \in {gen[cid], None}
    BY <1>4, <1>13 DEF TurnGivesUp
  <2>2. /\ r.cid = turn[t].cid /\ r.by = turn[t].by /\ r.pc # "none"
        /\ r.pc # "done" => Live(t)
        /\ r.pc \in {"starting", "running", "announcing", "asking", "saving"} => Inside(t)
        /\ r.thread = turn[t].thread \/ (Inside(t) /\ r.thread = AgentOn(t))
        /\ r.reply = turn[t].reply \/ (Inside(t) /\ r.reply = AgentOn(t))
    BY <1>1, <1>2, <1>13 DEF TurnGivesUp, TurnRecords, Inside
  <2> HIDE DEF r
  <2> QED
    BY <1>2, <2>1, <2>2, TurnQuiet
<1>14. CASE TurnNeverRuns(t)
  <2> DEFINE r == [turn[t] EXCEPT !.pc = "done"]
  <2>1. /\ turn' = [turn EXCEPT ![t] = r] /\ UNCHANGED conn
        /\ \A cid \in Cids : gen'[cid] \in {gen[cid], None}
    BY <1>4, <1>14 DEF TurnNeverRuns
  <2>2. /\ r.cid = turn[t].cid /\ r.by = turn[t].by /\ r.pc # "none"
        /\ r.pc # "done" => Live(t)
        /\ r.pc \in {"starting", "running", "announcing", "asking", "saving"} => Inside(t)
        /\ r.thread = turn[t].thread \/ (Inside(t) /\ r.thread = AgentOn(t))
        /\ r.reply = turn[t].reply \/ (Inside(t) /\ r.reply = AgentOn(t))
    BY <1>1, <1>2, <1>14 DEF TurnNeverRuns, TurnRecords, Inside
  <2> HIDE DEF r
  <2> QED
    BY <1>2, <2>1, <2>2, TurnQuiet
<1>15. CASE TurnStarts(t) \/ TurnLocks(t)
  <2>1. CASE Enter(t)
    <3> DEFINE r == [turn[t] EXCEPT !.pc = "starting"]
               a == [conn[turn[t].by] EXCEPT !.agent = turn[t].cid]
    <3>1. /\ turn' = [turn EXCEPT ![t] = r] /\ conn' = [conn EXCEPT ![turn[t].by] = a]
          /\ \A cid \in Cids : gen'[cid] \in {gen[cid], None}
      BY <1>15, <2>1 DEF Enter, TurnStarts, TurnLocks
    <3>2. /\ r.cid = turn[t].cid /\ r.by = turn[t].by /\ r.pc = "starting"
          /\ r.thread = turn[t].thread /\ r.reply = turn[t].reply
      BY <1>1 DEF TurnRecords
    <3>3. /\ a.pc = conn[turn[t].by].pc /\ a.cid = conn[turn[t].by].cid
          /\ a.on = conn[turn[t].by].on /\ a.last = conn[turn[t].by].last
          /\ a.agent = turn[t].cid
      BY <1>3 DEF ConnRecords
    <3>4. Live(t) /\ {r.thread, r.reply} \subseteq {None, turn[t].cid}
      BY <1>2, <1>15, <3>2 DEF TurnStarts, TurnLocks, HomeInv, TurnsStayHome
    <3> HIDE DEF r, a
    <3> QED
      BY <1>2, <3>1, <3>2, <3>3, <3>4, TurnHome
  <2>2. CASE ~Enter(t)
    <3> DEFINE r == [turn[t] EXCEPT !.pc = "queued"]
    <3>1. /\ turn' = [turn EXCEPT ![t] = r] /\ UNCHANGED conn
          /\ \A cid \in Cids : gen'[cid] \in {gen[cid], None}
      BY <1>15, <2>2 DEF TurnStarts, TurnLocks
    <3>2. /\ r.cid = turn[t].cid /\ r.by = turn[t].by /\ r.pc = "queued"
          /\ r.thread = turn[t].thread /\ r.reply = turn[t].reply
      BY <1>1 DEF TurnRecords
    <3>3. Live(t)
      BY <1>2, <1>15 DEF TurnStarts, TurnLocks
    <3> HIDE DEF r
    <3> QED
      BY <1>2, <3>1, <3>2, <3>3, TurnQuiet
  <2> QED
    BY <2>1, <2>2
<1> QED
  BY <1>5, <1>6, <1>7, <1>8, <1>9, <1>10, <1>11, <1>12, <1>13, <1>14, <1>15 DEF TurnStep

\* A turn that a connection starts is the only live one of the connection.
LEMMA StartsAlone ==
  ASSUME IInv, HomeInv, OneConnectionEach', NEW c \in Conns, NEW cid \in Cids, StartTurn(c, cid),
         ~Live(conn[c].last) \/ Foreign(c, cid)
  PROVE  HomeInv'
<1>1. CASE ~Live(conn[c].last)
  BY <1>1, StartHome
<1>2. CASE Foreign(c, cid)
  <2>1. PICK u \in Turns : Begun(u) /\ turn[u].cid = cid /\ turn[u].by # c
    BY <1>2 DEF Foreign
  <2>2. PICK t \in Unused : turn' = [turn EXCEPT ![t] = TurnAt("created", cid, c)]
    BY DEF StartTurn
  <2>3. t \in Turns /\ t # u /\ turn \in [Turns -> TurnRecords]
    BY <2>1, <2>2 DEF Unused, Begun, IInv, TypeOK
  <2>4. /\ turn'[u] = turn[u] /\ turn'[t].pc = "created" /\ turn'[t].cid = cid /\ turn'[t].by = c
    BY <2>2, <2>3 DEF TurnAt
  <2> QED
    BY <2>1, <2>3, <2>4 DEF OneConnectionEach, Begun
<1> QED
  BY <1>1, <1>2

LEMMA ParkHome ==
  ASSUME IInv, HomeInv, NEW c \in Conns, NEW pc \in {"reading", "waiting", "checking"}, NEW cid, NEW on,
         Park(c, pc, cid, on),
         pc = "waiting" => on = conn[c].last \/ Foreign(c, cid),
         pc = "checking" => ~Live(conn[c].last) \/ Foreign(c, cid)
  PROVE  HomeInv'
<1> DEFINE r == [conn[c] EXCEPT !.pc = pc, !.cid = cid, !.on = on]
<1>1. /\ r.pc = pc /\ r.cid = cid /\ r.on = on /\ r.agent = conn[c].agent /\ r.last = conn[c].last
  BY DEF IInv, TypeOK, ConnRecords
<1>2. conn' = [conn EXCEPT ![c] = r] /\ UNCHANGED <<turn, gen>>
  BY DEF Park
<1> HIDE DEF r
<1> QED
  BY <1>1, <1>2, HandlerHome

LEMMA ProceedHome ==
  ASSUME IInv, HomeInv, OneConnectionEach', NEW c \in Conns, NEW cid \in Cids, Proceed(c, cid),
         ~Live(conn[c].last) \/ Foreign(c, cid)
  PROVE  HomeInv'
BY StartsAlone, ParkHome DEF Proceed

LEMMA ConnStepHome ==
  ASSUME IInv, HomeInv, OneConnectionEach', NEW c \in Conns,
         Connect(c) \/ Disconnect(c) \/ Receive(c) \/ HandlerResumes(c)
  PROVE  HomeInv'
<1>1. conn[c] \in ConnRecords /\ Succeeds(c)
  BY DEF IInv, TypeOK, HomeInv
<1>2. CASE Connect(c) \/ Disconnect(c)
  <2> DEFINE r == [conn[c] EXCEPT !.pc = IF Connect(c) THEN "reading" ELSE "gone"]
  <2>1. conn' = [conn EXCEPT ![c] = r] /\ UNCHANGED <<turn, gen>>
    BY <1>2 DEF Connect, Disconnect
  <2>2. r.pc \in {"reading", "gone"} /\ r.agent = conn[c].agent /\ r.last = conn[c].last
    BY <1>1 DEF ConnRecords
  <2> HIDE DEF r
  <2> QED
    BY <2>1, <2>2, HandlerHome
<1>3. ASSUME NEW cid \in Cids, Message(c, cid) PROVE HomeInv'
  <2> DEFINE on == Predecessor(c, cid)
  <2>1. IF on = None THEN Proceed(c, cid) ELSE Park(c, "waiting", cid, on)
    BY <1>3 DEF Message
  <2>2. Live(gen[cid]) => gen[cid] \in Turns /\ Begun(gen[cid]) /\ turn[gen[cid]].cid = cid
    BY DEF HomeInv, Registered, IInv, TypeOK, Live
  <2>3. Live(gen[cid]) => gen[cid] = conn[c].last \/ Foreign(c, cid)
    BY <2>2 DEF HomeInv, LastOnly, Foreign
  <2>4. on = None => ~Live(conn[c].last)
    BY DEF Predecessor, Live
  <2>5. on # None => on = conn[c].last \/ Foreign(c, cid)
    BY <2>3 DEF Predecessor
  <2> HIDE DEF on
  <2> QED
    BY <2>1, <2>4, <2>5, ProceedHome, ParkHome
<1>4. CASE Waited(c)
  <2>1. conn[c].cid \in Cids
    BY <1>4 DEF Waited, IInv, Shaped, OthersShaped
  <2> QED
    BY <1>1, <1>4, <2>1, ProceedHome DEF Waited, Succeeds
<1>5. CASE Checked(c)
  <2>1. conn[c].cid \in Cids
    BY <1>5 DEF Checked, IInv, Shaped, OthersShaped
  <2> QED
    BY <1>1, <1>5, <2>1, StartsAlone, ParkHome DEF Checked, Succeeds
<1>6. CASE Stopped(c)
  BY <1>6, ParkHome DEF Stopped
<1>7. ASSUME NEW cid \in Cids \cup {None}, Stop(c, cid) PROVE HomeInv'
  <2> DEFINE t == StopTarget(c, cid)
             r == [conn[c] EXCEPT !.pc = "stopping", !.cid = cid, !.on = t]
             s == [turn[t] EXCEPT !.cancelled = TRUE]
  <2>1. /\ Live(t) /\ turn' = [turn EXCEPT ![t] = s] /\ conn' = [conn EXCEPT ![c] = r] /\ UNCHANGED gen
    BY <1>7 DEF Stop
  <2>2. t \in Turns /\ turn[t] \in TurnRecords
    BY <1>1, <2>1 DEF StopTarget, IInv, TypeOK, Live, ConnRecords
  <2>3. \A u \in Turns : /\ turn'[u].pc = turn[u].pc /\ turn'[u].cid = turn[u].cid /\ turn'[u].by = turn[u].by
                         /\ turn'[u].thread = turn[u].thread /\ turn'[u].reply = turn[u].reply
    BY <2>1, <2>2 DEF TurnRecords, IInv, TypeOK
  <2>4. r.pc = "stopping" /\ r.agent = conn[c].agent /\ r.last = conn[c].last
    BY <1>1 DEF ConnRecords
  <2> HIDE DEF t, r, s
  <2>5. \A d \in Conns : /\ conn'[d].agent = conn[d].agent /\ conn'[d].last = conn[d].last
                         /\ IF d = c THEN conn'[d].pc = "stopping" ELSE conn'[d] = conn[d]
    BY <2>1, <2>4 DEF IInv, TypeOK
  <2>6. \A u \in Turns : Begun(u)' = Begun(u) /\ Live(u)' = Live(u) /\ Inside(u)' = Inside(u)
    BY <2>3 DEF Begun, Live, Inside
  <2>7. \A u \in Turns : Live(u) \/ Inside(u) => turn[u].by \in Conns
    BY DEF IInv, Shaped, TurnsShaped, Live, Inside
  <2>8. Registered' /\ TurnsStayHome'
    BY <2>1, <2>3, <2>6 DEF HomeInv, Registered, TurnsStayHome, IInv, TypeOK
  <2>9. LastOnly' /\ Pointed'
    BY <2>3, <2>5, <2>6, <2>7 DEF HomeInv, LastOnly, Pointed, AgentOn
  <2>10. \A d \in Conns : Succeeds(d)'
    <3> SUFFICES ASSUME NEW d \in Conns PROVE Succeeds(d)'
      OBVIOUS
    <3>1. Succeeds(d) /\ conn[d].last \in Turns \cup {None}
      BY DEF HomeInv, IInv, TypeOK, ConnRecords
    <3>2. \A e : Foreign(d, e) => Foreign(d, e)'
      BY <2>3, <2>6 DEF Foreign
    <3>3. ~Live(conn[d].last) => ~Live(conn[d].last)'
      BY <2>5, <2>6, <3>1 DEF Live
    <3> QED
      BY <2>5, <2>6, <3>1, <3>2, <3>3 DEF Succeeds
  <2> QED
    BY <2>8, <2>9, <2>10 DEF HomeInv
<1>8. ASSUME NEW t \in Turns, NEW verdict \in Broker!Verdicts, Respond(c, t, verdict) PROVE HomeInv'
  BY <1>8, HomeUntouched DEF Respond
<1> QED
  BY <1>2, <1>3, <1>4, <1>5, <1>6, <1>7, <1>8 DEF Receive, HandlerResumes

LEMMA HomeStep ==
  ASSUME IInv, HomeInv, OneConnectionEach', [Next]_vars
  PROVE  HomeInv'
<1>1. CASE \E c \in Conns : Connect(c) \/ Disconnect(c) \/ Receive(c) \/ HandlerResumes(c)
  BY <1>1, ConnStepHome
<1>2. CASE \E t \in Turns : TurnStep(t)
  BY <1>2, TurnStepHome
<1>3. CASE \E r \in Requests : RequestTimesOut(r)
  BY <1>3, HomeUntouched DEF RequestTimesOut
<1>4. CASE \E g \in Guests : (\E kind \in {"run", "clear", "delete"}, cid \in Cids : GuestArrives(g, kind, cid))
                             \/ GuestStep(g)
  BY <1>4, HomeUntouched DEF GuestArrives, GuestStep, GuestEnters, GuestRefused, GuestLeaves
<1>5. CASE UNCHANGED vars
  BY <1>5, HomeUntouched DEF vars
<1> QED
  BY <1>1, <1>2, <1>3, <1>4, <1>5 DEF Next

LEMMA InitHome == Init => HomeInv
<1> SUFFICES ASSUME Init PROVE HomeInv
  OBVIOUS
<1>1. \A t \in Turns : turn[t].pc = "none" /\ turn[t].thread = None /\ turn[t].reply = None
  BY DEF Init, TurnAt
<1>2. \A c \in Conns : conn[c].pc = "new" /\ conn[c].last = None
  BY DEF Init
<1>3. \A cid \in Cids : gen[cid] = None
  BY DEF Init
<1> QED
  BY <1>1, <1>2, <1>3 DEF HomeInv, Registered, LastOnly, Succeeds, Pointed, TurnsStayHome, Live, Inside

(* As long as every conversation is used on one connection only, each turn runs on
   its conversation's thread and replies to its conversation, although the turns of
   a connection share an agent that every start points elsewhere. *)
THEOREM TurnsStayHomeHolds == Spec /\ []OneConnectionEach => []TurnsStayHome
<1>1. IInv /\ HomeInv /\ OneConnectionEach' /\ [Next]_vars => HomeInv'
  BY HomeStep
<1>2. HomeInv => TurnsStayHome
  BY DEF HomeInv
<1> QED
  BY InitHome, IInvHolds, <1>1, <1>2, PTL DEF Spec
==============================================================================
