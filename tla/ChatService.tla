----------------------------- MODULE ChatService -----------------------------
(***************************************************************************)
(* The chat service: the turns of ChatTurns, the connections' handler      *)
(* loops that start, stop and answer them (api/websocket.py,               *)
(* websocket_chat), and the requests of the other entries that take the    *)
(* same conversation locks: an agent run (HTTP /chat, WeChat, a prompt     *)
(* task), "clear messages" and "delete" (routes/conversations.py, data.py).*)
(* QQ's turns take no lock; they are in ConversationStore.                 *)
(*                                                                         *)
(* A handler takes one message at a time and notices that its peer is gone *)
(* only when it receives.  Messages it answers without changing anything   *)
(* (ping, snapshots, busy, errors) are stuttering.                         *)
(***************************************************************************)
EXTENDS ChatTurns

VARIABLES
  guest,  \* the other entries' requests
  stored  \* conversations in the repository

vars == <<turn, gen, streams, conn, queue, pending, answers, executed, threads, guest, stored>>

\* on: the turn it awaits; last: last_started_task; agent: see AgentOn.
ConnRecords ==
  [pc : {"new", "reading", "waiting", "checking", "stopping", "gone"},
   cid : Cids \cup {None}, on : Turns \cup {None}, last : Turns \cup {None},
   agent : Cids \cup {None}]

GuestRecords ==
  [pc : {"idle", "queued", "inside"}, kind : {"run", "clear", "delete"},
   cid : Cids \cup {None}]

NoGuest == [pc |-> "idle", kind |-> "run", cid |-> None]

Init ==
  /\ turn = [t \in Turns |-> TurnAt("none", None, None)]
  /\ gen = [c \in Cids |-> None] /\ streams = [c \in Cids |-> None]
  /\ conn = [c \in Conns |-> [pc |-> "new", cid |-> None, on |-> None, last |-> None,
                              agent |-> None]]
  /\ queue = [c \in Cids |-> <<>>]
  /\ pending = Broker!NothingPending /\ answers = {} /\ executed = {}
  /\ threads = {} /\ stored = Cids
  /\ guest = [g \in Guests |-> NoGuest]

------------------------------------------------------------------------------
(* The handler loop of a connection *)

Connect(c) ==
  /\ conn[c].pc = "new"
  /\ conn' = [conn EXCEPT ![c].pc = "reading"]
  /\ UNCHANGED <<turn, gen, streams, queue, pending, answers, executed, threads, guest, stored>>

\* The turns it started go on.
Disconnect(c) ==
  /\ conn[c].pc = "reading"
  /\ conn' = [conn EXCEPT ![c].pc = "gone"]
  /\ UNCHANGED <<turn, gen, streams, queue, pending, answers, executed, threads, guest, stored>>

Unused == {t \in Turns : turn[t].pc = "none"}

\* Bound: a message is accepted while there is a turn left for it.
TurnsLeft == Cardinality({c \in Conns : conn[c].pc \in {"waiting", "checking"}}) < Cardinality(Unused)

\* create_task, and the task is registered over whatever was registered.
StartTurn(c, cid) ==
  /\ \E t \in Unused :
       /\ turn' = [turn EXCEPT ![t] = TurnAt("created", cid, c)]
       /\ gen' = [gen EXCEPT ![cid] = t]
       /\ conn' = [conn EXCEPT ![c] = [@ EXCEPT !.pc = "reading", !.cid = None, !.on = None,
                                                !.last = t]]
  /\ UNCHANGED <<streams, queue, pending, answers, executed, threads, guest, stored>>

Park(c, pc, cid, on) ==
  /\ conn' = [conn EXCEPT ![c] = [@ EXCEPT !.pc = pc, !.cid = cid, !.on = on]]
  /\ UNCHANGED <<turn, gen, streams, queue, pending, answers, executed, threads, guest, stored>>

\* With attachments their records are looked up before the turn starts.
Proceed(c, cid) == StartTurn(c, cid) \/ Park(c, "checking", cid, None)

\* A slip: turns of other conversations are not waited for.
PredecessorHere(c, cid) == IF Live(gen[cid]) THEN gen[cid] ELSE None

\* The turn to wait for: the conversation's, or else the connection's last one.
Predecessor(c, cid) ==
  IF Live(gen[cid]) THEN gen[cid] ELSE IF Live(conn[c].last) THEN conn[c].last ELSE None

CardsOf(cid) == {r \in Requests : turn[r[1]].cid = cid}

\* A message to a conversation that exists and does not await an approval.
Message(c, cid) ==
  /\ conn[c].pc = "reading" /\ TurnsLeft
  /\ cid \in stored
  /\ ~Broker!PendingFor(CardsOf(cid))
  /\ LET on == Predecessor(c, cid)
     IN  IF on = None THEN Proceed(c, cid) ELSE Park(c, "waiting", cid, on)

\* _wait_task_cleared returns; nothing is looked at again.
Waited(c) ==
  /\ conn[c].pc = "waiting" /\ ~Live(conn[c].on)
  /\ Proceed(c, conn[c].cid)

\* The attachments are all there, or the message is refused.
Checked(c) ==
  /\ conn[c].pc = "checking"
  /\ StartTurn(c, conn[c].cid) \/ Park(c, "reading", None, None)

\* {"stop": true} with a conversation id or (None) without.
StopTarget(c, cid) ==
  IF cid # None /\ gen[cid] # None THEN gen[cid] ELSE conn[c].last

Stop(c, cid) ==
  /\ conn[c].pc = "reading"
  /\ LET t == StopTarget(c, cid)
     IN  /\ Live(t)
         /\ turn' = [turn EXCEPT ![t].cancelled = TRUE]
         /\ conn' = [conn EXCEPT ![c] = [@ EXCEPT !.pc = "stopping", !.cid = cid, !.on = t]]
  /\ UNCHANGED <<gen, streams, queue, pending, answers, executed, threads, guest, stored>>

Stopped(c) ==
  /\ conn[c].pc = "stopping" /\ ~Live(conn[c].on)
  /\ Park(c, "reading", None, None)

\* A user who sees the card of a request answers it; the answer settles the request
\* or, when the turn has not registered it yet, is refused.
Respond(c, t, verdict) ==
  /\ conn[c].pc = "reading"
  /\ turn[t].pc \in {"announcing", "asking"}
  /\ \/ Broker!Resolve(Card(t), verdict)
     \/ pending[Card(t)] = "absent" /\ UNCHANGED pending
  /\ answers' = answers \cup {<<Card(t), verdict>>}
  /\ UNCHANGED <<turn, gen, streams, conn, queue, executed, threads, guest, stored>>

------------------------------------------------------------------------------
(* The other entries *)

\* Bound: Guests is how many are under way at a time, not in all.
\* The conversation is looked up (by "run" alone) and its lock asked for.
GuestArrives(g, kind, cid) ==
  /\ guest[g].pc = "idle"
  /\ kind = "run" => cid \in stored
  /\ guest' = [guest EXCEPT ![g] = [pc |-> "queued", kind |-> kind, cid |-> cid]]
  /\ Lock!Join(g, cid)
  /\ UNCHANGED <<turn, gen, streams, conn, pending, answers, executed, threads, stored>>

\* A slip: it does not wait for the lock.
GuestBarges(g) ==
  LET cid == guest[g].cid
  IN  /\ guest[g].pc = "queued"
      /\ guest[g].kind # "run" => cid \in stored
      /\ guest' = [guest EXCEPT ![g].pc = "inside"]
      /\ threads' = IF guest[g].kind = "run" THEN threads \cup {cid} ELSE threads
      /\ stored' = IF guest[g].kind = "delete" THEN stored \ {cid} ELSE stored
      /\ UNCHANGED <<turn, gen, streams, conn, queue, pending, answers, executed>>

\* A run writes the checkpoint thread; a deletion removes the rows first.
GuestEnters(g) ==
  LET cid == guest[g].cid
  IN  /\ guest[g].pc = "queued" /\ Lock!Holds(g, cid)
      /\ guest[g].kind # "run" => cid \in stored
      /\ guest' = [guest EXCEPT ![g].pc = "inside"]
      /\ threads' = IF guest[g].kind = "run" THEN threads \cup {cid} ELSE threads
      /\ stored' = IF guest[g].kind = "delete" THEN stored \ {cid} ELSE stored
      /\ UNCHANGED <<turn, gen, streams, conn, queue, pending, answers, executed>>

\* 404 under the lock.
GuestRefused(g) ==
  LET cid == guest[g].cid
  IN  /\ guest[g].pc = "queued" /\ Lock!Holds(g, cid)
      /\ guest[g].kind # "run" /\ cid \notin stored
      /\ guest' = [guest EXCEPT ![g] = NoGuest]
      /\ Lock!Release(cid)
      /\ UNCHANGED <<turn, gen, streams, conn, pending, answers, executed, threads, stored>>

\* A clearing or a deletion drops the checkpoint thread last.
GuestLeaves(g) ==
  LET cid == guest[g].cid
  IN  /\ guest[g].pc = "inside"
      /\ guest' = [guest EXCEPT ![g] = NoGuest]
      /\ threads' = IF guest[g].kind = "run" THEN threads ELSE threads \ {cid}
      /\ Lock!Release(cid)
      /\ UNCHANGED <<turn, gen, streams, conn, pending, answers, executed, stored>>

GuestStep(g) == GuestEnters(g) \/ GuestRefused(g) \/ GuestLeaves(g)

------------------------------------------------------------------------------
(* The specification *)

HandlerResumes(c) == Waited(c) \/ Checked(c) \/ Stopped(c)

Receive(c) ==
  \/ \E cid \in Cids : Message(c, cid)
  \/ \E cid \in Cids \cup {None} : Stop(c, cid)
  \/ \E t \in Turns, verdict \in Broker!Verdicts : Respond(c, t, verdict)

Next ==
  \/ \E c \in Conns : Connect(c) \/ Disconnect(c) \/ Receive(c) \/ HandlerResumes(c)
  \/ ((\E t \in Turns : TurnStep(t)) \/ (\E r \in Requests : RequestTimesOut(r)))
     /\ UNCHANGED <<guest, stored>>
  \/ \E g \in Guests :
       \/ \E kind \in {"run", "clear", "delete"}, cid \in Cids : GuestArrives(g, kind, cid)
       \/ GuestStep(g)

Spec == Init /\ [][Next]_vars

(* asyncio resumes every task whose await is over; the model and the tools answer
   or fail; a request's timer fires.  Nothing is assumed of the users. *)
Fairness ==
  /\ \A t \in Turns : WF_vars(TurnStep(t) /\ UNCHANGED <<guest, stored>>)
  /\ \A r \in Requests : WF_vars(RequestTimesOut(r) /\ UNCHANGED <<guest, stored>>)
  /\ \A c \in Conns : WF_vars(HandlerResumes(c))
  /\ \A g \in Guests : WF_vars(GuestStep(g))

FairSpec == Spec /\ Fairness

------------------------------------------------------------------------------
(* Properties that hold *)

TypeOK ==
  /\ turn \in [Turns -> TurnRecords]
  /\ gen \in [Cids -> Turns \cup {None}]
  /\ streams \in [Cids -> Turns \cup {None}]
  /\ conn \in [Conns -> ConnRecords]
  /\ queue \in Lock!Queues
  /\ pending \in [Requests -> Broker!Entries]
  /\ answers \subseteq Requests \X Broker!Verdicts
  /\ executed \subseteq Requests
  /\ threads \subseteq Cids
  /\ guest \in [Guests -> GuestRecords]
  /\ stored \subseteq Cids

\* Who is inside `async with per_conversation_lock(cid)`.
Workers(cid) ==
  {t \in Turns : Inside(t) /\ turn[t].cid = cid}
    \cup {g \in Guests : guest[g].pc = "inside" /\ guest[g].cid = cid}

(* Whatever entries they come from and however they end or are cancelled, at most
   one turn or request works on a conversation (concurrency.py). *)
OneAtATime == \A cid \in Cids : \A u, v \in Workers(cid) : u = v

(* A tool that needs approval runs only after a user approved that very request:
   not because of its timer, of another turn's card, or of a cancellation that
   races the answer (PermissionBroker, _make_waiter). *)
ToolsNeedConsent == \A r \in executed : <<r, "approved">> \in answers

(* A conversation is refused messages as busy only while a turn of it waits for
   its user: no entry survives the turn, be it stopped or failed (wait's finally;
   an orphan would lock the conversation out for good). *)
BusyMeansAsking ==
  \A t \in Turns, n \in 1..MaxAsks :
    pending[<<t, n>>] # "absent" => turn[t].pc = "asking" /\ turn[t].asks = n

(* The first verdict on a request is the one that counts: a second tab or the
   timer does not change it before the turn has read it (resolve, _on_timeout). *)
FirstVerdictStands ==
  [][\A r \in Requests :
       Broker!Settled(r) => pending'[r] \in {pending[r], "absent"}]_vars

(* The stream a re-attaching connection is given belongs to a turn that is still
   going to feed and finish it (_turn_streams; the finally of _run_generation). *)
StreamsAreLive ==
  \A cid \in Cids : streams[cid] # None =>
    turn[streams[cid]].cid = cid /\ turn[streams[cid]].pc \notin {"none", "created", "done"}

(* A registration ends with its own turn or gives way to a newer one; the end of a
   turn that was overtaken leaves its successor's alone (_run_generation's identity
   checks). *)
EntriesOutliveOthers ==
  [][\A cid \in Cids :
       gen'[cid] # gen[cid] /\ gen[cid] # None =>
         \/ turn'[gen[cid]].pc = "done"
         \/ gen'[cid] # None /\ turn[gen'[cid]].pc = "none"]_vars

(* Nobody deletes or clears a conversation's checkpoint under a turn that is at
   work on it (routes/conversations.py: the same lock). *)
NotPulledAway ==
  [][\A t \in Turns :
       Inside(t) /\ turn[t].cid \in threads => turn[t].cid \in threads']_vars

(* A turn runs on its conversation's checkpoint and its reply goes to its
   conversation, although all turns of a connection share one agent that is
   re-pointed at every start.  It takes that a conversation is used on one
   connection only (see OneTurnPerClone). *)
TurnsStayHome ==
  \A t \in Turns : {turn[t].thread, turn[t].reply} \subseteq {None, turn[t].cid}

(* Every turn comes to an end, also behind others that wait for approvals nobody
   gives (the broker's timer). *)
TurnsEnd == \A t \in Turns : turn[t].pc = "created" ~> turn[t].pc = "done"

(* A handler that waits for a turn gets back to its connection. *)
HandlersReturn ==
  \A c \in Conns : conn[c].pc \in {"waiting", "checking", "stopping"} ~> conn[c].pc = "reading"

(* Both: neither a turn nor the handler behind it waits for ever, although the
   approval that the turn waits for comes through a handler (websocket_chat). *)
NobodyWaitsForEver == TurnsEnd /\ HandlersReturn

------------------------------------------------------------------------------
(* What the code says of itself and does not keep *)

(* No handler blocks on a turn that waits for an approval: the handler is what
   would receive it (websocket.py:692 and :792). *)
HandlersCanBeAnswered ==
  \A c \in Conns : conn[c].pc = "waiting" => turn[conn[c].on].pc # "asking"

(* An approval that comes before the request is registered is kept for it
   (permission_broker.py:31, "_early"). *)
EarlyAnswersCount ==
  \A r \in Requests : pending[r] = "denied" => <<r, "approved">> \notin answers

(* The turn at work on a conversation is the one registered for it, so that a stop
   from any connection reaches it (websocket.py:161, :615). *)
WorkingTurnIsRegistered == \A t \in Turns : Inside(t) => gen[turn[t].cid] = t

(* The turns of one connection are serial, they share an agent clone
   (websocket.py:620). *)
OneTurnPerClone ==
  \A t, u \in Turns : Inside(t) /\ Inside(u) /\ turn[t].by = turn[u].by => t = u

(* A stop that names a conversation stops a turn of that conversation; the
   connection's last turn is for a stop without one (websocket.py:639). *)
StopSparesOthers ==
  [][\A c \in Conns :
       conn[c].pc = "reading" /\ conn'[c].pc = "stopping" =>
         conn'[c].cid \in {None, turn[conn'[c].on].cid}]_vars

(* The checkpoint of a deleted conversation is not brought back by a turn that was
   under way (routes/conversations.py:470). *)
DeletedStaysDeleted ==
  \A cid \in Cids : cid \notin stored /\ Lock!IsFree(cid) => cid \notin threads
===============================================================================
