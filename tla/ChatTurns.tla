------------------------------ MODULE ChatTurns ------------------------------
(***************************************************************************)
(* api/websocket.py, _run_generation: the asyncio task of one chat turn.   *)
(* It belongs to the conversation it was sent to and to the connection it  *)
(* was sent on, whose agent clone it runs, and outlives the connection.    *)
(*                                                                         *)
(* A step runs from one await to the next.  The agent is external: after   *)
(* its start it produces text, asks for approvals (at most MaxAsks times), *)
(* and returns or raises.  Frames and their subscribers are left out.      *)
(***************************************************************************)
EXTENDS Naturals, Sequences, FiniteSets

CONSTANTS
  Cids,     \* conversations
  Conns,    \* WebSocket connections, each used once
  Turns,    \* bound: the turns that may be created
  Guests,   \* requests of the other entries that take a conversation's lock
  None,     \* no conversation, connection or turn
  MaxAsks   \* bound: approval requests of one turn

ASSUME ChatAssumption ==
  /\ None \notin Cids \cup Conns \cup Turns
  /\ Turns \cap Guests = {}
  /\ MaxAsks \in Nat
  /\ IsFiniteSet(Conns)

VARIABLES
  turn,     \* the generation tasks
  gen,      \* _generation_tasks: the task registered for a conversation
  streams,  \* _turn_streams: the turn whose stream is registered for it
  conn,     \* the connections' handlers, each with its agent clone
  queue,    \* the conversations' locks
  pending,  \* PermissionBroker._pending
  answers,  \* what users answered to which card, heeded or not
  executed, \* the requests whose tools were run
  threads   \* conversations with a LangGraph checkpoint thread

Requests == Turns \X (1..MaxAsks)

Lock   == INSTANCE ConversationLock WITH Users <- Turns \cup Guests
Broker == INSTANCE PermissionBroker

TurnPoints ==
  {"none", "created", "queued", "starting", "running", "announcing", "asking",
   "saving", "done"}

\* crowd: the size of _chat_ws_clients when the broadcast's iteration began;
\* thread: the checkpoint thread it runs on; reply: where its answer was stored.
TurnRecords ==
  [pc : TurnPoints, cid : Cids \cup {None}, by : Conns \cup {None}, cancelled : BOOLEAN,
   asks : 0..MaxAsks, crowd : Nat, thread : Cids \cup {None}, reply : Cids \cup {None}]

TurnAt(pc, cid, by) ==
  [pc |-> pc, cid |-> cid, by |-> by, cancelled |-> FALSE, asks |-> 0, crowd |-> 0,
   thread |-> None, reply |-> None]

Live(t) == t # None /\ turn[t].pc \notin {"none", "done"}

\* Inside `async with per_conversation_lock(cid)`.
Inside(t) == turn[t].pc \in {"starting", "running", "announcing", "asking", "saving"}

\* The request that t announces or awaits.
Card(t) == <<t, turn[t].asks>>

\* _chat_ws_clients.
Clients == {c \in Conns : conn[c].pc \notin {"new", "gone"}}

\* The clone's current_conversation_id.
AgentOn(t) == conn[turn[t].by].agent

------------------------------------------------------------------------------
(* Start *)

\* The clone is pointed at the conversation as soon as the lock is held.
Enter(t) ==
  /\ turn' = [turn EXCEPT ![t].pc = "starting"]
  /\ conn' = [conn EXCEPT ![turn[t].by].agent = turn[t].cid]

\* The task's first step: its stream replaces the one registered; a free lock is
\* taken without suspending.
TurnStarts(t) ==
  /\ turn[t].pc = "created" /\ ~turn[t].cancelled
  /\ streams' = [streams EXCEPT ![turn[t].cid] = t]
  /\ Lock!Join(t, turn[t].cid)
  /\ IF Lock!IsFree(turn[t].cid)
       THEN Enter(t)
       ELSE turn' = [turn EXCEPT ![t].pc = "queued"] /\ UNCHANGED conn
  /\ UNCHANGED <<gen, pending, answers, executed, threads>>

\* A slip: it does not wait for its predecessor.
TurnBarges(t) ==
  /\ turn[t].pc = "queued" /\ ~turn[t].cancelled
  /\ Enter(t)
  /\ UNCHANGED <<gen, streams, queue, pending, answers, executed, threads>>

TurnLocks(t) ==
  /\ turn[t].pc = "queued" /\ ~turn[t].cancelled
  /\ Lock!Holds(t, turn[t].cid)
  /\ Enter(t)
  /\ UNCHANGED <<gen, streams, queue, pending, answers, executed, threads>>

\* agent.stream: the user's message is stored and the graph started on the thread
\* of the conversation the clone is on by now.
TurnRuns(t) ==
  /\ turn[t].pc = "starting" /\ ~turn[t].cancelled
  /\ turn' = [turn EXCEPT ![t].pc = "running", ![t].thread = AgentOn(t)]
  /\ threads' = threads \cup {AgentOn(t)}
  /\ UNCHANGED <<gen, streams, conn, queue, pending, answers, executed>>

------------------------------------------------------------------------------
(* Approval *)

\* A permission_request event: the broadcast to all clients begins.
TurnAsks(t) ==
  /\ turn[t].pc = "running" /\ ~turn[t].cancelled /\ turn[t].asks < MaxAsks
  /\ turn' = [turn EXCEPT ![t].pc = "announcing", ![t].asks = @ + 1,
                          ![t].crowd = Cardinality(Clients)]
  /\ UNCHANGED <<gen, streams, conn, queue, pending, answers, executed, threads>>

\* The broadcast is over; the waiter registers the request and awaits it.
TurnAnnounced(t) ==
  /\ turn[t].pc = "announcing" /\ ~turn[t].cancelled
  /\ Cardinality(Clients) = turn[t].crowd
  /\ turn' = [turn EXCEPT ![t].pc = "asking"]
  /\ Broker!Register(Card(t))
  /\ UNCHANGED <<gen, streams, conn, queue, answers, executed, threads>>

\* The request is settled: it is discarded and the graph resumes with the decision.
TurnResumes(t) ==
  /\ turn[t].pc = "asking" /\ ~turn[t].cancelled /\ Broker!Settled(Card(t))
  /\ executed' = IF pending[Card(t)] = "approved" THEN executed \cup {Card(t)} ELSE executed
  /\ Broker!Discard(Card(t))
  /\ turn' = [turn EXCEPT ![t].pc = "running"]
  /\ UNCHANGED <<gen, streams, conn, queue, answers, threads>>

RequestTimesOut(r) ==
  /\ Broker!TimesOut(r)
  /\ UNCHANGED <<turn, gen, streams, conn, queue, answers, executed, threads>>

------------------------------------------------------------------------------
(* End *)

\* A slip: it clears the conversation's entries whoever they belong to.
UnregisterAny(t) ==
  /\ gen' = [gen EXCEPT ![turn[t].cid] = None]
  /\ streams' = [streams EXCEPT ![turn[t].cid] = None]

\* A slip: its stream stays registered.
UnregisterTask(t) ==
  /\ gen' = [gen EXCEPT ![turn[t].cid] = IF @ = t THEN None ELSE @]
  /\ UNCHANGED streams

\* The outer finally: only the turn's own entries go.
Unregister(t) ==
  /\ gen' = [gen EXCEPT ![turn[t].cid] = IF @ = t THEN None ELSE @]
  /\ streams' = [streams EXCEPT ![turn[t].cid] = IF @ = t THEN None ELSE @]

\* The stream is exhausted; the reply goes to the conversation the clone is on.
TurnReturns(t) ==
  /\ turn[t].pc = "running" /\ ~turn[t].cancelled
  /\ turn' = [turn EXCEPT ![t].pc = "done", ![t].reply = AgentOn(t)]
  /\ Unregister(t)
  /\ Lock!Release(turn[t].cid)
  /\ UNCHANGED <<conn, pending, answers, executed, threads>>

\* What was produced so far is stored, in the inner handlers, under the lock.
Interrupt(t) ==
  turn' = [turn EXCEPT ![t].pc = "saving",
                       ![t].reply = IF turn[t].thread = None THEN @ ELSE AgentOn(t)]

\* The agent raises, or _chat_ws_clients changed under its iteration.
TurnFails(t) ==
  /\ ~turn[t].cancelled
  /\ \/ turn[t].pc \in {"starting", "running"}
     \/ turn[t].pc = "announcing" /\ Cardinality(Clients) # turn[t].crowd
  /\ Interrupt(t)
  /\ UNCHANGED <<gen, streams, conn, queue, pending, answers, executed, threads>>

\* CancelledError at an await of the body.
TurnIsCancelled(t) ==
  /\ turn[t].cancelled
  /\ turn[t].pc \in {"starting", "running", "announcing", "asking"}
  /\ Interrupt(t)
  /\ IF turn[t].pc = "asking" THEN Broker!Discard(Card(t)) ELSE UNCHANGED pending
  /\ UNCHANGED <<gen, streams, conn, queue, answers, executed, threads>>

\* The partial reply is stored (or that await is cancelled, too).
TurnEnds(t) ==
  /\ turn[t].pc = "saving"
  /\ turn' = [turn EXCEPT ![t].pc = "done"]
  /\ Unregister(t)
  /\ Lock!Release(turn[t].cid)
  /\ UNCHANGED <<conn, pending, answers, executed, threads>>

\* Cancelled while it awaited the lock.
TurnGivesUp(t) ==
  /\ turn[t].pc = "queued" /\ turn[t].cancelled
  /\ turn' = [turn EXCEPT ![t].pc = "done"]
  /\ Unregister(t)
  /\ Lock!Abandon(t, turn[t].cid)
  /\ UNCHANGED <<conn, pending, answers, executed, threads>>

\* Cancelled before its first step: the body never runs, nor does its finally.
TurnNeverRuns(t) ==
  /\ turn[t].pc = "created" /\ turn[t].cancelled
  /\ turn' = [turn EXCEPT ![t].pc = "done"]
  /\ UNCHANGED <<gen, streams, conn, queue, pending, answers, executed, threads>>

TurnStep(t) ==
  \/ TurnStarts(t) \/ TurnLocks(t) \/ TurnRuns(t)
  \/ TurnAsks(t) \/ TurnAnnounced(t) \/ TurnResumes(t)
  \/ TurnReturns(t) \/ TurnFails(t) \/ TurnIsCancelled(t)
  \/ TurnEnds(t) \/ TurnGivesUp(t) \/ TurnNeverRuns(t)
===============================================================================
