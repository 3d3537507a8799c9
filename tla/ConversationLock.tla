--------------------------- MODULE ConversationLock ---------------------------
(***************************************************************************)
(* concurrency.py: the registry of per-conversation asyncio locks that the *)
(* WebSocket, HTTP, channel and scheduler entries share.  The entry of the *)
(* weak registry lives as long as somebody holds or awaits the lock, so a  *)
(* lock is its queue: the holder first, then the waiters in arrival order  *)
(* (asyncio.Lock is fair).                                                 *)
(***************************************************************************)
EXTENDS Naturals, Sequences

CONSTANTS
  Cids,   \* conversation ids
  Users   \* who takes locks: turns and the other entries' requests

VARIABLE queue  \* of each conversation

Queues == [Cids -> Seq(Users)]

\* per_conversation_lock's body is entered, or about to be.
Holds(u, c) == queue[c] # <<>> /\ Head(queue[c]) = u

IsFree(c) == queue[c] = <<>>

\* The await of the lock begins.
Join(u, c) == queue' = [queue EXCEPT ![c] = Append(@, u)]

\* The body is left, by whatever way.
Release(c) == queue' = [queue EXCEPT ![c] = Tail(@)]

\* A waiter is cancelled.
Abandon(u, c) ==
  \E i \in 1..Len(queue[c]) :
    /\ queue[c][i] = u
    /\ queue' = [queue EXCEPT ![c] = SubSeq(@, 1, i - 1) \o SubSeq(@, i + 1, Len(@))]
===============================================================================
