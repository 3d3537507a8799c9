----------------------------- MODULE FrameRelay ------------------------------
(***************************************************************************)
(* How the frames of chat turns reach the connections that watch them      *)
(* (api/websocket.py): the stream of each turn, the queues and pumps of    *)
(* those who watch it, switching to a turn at work, and stopping it.  When *)
(* a message starts a turn is ChatService's matter; here it may any time.  *)
(***************************************************************************)
EXTENDS Naturals, Sequences

CONSTANTS
  Watchers,  \* connections
  Streams,   \* a bound on turns, each with its stream
  Rooms,     \* conversations
  MaxFrames, \* a bound on the frames of a turn that are kept
  Nobody

ASSUME RelayAssumption ==
  MaxFrames \in Nat /\ Nobody \notin Watchers \cup Streams \cup Rooms

VARIABLES
  relay,      \* each turn with its stream; its kept frames are the numbers 1..frames
  subs,       \* who has an inbox at each stream, and a pump that empties it
  inbox,      \* what the pump of each has sent since it subscribed, and has still to send
  onair,      \* _turn_streams
  watcher,    \* the connections, each with the stream it was switched to
  wechat,     \* the conversation whose replies are sent on to WeChat, or Nobody
  heard       \* history: the last stop of each watcher that stayed where it was

relayVars == <<relay, subs, inbox, onair, watcher, wechat, heard>>

Holding == {"preparing", "working", "saving", "forwarding"}
Ended == {"over", "failed"}
Ongoing(t) == relay[t].state \notin Ended \cup {"unused"}

\* Frames that are kept, the one that tells how the turn ended, and the sentinel.
Frame(k) == <<"frame", k>>
Final(how) == <<"final", how>>
End == <<"end", 0>>
Kept(t) == [k \in 1..relay[t].frames |-> Frame(k)]

RelayTypeOK ==
  /\ relay \in [Streams -> [state : {"unused", "created", "queued"} \cup Ended \cup Holding,
                            room : Rooms \cup {Nobody}, by : Watchers \cup {Nobody},
                            frames : 0..MaxFrames, cancelled : BOOLEAN]]
  /\ subs \in [Streams -> SUBSET Watchers]
  /\ onair \in [Rooms -> Streams \cup {Nobody}] /\ wechat \in Rooms \cup {Nobody}
  /\ \A c \in Watchers : /\ watcher[c].state \in {"reading", "stopping", "gone"}
                         /\ {watcher[c].sub, watcher[c].on} \subseteq Streams \cup {Nobody}

RelayInit ==
  /\ relay = [t \in Streams |-> [state |-> "unused", room |-> Nobody, by |-> Nobody,
                                 frames |-> 0, cancelled |-> FALSE]]
  /\ subs = [t \in Streams |-> {}] /\ inbox = [t \in Streams |-> [c \in Watchers |-> <<>>]]
  /\ onair = [r \in Rooms |-> Nobody] /\ wechat \in Rooms \cup {Nobody}
  /\ watcher = [c \in Watchers |-> [state |-> "reading", sub |-> Nobody, on |-> Nobody, known |-> FALSE]]
  /\ heard = [c \in Watchers |-> [turn |-> Nobody, direct |-> FALSE]]

-----------------------------------------------------------------------------
Put(f, t, c, v) == IF t = Nobody THEN f ELSE [f EXCEPT ![t][c] = v]

\* The fault RelayKeepsFaith guards against: the kept frames are not replayed.
SeedBlank(t) == <<>>

\* An inbox begins with the frames kept so far.
Seed(t) == Kept(t)

\* c leaves the stream `from`, if any: its inbox is dropped and the pump cancelled;
\* and it gets an inbox and a pump at the stream `to`.
Moves(c, from, to) ==
  /\ subs' = [t \in Streams |-> (subs[t] \ {d \in {c} : t = from}) \cup {d \in {c} : t = to}]
  /\ inbox' = Put(Put(inbox, from, c, <<>>), to, c, Seed(to))

\* What is published goes to every inbox, and only some of it is kept; the end of
\* the turn follows its last frame without a pause, and takes its registration.
Publishes(t, frames) ==
  inbox' = [inbox EXCEPT ![t] = [c \in Watchers |-> IF c \in subs[t] THEN @[c] \o frames ELSE @[c]]]

Finishes(t, frames, as) ==
  /\ Publishes(t, frames \o <<End>>)
  /\ relay' = [relay EXCEPT ![t].state = as, ![t].cancelled = FALSE]
  /\ onair' = [r \in Rooms |-> IF onair[r] = t THEN Nobody ELSE onair[r]]
  /\ UNCHANGED <<subs, watcher, wechat, heard>>

Becomes(t, state) ==
  /\ relay' = [relay EXCEPT ![t].state = state]
  /\ UNCHANGED <<subs, inbox, onair, watcher, wechat, heard>>

Starts(c, t, r) ==
  /\ watcher[c].state = "reading" /\ relay[t].state = "unused"
  /\ relay' = [relay EXCEPT ![t] = [@ EXCEPT !.state = "created", !.room = r, !.by = c]]
  /\ UNCHANGED <<subs, inbox, onair, watcher, wechat, heard>>

\* The task begins: its stream takes the place of another's, and who sent the
\* message watches it.  A task cancelled before its first step does nothing.
Opens(t) ==
  /\ relay[t].state = "created"
  /\ IF relay[t].cancelled THEN Becomes(t, "over")
     ELSE /\ relay' = [relay EXCEPT ![t].state = "queued", ![t].by = Nobody]
          /\ onair' = [onair EXCEPT ![relay[t].room] = t]
          /\ Moves(relay[t].by, Nobody, t)
          /\ UNCHANGED <<watcher, wechat, heard>>

Enters(t) ==
  /\ relay[t].state = "queued" /\ ~relay[t].cancelled
  /\ ~\E u \in Streams : relay[u].room = relay[t].room /\ relay[u].state \in Holding
  /\ Becomes(t, "preparing")

\* The agent is set up for the conversation before it is asked.  What is raised there
\* passes the handlers that tell an error by: the stream ends without a word.
Prepared(t) == relay[t].state = "preparing" /\ Becomes(t, "working")
Fails(t) == relay[t].state = "preparing" /\ ~relay[t].cancelled /\ Finishes(t, <<>>, "failed")

\* Text, tools and, at any time until the end, events of subagents.
Emits(t) ==
  /\ relay[t].state \in Holding \cup {"queued"} /\ relay[t].frames < MaxFrames
  /\ relay' = [relay EXCEPT ![t].frames = @ + 1]
  /\ Publishes(t, <<Frame(relay[t].frames + 1)>>)
  /\ UNCHANGED <<subs, onair, watcher, wechat, heard>>

\* The turn is done; what belongs to WeChat is sent on before it ends.
Answers(t) ==
  /\ relay[t].state = "working" /\ ~relay[t].cancelled
  /\ IF relay[t].room # wechat THEN Finishes(t, <<Final("done")>>, "over")
     ELSE /\ relay' = [relay EXCEPT ![t].state = "forwarding"] /\ Publishes(t, <<Final("done")>>)
          /\ UNCHANGED <<subs, onair, watcher, wechat, heard>>

Forwarded(t) == relay[t].state = "forwarding" /\ ~relay[t].cancelled /\ Finishes(t, <<>>, "over")

\* The agent raises, or a cancellation reaches the turn at its await: what was said
\* is stored, and then the error told or the stop.
Falters(t) == relay[t].state = "working" /\ Becomes(t, "saving")
Errs(t) == relay[t].state = "saving" /\ ~relay[t].cancelled /\ Finishes(t, <<Final("error")>>, "over")
EndsStopped(t) ==
  /\ relay[t].cancelled /\ relay[t].state \in {"queued", "preparing", "saving", "forwarding"}
  /\ Finishes(t, <<Final("stopped")>>, "over")

-----------------------------------------------------------------------------
\* A pump sends frame by frame, in the order of its inbox; how far it is makes no
\* difference but to the client.  It ends with the turn, or when sending fails: then
\* all of it is forgotten, after the answer to a stop was seen.
PumpEnds(t, c) ==
  /\ c \in subs[t] /\ inbox[t][c] # <<>> /\ watcher[c].on # t
  /\ inbox[t][c][Len(inbox[t][c])] = End \/ watcher[c].state = "gone"
  /\ Moves(c, t, Nobody)
  /\ heard' = IF heard[c].turn = t THEN [heard EXCEPT ![c].turn = Nobody] ELSE heard
  /\ UNCHANGED <<relay, onair, watcher, wechat>>

\* {"switch_conversation": r}, or null; who watches the stream anyway is left alone.
Switches(c, r) ==
  LET from == watcher[c].sub
      there == IF r = Nobody THEN Nobody ELSE onair[r]
      to == IF there # Nobody /\ there # from /\ c \in subs[there] THEN Nobody ELSE there
  IN  /\ watcher[c].state = "reading"
      /\ Moves(c, from, to)
      /\ watcher' = [watcher EXCEPT ![c].sub = to]
      /\ heard' = [heard EXCEPT ![c].turn = Nobody]
      /\ UNCHANGED <<relay, onair, wechat>>

\* {"stop": true}: whether the pump will tell is known before the turn is cancelled.
Stops(c, t) ==
  /\ watcher[c].state = "reading" /\ Ongoing(t)
  /\ relay' = [relay EXCEPT ![t].cancelled = TRUE]
  /\ watcher' = [watcher EXCEPT ![c] = [@ EXCEPT !.state = "stopping", !.on = t, !.known = c \in subs[t]]]
  /\ UNCHANGED <<subs, inbox, onair, wechat, heard>>

Returns(c) ==
  /\ watcher[c].state = "stopping" /\ ~Ongoing(watcher[c].on)
  /\ watcher' = [watcher EXCEPT ![c] = [@ EXCEPT !.state = "reading", !.on = Nobody, !.known = FALSE]]
  /\ heard' = [heard EXCEPT ![c] = [turn |-> watcher[c].on, direct |-> ~watcher[c].known]]
  /\ UNCHANGED <<relay, subs, inbox, onair, wechat>>

Leaves(c) ==
  /\ watcher[c].state = "reading"
  /\ Moves(c, watcher[c].sub, Nobody)
  /\ watcher' = [watcher EXCEPT ![c].state = "gone", ![c].sub = Nobody]
  /\ heard' = [heard EXCEPT ![c].turn = Nobody]
  /\ UNCHANGED <<relay, onair, wechat>>

RelayNext ==
  \/ \E t \in Streams : \/ Opens(t) \/ Enters(t) \/ Prepared(t) \/ Fails(t) \/ Emits(t) \/ Answers(t) \/ Forwarded(t)
                        \/ Falters(t) \/ Errs(t) \/ EndsStopped(t)
                        \/ \E c \in Watchers : PumpEnds(t, c) \/ Stops(c, t) \/ \E r \in Rooms : Starts(c, t, r)
  \/ \E c \in Watchers : Returns(c) \/ Leaves(c) \/ \E r \in Rooms \cup {Nobody} : Switches(c, r)

RelaySpec == RelayInit /\ [][RelayNext]_relayVars

-----------------------------------------------------------------------------
\* Where the frames of a kind are in what c was sent of t.
Places(t, c, kind) == {i \in DOMAIN inbox[t][c] : inbox[t][c][i][1] = kind}

\* Frames come each once and in order, from the first, to whomever comes whenever.
FramesArrive ==
  \A t \in Streams, c \in Watchers : c \in subs[t] =>
    LET sent == inbox[t][c]
        places == Places(t, c, "frame")
    IN  /\ {sent[i][2] : i \in places} = 1..relay[t].frames
        /\ \A i, j \in places : i < j => sent[i][2] < sent[j][2]

\* A turn that ended was told to be over, once and last, and no pump waits for more;
\* how it ended comes right before that, once, unless it failed unprepared.
EveryoneIsTold ==
  \A t \in Streams, c \in Watchers : relay[t].state \in Ended /\ c \in subs[t] =>
    LET last == Len(inbox[t][c])
    IN  /\ Places(t, c, "end") = {last}
        /\ relay[t].state = "failed" => Places(t, c, "final") = {}
        /\ relay[t].state = "over" /\ relay[t].room # wechat => Places(t, c, "final") = {last - 1}

\* A stop is answered exactly once, by the pump or by the handler.
StopsAreAnswered ==
  \A c \in Watchers : heard[c].turn # Nobody =>
    LET sent == inbox[heard[c].turn][c]
        told == {i \in DOMAIN sent : sent[i] = Final("stopped")}
    IN  IF heard[c].direct THEN told = {} ELSE \E i \in DOMAIN sent : told = {i}

(***************************************************************************)
(* Whoever watches a turn sees all of it: the frames so far and those to   *)
(* come each once and in order, then, once its agent was asked, how it     *)
(* ended, and the end; and who stops a turn hears of it once, whichever    *)
(* connections start, stop, switch and leave.                              *)
(***************************************************************************)
RelayKeepsFaith == FramesArrive /\ EveryoneIsTold /\ StopsAreAnswered

\* Refuted: websocket.py:193-194, "恰好一次" for every subscriber and the final frame
\* delivered: who comes while a reply is sent on to WeChat never hears that it is
\* done, and a stop then follows a turn that was already said to be done.
WeChatIsTold ==
  \A t \in Streams, c \in Watchers : relay[t].state = "over" /\ c \in subs[t] =>
    \E i \in DOMAIN inbox[t][c] : Places(t, c, "final") = {i}

\* Refuted: the same lines, for a turn whose preparation raised: nobody hears of it.
FailureIsTold ==
  \A t \in Streams, c \in Watchers : relay[t].state = "failed" /\ c \in subs[t] =>
    Places(t, c, "final") # {}
=============================================================================
