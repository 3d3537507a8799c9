-------------------------- MODULE ConversationStore --------------------------
(***************************************************************************)
(* What is kept of conversations: their rows, messages and trajectory in   *)
(* the database and their thread in the checkpointer, under turns, prompt  *)
(* tasks, clearing, deletion, settings and automatic names.  Every access  *)
(* to a store is a step; turns, clearing and deletion take the lock of the *)
(* conversation, but for the turns that messages from QQ start.  A model   *)
(* is told by its endpoint, texts are left out, and a turn stands for the  *)
(* messages and events it leaves.                                          *)
(***************************************************************************)
EXTENDS Naturals, FiniteSets, Sequences

CONSTANTS
  Actors,       \* requests and tasks that can be under way at once
  Convs,        \* ids of conversations
  Bindable,     \* endpoints a conversation can be bound to
  Cascades,     \* whether the database enforces foreign keys (SQLite: no)
  Enough,       \* AUTO_NAME_AFTER_MESSAGES
  MaxAccepted,  \* a bound on requests, for TLC
  MaxBesideQQ,  \* the same when messages from QQ are among them
  Unbound, Nowhere

ASSUME StoreAssumption ==
  /\ Cascades \in BOOLEAN /\ {Enough, MaxAccepted, MaxBesideQQ} \subseteq Nat
  /\ Unbound \notin Bindable /\ Nowhere \notin Convs \cup Actors

VARIABLES
  conv,       \* the row of each conversation: unborn, there or gone
  log,        \* its messages: who speaks, and in which turn
  trail,      \* the turns that left trajectory events
  thread,     \* the turns in its checkpoint
  keeper,     \* who holds its lock
  work,       \* what each worker has still to do
  dedicated,  \* app.state.scheduler_conversation_id
  qq,         \* the conversation of the QQ channel, if it runs
  known       \* history: requests and turns so far, turns that began, and those wiped

storeVars == <<conv, log, trail, thread, keeper, work, dedicated, qq, known>>

\* The faults that the properties guard against: a turn, or a clearing, that
\* does not take the lock.
TurnUnlocked == <<"provider", "window", "ask", "trace", "think", "answer", "trace", "name?", "name">>
\* HTTP reads the settings before it takes the lock; WebSocket and WeChat then.
Turn == <<"provider", "window", "lock", "ask", "trace", "think", "answer", "trace",
          "unlock", "name?", "name">>
LockedTurn == <<"lock", "provider", "window", "ask", "trace", "think", "answer", "trace",
                "unlock", "name?", "name">>
PromptTurn == <<"where", "lock", "provider", "ask", "trace", "think", "answer", "trace",
                "unlock", "name?", "name">>
QQTurn == <<"ask", "trace", "think", "answer", "trace", "name?", "name">>
ClearUnlocked == <<"wipe", "untrace", "forget">>
Clear == <<"lock", "wipe", "untrace", "forget", "unlock">>
Delete == <<"lock", "drop", "forget", "unlock">>
Bind == <<"endpoint", "model">>

Resting == [todo |-> <<>>]
AtWork(w) == work[w] # Resting
Doing(w) == IF AtWork(w) THEN Head(work[w].todo) ELSE "none"
Of(w) == work[w].conv
There(c) == c # Nowhere /\ conv[c].state = "there"
NoPair == [endpoint |-> Unbound, model |-> Unbound]
Row(state) == [state |-> state, name |-> "none", endpoint |-> Unbound, model |-> Unbound]

Bound == IF qq = Nowhere THEN MaxAccepted ELSE MaxBesideQQ

StoreTypeOK ==
  /\ conv \in [Convs -> [state : {"unborn", "there", "gone"}, name : {"none", "user", "auto"},
                         endpoint : Bindable \cup {Unbound}, model : Bindable \cup {Unbound}]]
  /\ \A c \in Convs : /\ \A k \in DOMAIN log[c] : log[c][k] \in {"user", "assistant"} \X (1..Bound)
                      /\ trail[c] \cup thread[c] \subseteq 1..Bound
  /\ keeper \in [Convs -> Actors \cup {Nowhere}] /\ dedicated \in Convs \cup {Nowhere}

StoreInit ==
  /\ conv \in [Convs -> {Row("there"), Row("unborn")}]
  /\ log = [c \in Convs |-> <<>>] /\ trail = [c \in Convs |-> {}] /\ thread = [c \in Convs |-> {}]
  /\ keeper = [c \in Convs |-> Nowhere] /\ work = [w \in Actors |-> Resting]
  /\ dedicated = Nowhere /\ qq \in {c \in Convs : conv[c].state = "there"} \cup {Nowhere}
  /\ known = [count |-> 0, turns |-> 0, begun |-> [c \in Convs |-> {}], wiped |-> [c \in Convs |-> {}]]

\* A request is accepted; a turn is known by its number.
Accepted(w, todo, c, turn, pair) ==
  /\ ~AtWork(w) /\ known.count < Bound
  /\ work' = [work EXCEPT ![w] = [todo |-> todo, conv |-> c, turn |-> turn, pair |-> pair,
                                  window |-> Unbound, before |-> {}]]
  /\ known' = [known EXCEPT !.count = @ + 1, !.turns = @ + IF turn = 0 THEN 0 ELSE 1]
  /\ UNCHANGED <<conv, log, trail, thread, keeper, dedicated>>

StartsTurn(w, c) ==
  /\ There(c)
  /\ \E todo \in {Turn, LockedTurn} : Accepted(w, todo, c, known.turns + 1, NoPair)
StartsFromQQ(w) == qq # Nowhere /\ Accepted(w, QQTurn, qq, known.turns + 1, NoPair)
StartsTask(w, c) == Accepted(w, PromptTurn, c, known.turns + 1, NoPair)
StartsClear(w, c) == Accepted(w, Clear, c, 0, NoPair)
StartsDelete(w, c) == Accepted(w, Delete, c, 0, NoPair)
StartsBinding(w, c, e, m) ==
  /\ m \in {e, Unbound}
  /\ Accepted(w, Bind, c, 0, [endpoint |-> e, model |-> m])

Renames(w, c) ==
  /\ ~AtWork(w) /\ There(c) /\ known.count < Bound
  /\ conv' = [conv EXCEPT ![c].name = "user"]
  /\ known' = [known EXCEPT !.count = @ + 1]
  /\ UNCHANGED <<log, trail, thread, keeper, work, dedicated>>

\* The rest of the work, when its next step is done; what a turn runs with is
\* forgotten here once it is at work.
Then(w, job) ==
  LET rest == [job EXCEPT !.todo = Tail(@)]
      old == Head(job.todo) = "ask"
  IN  work' = [work EXCEPT ![w] = IF rest.todo = <<>> THEN Resting
                                  ELSE IF old THEN [rest EXCEPT !.pair = NoPair, !.window = Unbound]
                                  ELSE rest]
Next1(w) == Then(w, work[w])

\* A prompt task goes to its conversation, or to the dedicated one, which is
\* made once and not looked up again.
GoesWhere(w) ==
  /\ Doing(w) = "where"
  /\ IF There(Of(w)) THEN Next1(w) /\ UNCHANGED <<conv, dedicated>>
     ELSE IF dedicated # Nowhere
       THEN Then(w, [work[w] EXCEPT !.conv = dedicated]) /\ UNCHANGED <<conv, dedicated>>
     ELSE \E c \in Convs :
            /\ conv[c].state = "unborn" /\ conv' = [conv EXCEPT ![c] = Row("there")]
            /\ dedicated' = c /\ Then(w, [work[w] EXCEPT !.conv = c])
  /\ UNCHANGED <<log, trail, thread, keeper, known>>

\* The provider and the window of a turn are told from its row, read for each.  One
\* that is not bound goes with the active endpoint, or the default; one that has
\* gone keeps what the agent has.
ReadsProvider(w) ==
  /\ Doing(w) = "provider"
  /\ LET c == conv[Of(w)]
     IN  Then(w, IF There(Of(w)) THEN [work[w] EXCEPT !.pair = [endpoint |-> c.endpoint, model |-> c.model]]
                 ELSE work[w])
  /\ UNCHANGED <<conv, log, trail, thread, keeper, dedicated, known>>

ReadsWindow(w) ==
  /\ Doing(w) = "window"
  /\ Then(w, IF There(Of(w)) THEN [work[w] EXCEPT !.window = conv[Of(w)].endpoint] ELSE work[w])
  /\ UNCHANGED <<conv, log, trail, thread, keeper, dedicated, known>>

GetsLock(w) ==
  /\ Doing(w) = "lock" /\ keeper[Of(w)] = Nowhere
  /\ keeper' = [keeper EXCEPT ![Of(w)] = w] /\ Next1(w)
  /\ UNCHANGED <<conv, log, trail, thread, dedicated, known>>

\* What began before a clearing is what it is to wipe.
TurnBegun(w) == [known EXCEPT !.begun[Of(w)] = @ \cup {work[w].turn}]
Sweeps(w) == Then(w, [work[w] EXCEPT !.before = known.begun[Of(w)]])

Speaker(w) == IF Doing(w) = "ask" THEN "user" ELSE "assistant"

\* A message is only added to a conversation that is there.
AddsMessage(c, message) == There(c) /\ log' = [log EXCEPT ![c] = Append(@, message)]

\* A message that is refused, or cannot be written, is logged, and the turn goes on.
\* (Each write is over when its turn goes on, or is stopped: see the README.)
Writes1(w) ==
  /\ Doing(w) \in {"ask", "answer"} /\ Next1(w)
  /\ AddsMessage(Of(w), <<Speaker(w), work[w].turn>>) \/ UNCHANGED log
  /\ known' = IF Doing(w) = "ask" THEN TurnBegun(w) ELSE known
  /\ UNCHANGED <<conv, trail, thread, keeper, dedicated>>

Traces(w) ==
  /\ Doing(w) = "trace" /\ Next1(w)
  /\ \/ /\ Cascades => There(Of(w))
        /\ trail' = [trail EXCEPT ![Of(w)] = @ \cup {work[w].turn}]
     \/ UNCHANGED trail
  /\ UNCHANGED <<conv, log, thread, keeper, dedicated, known>>

Thinks(w) ==
  /\ Doing(w) = "think" /\ Next1(w)
  /\ thread' = [thread EXCEPT ![Of(w)] = @ \cup {work[w].turn}]
  /\ UNCHANGED <<conv, log, trail, keeper, dedicated, known>>

\* A turn may fail or be stopped at each of its steps, but for those without an await;
\* what the model said so far, even all of it once it is stored, is then kept, once.
\* (So it is with turns from WebSocket; the others keep nothing, which is a case of it.)
Stoppable == {"where", "lock", "provider", "window", "ask", "trace", "think", "answer"}
Ahead(w) == {work[w].todo[k] : k \in DOMAIN work[w].todo}
Said(w) ==
  /\ Doing(w) \in {"trace", "think", "answer"} /\ "name?" \in Ahead(w)
  /\ Doing(w) = "think" \/ "think" \notin Ahead(w)

\* The fault ImplementsDialogue guards against: what was said is kept once the lock is back.
BreaksUnlocked(w) ==
  /\ Doing(w) = "think"
  /\ \E rest \in {<<"unlock">>, <<"unlock", "answer", "trace">>} :
       work' = [work EXCEPT ![w].todo = rest]
  /\ thread' \in {thread, [thread EXCEPT ![Of(w)] = @ \cup {work[w].turn}]}
  /\ UNCHANGED <<conv, log, trail, keeper, dedicated, known>>

\* A lock that the turn holds is given back on the way out.
Breaks(w) ==
  /\ Doing(w) \in Stoppable /\ work[w].turn # 0
  /\ LET locked == "unlock" \in Ahead(w) /\ "lock" \notin Ahead(w)
         parting == IF locked THEN <<"unlock">> ELSE <<>>
         keeping == IF locked THEN <<"answer", "trace", "unlock">> ELSE <<"answer", "trace">>
     IN  \E rest \in {parting} \cup (IF Said(w) THEN {keeping} ELSE {}) :
           work' = [work EXCEPT ![w] = IF rest = <<>> THEN Resting ELSE [@ EXCEPT !.todo = rest]]
  /\ thread' \in IF Doing(w) = "think" THEN {thread, [thread EXCEPT ![Of(w)] = @ \cup {work[w].turn}]}
                 ELSE {thread}
  /\ UNCHANGED <<conv, log, trail, keeper, dedicated, known>>

Unlocks1(w) ==
  /\ Doing(w) = "unlock" /\ keeper' = [keeper EXCEPT ![Of(w)] = Nowhere] /\ Next1(w)
  /\ UNCHANGED <<conv, log, trail, thread, dedicated, known>>

\* 404, or the database fails; what was done before stays done.
GivesUp(w) == work' = [work EXCEPT ![w].todo = <<"unlock">>]

Wipes(w) ==
  /\ Doing(w) = "wipe"
  /\ \/ There(Of(w)) /\ log' = [log EXCEPT ![Of(w)] = <<>>] /\ Sweeps(w)
     \/ UNCHANGED log /\ GivesUp(w)
  /\ UNCHANGED <<conv, trail, thread, keeper, dedicated, known>>

Untraces(w) ==
  /\ Doing(w) = "untrace"
  /\ \/ trail' = [trail EXCEPT ![Of(w)] = {}] /\ Next1(w)
     \/ UNCHANGED trail /\ GivesUp(w)
  /\ UNCHANGED <<conv, log, thread, keeper, dedicated, known>>

\* The messages go with the row; the trajectory if foreign keys are enforced.
Drops(w) ==
  /\ Doing(w) = "drop"
  /\ \/ /\ There(Of(w))
        /\ conv' = [conv EXCEPT ![Of(w)] = Row("gone")]
        /\ log' = [log EXCEPT ![Of(w)] = <<>>]
        /\ trail' = IF Cascades THEN [trail EXCEPT ![Of(w)] = {}] ELSE trail
        /\ Sweeps(w)
     \/ UNCHANGED <<conv, log, trail>> /\ GivesUp(w)
  /\ UNCHANGED <<thread, keeper, dedicated, known>>

\* A thread that cannot be dropped is logged; it then was not wiped.
Forgets(w) ==
  /\ Doing(w) = "forget"
  /\ \/ /\ thread' = [thread EXCEPT ![Of(w)] = {}] /\ Next1(w)
        /\ known' = [known EXCEPT !.wiped[Of(w)] = @ \cup work[w].before]
     \/ UNCHANGED <<thread, known>> /\ GivesUp(w)
  /\ UNCHANGED <<conv, log, trail, keeper, dedicated>>

\* PUT .../endpoint: two writes, each its own transaction.
BindsField(w) ==
  /\ Doing(w) \in {"endpoint", "model"}
  /\ \/ /\ There(Of(w)) /\ Next1(w)
        /\ conv' = IF Doing(w) = "endpoint" THEN [conv EXCEPT ![Of(w)].endpoint = work[w].pair.endpoint]
                   ELSE [conv EXCEPT ![Of(w)].model = work[w].pair.model]
     \/ work' = [work EXCEPT ![w] = Resting] /\ UNCHANGED conv
  /\ UNCHANGED <<log, trail, thread, keeper, dedicated, known>>

UserMessages(c) == Cardinality({k \in DOMAIN log[c] : log[c][k][1] = "user"})

\* _maybe_auto_name runs in the background: it looks, asks the model, and writes.
LooksForName(w) ==
  /\ Doing(w) = "name?"
  /\ IF There(Of(w)) /\ conv[Of(w)].name = "none" /\ UserMessages(Of(w)) >= Enough
       THEN Next1(w) ELSE work' = [work EXCEPT ![w] = Resting]
  /\ UNCHANGED <<conv, log, trail, thread, keeper, dedicated, known>>

GivesName(w) ==
  /\ Doing(w) = "name" /\ Next1(w)
  /\ conv' = IF There(Of(w)) THEN [conv EXCEPT ![Of(w)].name = "auto"] ELSE conv
  /\ UNCHANGED <<log, trail, thread, keeper, dedicated, known>>

StoreNext ==
  /\ UNCHANGED qq
  /\ \E w \in Actors :
       \/ \E c \in Convs : \/ StartsTurn(w, c) \/ StartsClear(w, c) \/ StartsDelete(w, c) \/ Renames(w, c)
                           \/ \E e, m \in Bindable \cup {Unbound} : StartsBinding(w, c, e, m)
       \/ \E c \in Convs \cup {Nowhere} : StartsTask(w, c)
       \/ StartsFromQQ(w)
       \/ GoesWhere(w) \/ ReadsProvider(w) \/ ReadsWindow(w) \/ GetsLock(w) \/ Writes1(w) \/ Traces(w)
       \/ Thinks(w) \/ Breaks(w) \/ Unlocks1(w) \/ Wipes(w) \/ Untraces(w) \/ Drops(w) \/ Forgets(w)
       \/ BindsField(w) \/ LooksForName(w) \/ GivesName(w)

StoreSpec == StoreInit /\ [][StoreNext]_storeVars

-----------------------------------------------------------------------------
(***************************************************************************)
(* The messages of two turns never mix: all that a turn leaves stands      *)
(* together, and but for its first message it is the assistant's,          *)
(* whichever entries the turns come from and wherever they are stopped, in *)
(* every conversation but the one that QQ writes to.                       *)
(***************************************************************************)
AnswersFollow ==
  \A c \in Convs \ {qq} : \A j, k \in DOMAIN log[c] :
    log[c][j][2] = log[c][k][2] /\ j < k =>
      log[c][k][1] = "assistant" /\ \A i \in j..k : log[c][i][2] = log[c][j][2]

(***************************************************************************)
(* What a clearing or a deletion has wiped does not come back: no message, *)
(* no checkpoint and, when the conversation was kept, no event of a turn   *)
(* that was under way or over when it began; again but for QQ's.           *)
(***************************************************************************)
WipedStaysWiped ==
  \A c \in Convs \ {qq} :
    LET back == {log[c][k][2] : k \in DOMAIN log[c]} \cup thread[c]
                  \cup (IF There(c) THEN trail[c] ELSE {})
    IN  back \cap known.wiped[c] = {}

(***************************************************************************)
(* Every conversation but QQ's is a dialogue as that module states it: its *)
(* turns take it over one at a time, whichever entries they come from, and *)
(* clearing and deletion wait for the floor ("绝不能交错", concurrency.py).  *)
(***************************************************************************)
Asked(w) ==
  "unlock" \in Ahead(w) /\ Of(w) \in Convs /\ work[w].turn \in known.begun[Of(w)]

Floor(c) == {work[w].turn : w \in {v \in Actors : Asked(v) /\ Of(v) = c}}

Own == Convs \ {qq}

Dialogue ==
  INSTANCE Dialogue WITH
    talk <- [c \in Own |-> log[c]], memory <- [c \in Own |-> thread[c]],
    floor <- [c \in Own |-> Floor(c)], had <- [c \in Own |-> known.begun[c]]

ImplementsDialogue == Dialogue!Spec

\* Refuted: concurrency.py:3-5, the updates of a checkpoint "must never interleave,
\* whether the turns come from WebSocket, HTTP or a channel": QQ's take no lock.
TurnsAreSerial ==
  \A v, w \in Actors :
    Doing(v) = "think" /\ Doing(w) = "think" /\ Of(v) = Of(w) => v = w

\* Refuted: graph.py:71, what a stop keeps of a reply is marked as "not finished"
\* ("生成未完成"): a stop between the storing of the reply and the end of the stream
\* keeps all of it a second time.
AnsweredOnce ==
  \A c \in Convs \ {qq} : \A j, k \in DOMAIN log[c] : log[c][j] = log[c][k] => j = k

\* Refuted: conversations.py:308, "so a stale name doesn't linger": the endpoint and
\* the model are two writes, and bindings that meet or break off mix them.
Binding(c) == \E w \in Actors : AtWork(w) /\ Of(w) = c /\ Doing(w) \in {"endpoint", "model"}
ModelFits == \A c \in Convs : ~Binding(c) => conv[c].model \in {conv[c].endpoint, Unbound}

\* Refuted: graph.py:1401-1403, the namer "never overwrites a name the user set
\* explicitly": it looks before it asks the model and not again.
UserNameStays ==
  [][\A c \in Convs : conv[c].name = "user" => conv'[c].name # "auto"]_storeVars

\* Refuted: trajectory_repository.py:174, a deletion leaves the trajectory to a
\* CASCADE of the database, which SQLite does not do unless it is told to.
DeletionIsComplete ==
  \A c \in Convs : conv[c].state = "gone" => trail[c] \cap known.wiped[c] = {}

\* Refuted: app.py:317, "the reply already lives in the conversation history":
\* the dedicated conversation may have been deleted since it was remembered.
TasksAreKept == \A w \in Actors : Doing(w) = "answer" => There(Of(w))

\* Refuted: chat.py:68, the window is resolved as the endpoint is: the row is read
\* for each, and may be bound anew in between.
WindowFits == \A w \in Actors : Doing(w) = "lock" => work[w].window \in {work[w].pair.endpoint, Unbound}
=============================================================================
