------------------------------ MODULE Channels ------------------------------
(***************************************************************************)
(* The WeChat and QQ channels and their hot swap: a login or a change of   *)
(* configuration stops the old channel, stores the configuration and       *)
(* starts a new one, under the swap lock; a WeChat channel polls in a task *)
(* of its own until its session expires; credentials outlive the process   *)
(* in files.  POST /config/reload takes no lock: it lays what it read of   *)
(* the table over the configuration in memory.  Messages, media and what   *)
(* iLink and botpy do are external.                                        *)
(***************************************************************************)
EXTENDS Naturals, FiniteSets, Sequences

CONSTANTS
  Swappers,   \* requests that can be under way at once
  Bots,       \* WeChat bots that one can log in as
  Tokens,     \* their session tokens
  PutBodies,  \* a bot and a token that the body of a PUT may come to
  Pool,       \* identities for WeChat channel objects
  MaxBatch,   \* a bound on the messages of one poll
  MaxThreads, \* a bound on QQ clients that run
  MaxSwaps,   \* a bound on requests and restarts, for TLC
  None

Login == [bot : Bots, token : Tokens]
Identity == [bot : Bots \cup {None}, token : Tokens \cup {None}]

ASSUME ChannelAssumption == MaxBatch \in Nat /\ MaxThreads \in Nat /\ MaxSwaps \in Nat
                       /\ PutBodies \subseteq Identity
                       /\ None \notin Bots \cup Tokens \cup Pool \cup Swappers \cup Login

VARIABLES
  cfg,      \* the configuration in memory
  kept,     \* the configuration in the table
  files,    \* the token in the credentials file of each bot, and the newest file
  expired,  \* tokens that iLink no longer accepts
  chan,     \* WeChat channel objects
  app,      \* the channels of app.state
  wired,    \* the WeChat channel that the agent and the dispatcher were given
  threads,  \* how many QQ clients run
  current,  \* current_conversation_id of the shared agent
  latch,    \* who holds the swap lock
  plan,     \* what each request has still to do
  loading,  \* what each reload has read of the table
  past      \* history: requests so far, the last login, whether a PUT has named another bot
            \* or token since, whether requests met, whether something failed

channelVars ==
  <<cfg, kept, files, expired, chan, app, wired, threads, current, latch, plan, loading, past>>

NoPlan == [todo |-> <<>>]
NoChannel == [loop |-> "gone"]
Alive(i) == chan[i].loop \in {"polling", "running", "replying"}
Working(s) == plan[s] # NoPlan
Loading(s) == loading[s] # None
Engaged(s) == Working(s) \/ Loading(s)
NextOf(s) == IF Working(s) THEN Head(plan[s].todo) ELSE "none"

\* The fault that NoStrayLoop guards against: the lock is taken after the stop.
SwapStopsFirst == <<"stop", "lock", "apply", "enabled", "bot", "load", "start">>
SwapWeChat == <<"lock", "stop", "apply", "enabled", "bot", "load", "start">>
SwapQQ == <<"lock", "stop_qq", "apply_qq", "enabled_qq", "start_qq">>
Boot == <<"load", "start", "start_qq">>

\* The fault that LoginStands guards against: a file that exists is kept.
FilesUnlessThere(login) ==
  [token |-> [files.token EXCEPT ![login.bot] = IF @ = None THEN login.token ELSE @],
   newest |-> login.bot]
FilesWith(login) ==
  [token |-> [files.token EXCEPT ![login.bot] = login.token], newest |-> login.bot]

ChannelTypeOK ==
  /\ cfg.wechat \in [on : BOOLEAN, bot : Bots \cup {None}, token : Tokens \cup {None}]
  /\ kept.wechat \in [on : BOOLEAN, bot : Bots \cup {None}]
  /\ cfg.qq \in BOOLEAN /\ kept.qq \in BOOLEAN
  /\ files.token \in [Bots -> Tokens \cup {None}] /\ files.newest \in Bots \cup {None}
  /\ app \in [wechat : Pool \cup {None}, qq : BOOLEAN]
  /\ wired \in Pool \cup {None} /\ current \in {"none", "wechat", "qq"}
  /\ latch \in Swappers \cup {None} /\ threads \in 0..MaxThreads

ChannelInit ==
  /\ cfg = [wechat |-> [on |-> FALSE, bot |-> None, token |-> None], qq |-> FALSE]
  /\ kept = [wechat |-> [on |-> FALSE, bot |-> None], qq |-> FALSE]
  /\ files = [token |-> [b \in Bots |-> None], newest |-> None]
  /\ expired = {} /\ chan = [i \in Pool |-> NoChannel]
  /\ app = [wechat |-> None, qq |-> FALSE] /\ wired = None /\ threads = 0 /\ current = "none"
  /\ latch = None /\ plan = [s \in Swappers |-> NoPlan] /\ loading = [s \in Swappers |-> None]
  /\ past = [count |-> 0, login |-> None, named |-> FALSE, met |-> FALSE, missed |-> FALSE]

Booting == \E s \in Swappers : Working(s) /\ plan[s].boot

\* A request arrives, which may name another bot or token than the configured.
Comes(s, named) ==
  /\ ~Engaged(s) /\ ~Booting /\ past.count < MaxSwaps
  /\ past' = [past EXCEPT !.count = @ + 1, !.named = @ \/ named,
                          !.met = @ \/ \E r \in Swappers : Engaged(r)]

Requested(s, todo, new, login, named) ==
  /\ Comes(s, named)
  /\ plan' = [plan EXCEPT ![s] = [todo |-> todo, new |-> new, login |-> login, boot |-> FALSE]]
  /\ UNCHANGED <<cfg, kept, expired, chan, app, wired, threads, current, latch, loading>>

\* POST /wechat/qrcode/confirm: the file is written, then the channel swapped.
Confirm(s, login) ==
  /\ Requested(s, SwapWeChat, [on |-> TRUE, bot |-> login.bot, token |-> login.token], login, FALSE)
  /\ files' = FilesWith(login)

Configured == [bot |-> cfg.wechat.bot, token |-> cfg.wechat.token]

\* PUT /config/channels/...: what the body leaves out is read from the
\* configuration now, and used when the lock is free.  No file is written of
\* what it names.
PutWeChat(s, on, who) ==
  /\ Requested(s, SwapWeChat, [on |-> on, bot |-> who.bot, token |-> who.token], None,
               who # Configured)
  /\ UNCHANGED files
PutQQ(s, on) == Requested(s, SwapQQ, [on |-> on], None, FALSE) /\ UNCHANGED files

\* POST /config/reload: the table is read, and then, without the lock, laid over
\* the configuration in memory, in place; a bot that was never stored stays.
Reloads(s) ==
  /\ Comes(s, FALSE)
  /\ loading' = [loading EXCEPT ![s] =
       [on |-> kept.wechat.on, bot |-> kept.wechat.bot, qq |-> kept.qq]]
  /\ UNCHANGED <<cfg, kept, files, expired, chan, app, wired, threads, current, latch, plan>>

Overlays(s) ==
  /\ Loading(s)
  /\ cfg' = [wechat |-> [cfg.wechat EXCEPT
                !.on = loading[s].on,
                !.bot = IF loading[s].bot = None THEN @ ELSE loading[s].bot],
             qq |-> loading[s].qq]
  /\ loading' = [loading EXCEPT ![s] = None]
  /\ UNCHANGED <<kept, files, expired, chan, app, wired, threads, current, latch, plan, past>>

Advance(s) ==
  LET steps == plan[s].todo
  IN  plan' = [plan EXCEPT ![s] =
        IF Len(steps) = 1 THEN NoPlan ELSE [plan[s] EXCEPT !.todo = Tail(steps)]]

TakesLock(s) ==
  /\ NextOf(s) = "lock" /\ latch = None /\ latch' = s /\ Advance(s)
  /\ UNCHANGED <<cfg, kept, files, expired, chan, app, wired, threads, current, loading, past>>

\* The poll task is cancelled, wherever it is, and awaited.
StopsWeChat(s) ==
  /\ NextOf(s) = "stop" /\ Advance(s)
  /\ chan' = IF app.wechat = None THEN chan ELSE [chan EXCEPT ![app.wechat] = NoChannel]
  /\ UNCHANGED <<cfg, kept, files, expired, app, wired, threads, current, latch, loading, past>>

\* Closing a client may fail; its thread is forgotten all the same.
StopsQQ(s) ==
  /\ NextOf(s) = "stop_qq" /\ Advance(s)
  /\ threads' \in IF app.qq /\ threads > 0 THEN {threads - 1, threads} ELSE {threads}
  /\ UNCHANGED <<cfg, kept, files, expired, chan, app, wired, current, latch, loading, past>>

Applies(s) ==
  /\ NextOf(s) \in {"apply", "apply_qq"} /\ Advance(s)
  /\ cfg' = IF NextOf(s) = "apply" THEN [cfg EXCEPT !.wechat = plan[s].new]
            ELSE [cfg EXCEPT !.qq = plan[s].new.on]
  /\ UNCHANGED <<kept, files, expired, chan, app, wired, threads, current, latch, loading, past>>

\* A write of the table that fails is logged; no bot id is not written.
Keeps1(s) ==
  /\ NextOf(s) \in {"enabled", "bot", "enabled_qq"} /\ Advance(s)
  /\ \/ /\ kept' = CASE NextOf(s) = "enabled" -> [kept EXCEPT !.wechat.on = cfg.wechat.on]
                     [] NextOf(s) = "enabled_qq" -> [kept EXCEPT !.qq = cfg.qq]
                     [] NextOf(s) = "bot" /\ cfg.wechat.bot = None -> kept
                     [] OTHER -> [kept EXCEPT !.wechat.bot = cfg.wechat.bot]
        /\ UNCHANGED past
     \/ UNCHANGED kept /\ past' = [past EXCEPT !.missed = TRUE]
  /\ UNCHANGED <<cfg, files, expired, chan, app, wired, threads, current, latch, loading>>

\* A channel that is started without a token looks for a credentials file:
\* the one of its bot, or the newest when it does not know its bot.
Credentials(bot) ==
  LET b == IF bot = None THEN files.newest ELSE bot
  IN  IF b = None \/ files.token[b] = None THEN None ELSE [bot |-> b, token |-> files.token[b]]

LoadsCredentials(s) ==
  /\ NextOf(s) = "load" /\ Advance(s)
  /\ LET c == cfg.wechat
         found == Credentials(c.bot)
     IN  cfg' = IF c.on /\ c.token = None /\ found # None
                  THEN [cfg EXCEPT !.wechat = [c EXCEPT !.bot = found.bot, !.token = found.token]]
                  ELSE cfg
  /\ UNCHANGED <<kept, files, expired, chan, app, wired, threads, current, latch, loading, past>>

\* The end of a swap or of a part of the start-up, which also tells the agent
\* and the dispatcher of the channel.
EndsSwap(s, channel) ==
  /\ latch' = IF latch = s THEN None ELSE latch
  /\ past' = IF plan[s].login = None THEN past
             ELSE [past EXCEPT !.login = plan[s].login, !.named = FALSE]
  /\ wired' = IF plan[s].boot THEN channel ELSE wired
  /\ UNCHANGED loading
  /\ Advance(s)

\* Identities that stand for no object; one is as good as another.
FreeIds == {i \in Pool \ {app.wechat, wired} : chan[i] = NoChannel}

\* Without a token the channel is there and needs a login.  The conversation
\* may be impossible to find or make; that is logged.
StartsWeChat(s) ==
  /\ NextOf(s) = "start"
  /\ \/ /\ cfg.wechat.on /\ FreeIds # {}
        /\ LET i == CHOOSE j \in FreeIds : TRUE
           IN  /\ app' = [app EXCEPT !.wechat = i]
               /\ IF cfg.wechat.token = None
                    THEN chan' = [chan EXCEPT ![i] = [loop |-> "needs_login"]] /\ UNCHANGED current
                    ELSE /\ chan' = [chan EXCEPT ![i] = [loop |-> "polling", token |-> cfg.wechat.token, left |-> 0]]
                         /\ current' \in {current, "wechat"}
               /\ EndsSwap(s, i)
     \/ /\ app' = [app EXCEPT !.wechat = None]   \* not enabled, or it fails to start
        /\ EndsSwap(s, None) /\ UNCHANGED <<chan, current>>
  /\ UNCHANGED <<cfg, kept, files, expired, threads>>

StartsQQ(s) ==
  /\ NextOf(s) = "start_qq"
  /\ IF ~cfg.qq THEN app' = [app EXCEPT !.qq = FALSE] /\ UNCHANGED <<threads, current>>
     ELSE /\ app' = [app EXCEPT !.qq = TRUE]
          /\ current' \in {current, "qq"}
          /\ threads < MaxThreads /\ threads' = threads + 1
  /\ EndsSwap(s, wired)
  /\ UNCHANGED <<cfg, kept, files, expired, chan>>

ChannelsRestart(s) ==
  /\ past.count < MaxSwaps
  /\ cfg' = [wechat |-> [on |-> kept.wechat.on, bot |-> kept.wechat.bot, token |-> None], qq |-> kept.qq]
  /\ chan' = [i \in Pool |-> NoChannel] /\ app' = [wechat |-> None, qq |-> FALSE]
  /\ wired' = None /\ threads' = 0 /\ current' = "none" /\ latch' = None
  /\ plan' = [r \in Swappers |->
                IF r = s THEN [todo |-> Boot, new |-> None, login |-> None, boot |-> TRUE] ELSE NoPlan]
  /\ loading' = [r \in Swappers |-> None]
  /\ past' = [past EXCEPT !.count = @ + 1, !.missed = @ \/ \E r \in Swappers : Engaged(r)]
  /\ UNCHANGED <<kept, files, expired>>

\* The poll loop: a batch of messages, each run by the agent in its current
\* conversation and answered; whatever fails, the next message is dealt with.
Polls(i) ==
  /\ chan[i].loop = "polling" /\ chan[i].token \notin expired
  /\ \E n \in 1..MaxBatch : chan' = [chan EXCEPT ![i] = [chan[i] EXCEPT !.loop = "running", !.left = n]]
  /\ UNCHANGED <<cfg, kept, files, expired, app, wired, threads, current, latch, plan, loading, past>>

Runs(i) ==
  /\ chan[i].loop = "running"
  /\ chan' = [chan EXCEPT ![i].loop = "replying"]
  /\ UNCHANGED <<cfg, kept, files, expired, app, wired, threads, current, latch, plan, loading, past>>

Replies(i) ==
  /\ chan[i].loop = "replying"
  /\ chan' = [chan EXCEPT ![i] = [chan[i] EXCEPT
                 !.loop = IF chan[i].left = 1 THEN "polling" ELSE "running", !.left = @ - 1]]
  /\ UNCHANGED <<cfg, kept, files, expired, app, wired, threads, current, latch, plan, loading, past>>

\* iLink ends a session; the loop of the channel learns it at its next poll.
SessionEnds(t) ==
  /\ t \notin expired /\ expired' = expired \cup {t}
  /\ UNCHANGED <<cfg, kept, files, chan, app, wired, threads, current, latch, plan, loading, past>>

LearnsItEnded(i) ==
  /\ chan[i].loop = "polling" /\ chan[i].token \in expired
  /\ chan' = [chan EXCEPT ![i] = [loop |-> "needs_login"]]
  /\ UNCHANGED <<cfg, kept, files, expired, app, wired, threads, current, latch, plan, loading, past>>

ChannelNext ==
  \/ \E s \in Swappers :
       \/ \E login \in Login : Confirm(s, login)
       \/ \E on \in BOOLEAN, who \in PutBodies \cup {Configured} : PutWeChat(s, on, who)
       \/ \E on \in BOOLEAN : PutQQ(s, on)
       \/ Reloads(s) \/ Overlays(s)
       \/ TakesLock(s) \/ StopsWeChat(s) \/ StopsQQ(s) \/ Applies(s) \/ Keeps1(s)
       \/ LoadsCredentials(s) \/ StartsWeChat(s) \/ StartsQQ(s) \/ ChannelsRestart(s)
  \/ \E i \in Pool : Polls(i) \/ Runs(i) \/ Replies(i) \/ LearnsItEnded(i)
  \/ \E t \in Tokens : SessionEnds(t)

ChannelSpec == ChannelInit /\ [][ChannelNext]_channelVars

-----------------------------------------------------------------------------
(***************************************************************************)
(* A WeChat channel that polls is the one in app.state, unless a swap is   *)
(* about to replace it, and it polls with the configured token: however    *)
(* logins, changes, reloads and restarts meet and whatever fails to start, *)
(* no loop goes on that nobody can stop.  As long as requests come one by  *)
(* one and no write fails, the configuration says that it is enabled.      *)
(***************************************************************************)
NoStrayLoop ==
  \A i \in Pool : Alive(i) =>
    /\ app.wechat = i
    /\ latch = None => chan[i].token = cfg.wechat.token
    /\ latch = None /\ ~past.met /\ ~past.missed => cfg.wechat.on

\* Refuted: "This applies any database overrides to the in-memory config" (config.py:372)
\* is all that a reload does: after a write that failed, or read before a swap and applied after
\* it, the configuration says that a channel is disabled which goes on polling.
EnabledWhilePolling == \A i \in Pool : Alive(i) /\ latch = None => cfg.wechat.on

(***************************************************************************)
(* As long as requests come one by one, no write fails, and no PUT has     *)
(* named another bot or token since, the configured bot is the one of the  *)
(* last login, and so is every token, also after the channel was disabled  *)
(* and enabled and after any reload and restart.                           *)
(***************************************************************************)
LoginStands ==
  ~past.met /\ ~past.missed /\ ~past.named /\ past.login # None /\ (\A s \in Swappers : ~Working(s)) =>
    /\ cfg.wechat.bot = past.login.bot
    /\ cfg.wechat.token \in {past.login.token, None}
    /\ \A i \in Pool : Alive(i) => chan[i].token = past.login.token

\* Refuted: wechat_channel.py:369, "All messages are routed to the shared
\* ... conversation" of the WeChat bot: starting QQ turns the shared agent to its own.
MessagesGoToClawbot == [][\A i \in Pool : Runs(i) => current # "qq"]_channelVars

\* Refuted: what the agent and the dispatcher send through is the channel they
\* were given at the start, which a swap has stopped.
WiredIsCurrent == latch = None /\ wired # None => wired = app.wechat

\* Refuted: two QQ clients can answer, when closing the first has failed.
OneQQClient == threads <= 1
=============================================================================
