----------------------------- MODULE ModelChoice ----------------------------
(***************************************************************************)
(* Which model the agent uses: saved presets of which one is active, the   *)
(* hot swap of the running agent, and what a restart makes of both.  Every *)
(* read and write of the configuration table is a step of its own; only    *)
(* a swap holds a lock.  Settings name a provider and a model, which the   *)
(* swap stores one by one; POST /config/reload lays what it has read of    *)
(* the table over the configuration in memory, and the swap of a channel   *)
(* writes that to config.yaml.  The base URL is followed in the table only.*)
(***************************************************************************)
EXTENDS Naturals, FiniteSets, Sequences

CONSTANTS
  Askers,      \* requests that can be under way at once
  Presets,     \* the ids of presets
  Settings,
  WithBase,    \* the settings that name a base URL
  Initial,     \* the settings in use, and of the presets that exist, at first
  MaxRequests, \* a bound on requests and restarts, for TLC
  NoPreset, Unset, Unheld

Pairs == [provider : Settings, model : Settings]
Pair(uses) == [provider |-> uses, model |-> uses]
Record == [uses : Settings, active : BOOLEAN]

ASSUME ModelAssumption ==
  /\ WithBase \subseteq Settings /\ Initial \in Settings
  /\ Unset \notin Settings \cup Pairs \cup Presets \cup (Presets \X Record)
  /\ Unheld \notin Askers /\ MaxRequests \in Nat

VARIABLES
  preset,    \* the record of each preset, or NoPreset
  shelf,     \* the index of presets
  key,       \* llm_presets.active_id
  serving,   \* what the agent was last swapped to
  mem,       \* the configuration in memory
  saved,     \* what is in config.yaml, and in the rows of the table
  endpoint,  \* the settings of the endpoint that is active
  holder,    \* who holds the swap lock
  ask,       \* what each request has still to do
  reading,   \* what a reload has read of the table
  history    \* requests so far, whether any met, whether a write or a request failed,
             \* whether a reload was under way together with another request

modelVars ==
  <<preset, shelf, key, serving, mem, saved, endpoint, holder, ask, reading, history>>

NoRequest == [todo |-> <<>>]
Asking(a) == ask[a] # NoRequest
Rereading(a) == reading[a] # Unset
Step(a) == IF Asking(a) THEN Head(ask[a].todo) ELSE "none"

\* The faults that the properties guard against: the lock covers the swap only;
\* the marks of the others stay.
SwapUnlocked == <<"swap", "unlock", "provider", "model", "base">>
Swap == <<"swap", "provider", "model", "base", "unlock">>
ActivationUncleared == <<"check">> \o Swap \o <<"flag", "key">>
Activation == <<"check">> \o Swap \o <<"list", "clear", "flag", "key">>

Job(todo, id, uses) ==
  [todo |-> todo, id |-> id, uses |-> uses, mine |-> NoPreset, seen |-> NoPreset,
   ids |-> {}, next |-> Unset]

ModelTypeOK ==
  /\ preset \in [Presets -> Record \cup {NoPreset}] /\ shelf \subseteq Presets
  /\ key \in Presets \cup {Unset} /\ serving \in Pairs /\ endpoint \in Settings \cup {Unset}
  /\ saved \in [file : Pairs, provider : Settings, model : Settings, base : WithBase \cup {Unset}]
  /\ mem \in Pairs /\ reading \in [Askers -> Pairs \cup {Unset}]
  /\ holder \in Askers \cup {Unheld}

\* The process has started, with presets from earlier runs of it.
ModelInit ==
  /\ preset \in [Presets -> [uses : {Initial}, active : BOOLEAN] \cup {NoPreset}]
  /\ shelf = {p \in Presets : preset[p] # NoPreset}
  /\ key \in Presets \cup {Unset} /\ \A p \in shelf : preset[p].active <=> key = p
  /\ key # Unset => key \in shelf
  /\ serving = Pair(Initial) /\ mem = Pair(Initial) /\ endpoint = Unset
  /\ saved = [file |-> Pair(Initial), provider |-> Initial, model |-> Initial,
              base |-> IF Initial \in WithBase THEN Initial ELSE Unset]
  /\ holder = Unheld /\ ask = [a \in Askers |-> NoRequest] /\ reading = [a \in Askers |-> Unset]
  /\ history = [count |-> 0, met |-> FALSE, missed |-> FALSE, crossed |-> FALSE]

Starting == \E a \in Askers : Asking(a) /\ ask[a].todo[Len(ask[a].todo)] = "started"

\* What a request on a preset has to do, told from the record as it reads it.
Begins(a, job) ==
  /\ ~Asking(a) /\ ~Rereading(a) /\ ~Starting /\ history.count < MaxRequests
  /\ ask' = [ask EXCEPT ![a] = job]
  /\ history' = [history EXCEPT !.count = @ + 1, !.met = @ \/ \E b \in Askers : Asking(b),
                                !.crossed = @ \/ \E b \in Askers : Rereading(b)]
  /\ UNCHANGED <<preset, shelf, key, serving, mem, saved, endpoint, holder, reading>>

\* An id is new when a creation begins, and told when it ends.
Told(p) == preset[p] # NoPreset /\ \A b \in Askers : Asking(b) /\ ask[b].id = p =>
             \A k \in DOMAIN ask[b].todo : ask[b].todo[k] # "enlist"
Unused(p) == preset[p] = NoPreset /\ p \notin shelf /\ \A b \in Askers : Asking(b) => ask[b].id # p

CreatePreset(a, p, uses, activate) ==
  /\ Unused(p)
  /\ Begins(a, [Job(<<"write", "list", "enlist">> \o IF activate THEN Activation ELSE <<>>, p, uses)
                EXCEPT !.mine = [uses |-> uses, active |-> FALSE]])

\* An activation inside an update works on a record of its own, and the copy
\* that the update read is written over what it leaves; a copy that says it is
\* active is activated again.
UpdatePreset(a, p, uses, patch) ==
  /\ Told(p)
  /\ LET mine == [uses |-> uses, active |-> patch # "unset" /\ preset[p].active]
     IN  Begins(a, [Job((IF patch = "set" THEN Activation ELSE <<>>) \o <<"write">>
                          \o (IF mine.active THEN Activation ELSE <<>>), p, uses)
                    EXCEPT !.mine = mine])

ActivatePreset(a, p) == Told(p) /\ Begins(a, Job(Activation, p, preset[p].uses))

DeletePreset(a, p) ==
  /\ Told(p)
  /\ Begins(a, Job(<<"erase", "list", "delist">> \o IF preset[p].active THEN <<"unkey">> ELSE <<>>,
                   p, preset[p].uses))

\* PUT /config/llm, and the activation of an endpoint, which is recorded first.
SwapModel(a, uses) == Begins(a, Job(Swap, Unset, uses))
SwapEndpoint(a, uses) == Begins(a, Job(<<"endpoint">> \o Swap, Unset, uses))

\* The rest of a request, when its next step is done; what no step to come
\* reads is forgotten.
Rest(a, job) ==
  LET todo == Tail(job.todo)
      Needs(step) == \E k \in DOMAIN todo : todo[k] = step
      left == [todo |-> todo, id |-> job.id, next |-> job.next,
               mine |-> IF Needs("write") THEN job.mine ELSE NoPreset,
               seen |-> IF Needs("flag") THEN job.seen ELSE NoPreset,
               uses |-> IF Needs("base") THEN job.uses ELSE Unset,
               ids |-> IF todo # <<>> /\ Head(todo) \in {"clear", "enlist", "delist"}
                         THEN job.ids ELSE {}]
  IN  ask' = [ask EXCEPT ![a] = IF todo = <<>> THEN NoRequest ELSE left]

\* A request that ends before its time; the start goes on without it.
Drops(a) ==
  ask' = [ask EXCEPT ![a] = IF Starting THEN [ask[a] EXCEPT !.todo = <<"started">>] ELSE NoRequest]

Keeps(vars) == UNCHANGED <<vars, mem, reading, history>>

\* A preset that is gone ends the activation, and with it the request.
Looks(a) ==
  /\ Step(a) = "check"
  /\ LET found == preset[ask[a].id]
     IN  IF found # NoPreset THEN Rest(a, [ask[a] EXCEPT !.seen = found, !.uses = found.uses])
         ELSE Drops(a)
  /\ Keeps(<<preset, shelf, key, serving, saved, endpoint, holder>>)

RecordsEndpoint(a) ==
  /\ Step(a) = "endpoint" /\ endpoint' = ask[a].uses /\ Rest(a, ask[a])
  /\ Keeps(<<preset, shelf, key, serving, saved, holder>>)

\* A write that fails is logged and forgotten.
Stores(a, field, value) ==
  /\ Rest(a, ask[a])
  /\ \/ saved' = [saved EXCEPT ![field] = value] /\ UNCHANGED history
     \/ UNCHANGED saved /\ history' = [history EXCEPT !.missed = TRUE]

\* The swap of all references, and config.yaml in the same step.
Swaps(a) ==
  /\ Step(a) = "swap" /\ holder = Unheld
  /\ holder' = a /\ serving' = Pair(ask[a].uses) /\ mem' = Pair(ask[a].uses)
  /\ Stores(a, "file", Pair(ask[a].uses))
  /\ UNCHANGED <<preset, shelf, key, endpoint, reading>>

\* A base URL is stored only when there is one.
StoresField(a) ==
  /\ Step(a) \in {"provider", "model", "base"}
  /\ IF Step(a) = "base" /\ ask[a].uses \notin WithBase
       THEN Rest(a, ask[a]) /\ UNCHANGED <<saved, history>>
       ELSE Stores(a, Step(a), ask[a].uses)
  /\ UNCHANGED <<preset, shelf, key, serving, mem, endpoint, holder, reading>>

Unlocks(a) ==
  /\ Step(a) = "unlock" /\ holder' = Unheld /\ Rest(a, ask[a])
  /\ Keeps(<<preset, shelf, key, serving, saved, endpoint>>)

Lists(a) ==
  /\ Step(a) = "list" /\ Rest(a, [ask[a] EXCEPT !.ids = shelf])
  /\ Keeps(<<preset, shelf, key, serving, saved, endpoint, holder>>)

\* Preset after preset is read, and written without its mark if it has one.
Clears1(a) ==
  /\ Step(a) = "clear"
  /\ LET job == ask[a]
     IN  IF job.next # Unset
           THEN /\ preset' = [preset EXCEPT ![job.next[1]] = job.next[2]]
                /\ ask' = [ask EXCEPT ![a] = [job EXCEPT !.next = Unset]]
         ELSE UNCHANGED preset /\
           IF job.ids = {} THEN Rest(a, job)
           ELSE \E p \in job.ids :
             ask' = [ask EXCEPT ![a] = [job EXCEPT
               !.ids = @ \ {p},
               !.next = IF preset[p] # NoPreset /\ preset[p].active
                        THEN <<p, [preset[p] EXCEPT !.active = FALSE]>> ELSE Unset]]
  /\ Keeps(<<shelf, key, serving, saved, endpoint, holder>>)

Writes(a) ==
  /\ Step(a) \in {"write", "flag", "erase"}
  /\ preset' = [preset EXCEPT ![ask[a].id] =
       CASE Step(a) = "write" -> ask[a].mine
         [] Step(a) = "flag" -> [ask[a].seen EXCEPT !.active = TRUE]
         [] OTHER -> NoPreset]
  /\ Rest(a, ask[a])
  /\ Keeps(<<shelf, key, serving, saved, endpoint, holder>>)

SavesShelf(a) ==
  /\ Step(a) \in {"enlist", "delist"}
  /\ shelf' = IF Step(a) = "enlist" THEN ask[a].ids \cup {ask[a].id}
              ELSE IF ask[a].id \in ask[a].ids THEN ask[a].ids \ {ask[a].id} ELSE shelf
  /\ Rest(a, ask[a])
  /\ Keeps(<<preset, key, serving, saved, endpoint, holder>>)

SavesKey(a) ==
  /\ Step(a) \in {"key", "unkey"}
  /\ key' = IF Step(a) = "key" THEN ask[a].id ELSE Unset
  /\ Rest(a, ask[a])
  /\ Keeps(<<preset, shelf, serving, saved, endpoint, holder>>)

\* The table fails, or the provider cannot be made.  The record of a preset
\* whose creation fails before it is listed has an id that nobody was told.
PresetRequestFails(a) ==
  /\ Asking(a) /\ Step(a) \notin {"provider", "model", "base", "unlock", "started"}
  /\ preset' = IF ask[a].id = Unset \/ Told(ask[a].id) THEN preset
               ELSE [preset EXCEPT ![ask[a].id] = NoPreset]
  /\ Drops(a)
  /\ history' = [history EXCEPT !.missed = TRUE]
  /\ UNCHANGED <<shelf, key, serving, mem, saved, endpoint, holder, reading>>

InTable == [provider |-> saved.provider, model |-> saved.model]

\* POST /config/reload: the table is read, and then, without the lock, laid over
\* the configuration in memory.
Rereads(a) ==
  /\ ~Asking(a) /\ ~Rereading(a) /\ ~Starting /\ history.count < MaxRequests
  /\ reading' = [reading EXCEPT ![a] = InTable]
  /\ history' = [history EXCEPT !.count = @ + 1,
                   !.crossed = @ \/ \E b \in Askers : Asking(b) \/ Rereading(b)]
  /\ UNCHANGED <<preset, shelf, key, serving, mem, saved, endpoint, holder, ask>>

LaysOver(a) ==
  /\ Rereading(a) /\ mem' = reading[a] /\ reading' = [reading EXCEPT ![a] = Unset]
  /\ UNCHANGED <<preset, shelf, key, serving, saved, endpoint, holder, ask, history>>

\* The swap of a channel, under the same lock, writes all of the configuration
\* in memory; what else it does is of the channels.
ChannelPersists ==
  /\ holder = Unheld /\ ~Starting /\ saved' = [saved EXCEPT !.file = mem]
  /\ UNCHANGED <<preset, shelf, key, serving, mem, endpoint, holder, ask, reading, history>>

Current == IF key = Unset THEN NoPreset ELSE preset[key]

\* The agent is made from config.yaml, over which the table is laid; the active
\* preset is restored before the first request.
ModelRestarts(a) ==
  /\ history.count < MaxRequests
  /\ history' = [history EXCEPT !.count = @ + 1, !.missed = @ \/ \E b \in Askers : Asking(b)]
  /\ holder' = Unheld /\ serving' = saved.file /\ mem' = InTable
  /\ reading' = [b \in Askers |-> Unset]
  /\ ask' = [b \in Askers |->
       IF b # a THEN NoRequest
       ELSE Job((IF Current = NoPreset THEN <<>> ELSE Activation) \o <<"started">>, key, saved.provider)]
  /\ UNCHANGED <<preset, shelf, key, saved, endpoint>>

\* Without a preset the active endpoint is used; that is not stored.
Started(a) ==
  /\ Step(a) = "started"
  /\ serving' = IF Current = NoPreset /\ endpoint # Unset THEN Pair(endpoint) ELSE serving
  /\ Rest(a, ask[a])
  /\ Keeps(<<preset, shelf, key, saved, endpoint, holder>>)

PresetBegins(a) ==
  \/ \E p \in Presets, uses \in Settings :
       \/ \E active \in BOOLEAN : CreatePreset(a, p, uses, active)
       \/ \E patch \in {"none", "set", "unset"} : UpdatePreset(a, p, uses, patch)
  \/ \E p \in Presets : ActivatePreset(a, p) \/ DeletePreset(a, p)
  \/ \E uses \in Settings : SwapModel(a, uses) \/ SwapEndpoint(a, uses)

ModelNext ==
  \/ ChannelPersists
  \/ \E a \in Askers :
    \/ Rereads(a) \/ LaysOver(a)
    \/ PresetBegins(a) \/ PresetRequestFails(a) \/ ModelRestarts(a) \/ Started(a)
    \/ Looks(a) \/ RecordsEndpoint(a) \/ Swaps(a) \/ StoresField(a) \/ Unlocks(a)
    \/ Lists(a) \/ Clears1(a) \/ Writes(a) \/ SavesShelf(a) \/ SavesKey(a)

ModelSpec == ModelInit /\ [][ModelNext]_modelVars

-----------------------------------------------------------------------------
(***************************************************************************)
(* Whenever no swap is under way and nothing failed, the rows of the table *)
(* name the provider and the model of one swap, however swaps by presets,  *)
(* endpoints and requests meet; and config.yaml names the same, also when  *)
(* a channel swap writes it from memory, unless a reload was under way     *)
(* together with another request.                                          *)
(***************************************************************************)
SavedTogether ==
  holder = Unheld /\ ~history.missed =>
    /\ saved.provider = saved.model
    /\ ~history.crossed => saved.file = InTable

\* Refuted: "atomically swap all references" (runtime_manager.py:69) and of the file what
\* SavedTogether says of the table: a reload that reads the table in the middle of a swap
\* leaves the provider of one and the model of another swap in memory, and in the next file.
FileTogether == holder = Unheld /\ ~history.missed => saved.file.provider = saved.file.model

(***************************************************************************)
(* As long as requests come one by one, at most one listed preset has the  *)
(* mark, whatever failed or restarted in the middle; and if nothing failed *)
(* it is the one that a restart restores.                                  *)
(***************************************************************************)
OnePresetAlone == ~history.met => Cardinality({p \in shelf : preset[p] # NoPreset /\ preset[p].active}) <= 1
MarkIsRestored ==
  ~history.met /\ ~history.missed /\ (\A a \in Askers : ~Asking(a)) =>
    \A p \in shelf : preset[p] # NoPreset /\ preset[p].active => key = p
PresetsInOrder == OnePresetAlone /\ MarkIsRestored

\* Refuted: preset_manager.py:242, "Return the currently active preset, if any":
\* an update that sets or clears the mark leaves the key at an unmarked preset.
RestoredIsMarked ==
  ~history.met /\ ~history.missed /\ (\A a \in Askers : ~Asking(a)) /\ Current # NoPreset =>
    Current.active

\* Refuted: runtime_manager.py:114-115; a base URL is stored with a swap that has
\* one and stays with the next, which has none.
BaseIsOfProvider ==
  holder = Unheld /\ ~history.missed /\ saved.base # Unset => saved.base = saved.provider
=============================================================================
