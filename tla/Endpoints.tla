------------------------------ MODULE Endpoints -----------------------------
(***************************************************************************)
(* Saved LLM endpoints: records and an index in the configuration table,   *)
(* read and written row by row by requests that take no lock, and the one  *)
(* (endpoint, model) pair that is active and hot-swapped into the agent.   *)
(* Results of tests, keys other than whether there is one, and URLs are    *)
(* left out; an order of rows is any order.                                *)
(***************************************************************************)
EXTENDS Naturals, FiniteSets, Sequences

CONSTANTS
  Requesters,      \* requests that can be under way at once
  Saved,         \* endpoints
  ModelLists,   \* the lists of models an endpoint may offer
  NoModel, NoRow

ASSUME EndpointAssumption ==
  \A l \in ModelLists :
    l \in Seq({l[k] : k \in DOMAIN l}) /\ NoModel \notin {l[k] : k \in DOMAIN l}

VARIABLES
  row,         \* the record of each endpoint, or NoRow
  listed,      \* the index
  call,        \* what each request is at
  overlapped   \* history: a request began while another was under way

endpointVars == <<row, listed, call, overlapped>>

Offers(list, m) == \E k \in DOMAIN list : list[k] = m
FirstOf(list) == IF list = <<>> THEN NoModel ELSE list[1]
ModelNames == UNION {{l[k] : k \in DOMAIN l} : l \in ModelLists}
IsActive(r) == r.default /\ r.active # NoModel

\* What a request asks for; patch is what an update does to the default mark.
Requests ==
  [does : {"create"}, end : Saved, models : ModelLists, default : BOOLEAN]
    \cup [does : {"update"}, end : Saved, models : ModelLists, patch : {"none", "set", "unset"}]
    \cup [does : {"activate"}, end : Saved, model : ModelNames]
    \cup [does : {"delete", "test"}, end : Saved]

NewRow(q) == [models |-> q.models, default |-> q.default,
           active |-> IF q.default THEN FirstOf(q.models) ELSE NoModel]

\* An update whose list no longer has the active model keeps the name.
RevisedStale(r, q) == [r EXCEPT !.models = q.models]

\* The new list drops an active model that it does not have.
Revised(r, q) ==
  [r EXCEPT !.models = q.models,
            !.active = IF Offers(q.models, @) THEN @ ELSE NoModel]

Marked(r) ==
  [r EXCEPT !.default = TRUE,
            !.active = IF Offers(r.models, @) THEN @ ELSE FirstOf(r.models)]

Unmarked(r) == [r EXCEPT !.default = FALSE, !.active = NoModel]

\* The record a request writes, made from the record it read.
Outcome(q, r) ==
  CASE q.does = "create" -> NewRow(q)
    [] q.does = "update" /\ q.patch = "none" -> Revised(r, q)
    [] q.does = "update" /\ q.patch = "set" -> Marked(Revised(r, q))
    [] q.does = "update" /\ q.patch = "unset" -> Unmarked(Revised(r, q))
    [] q.does = "activate" -> [r EXCEPT !.default = TRUE, !.active = q.model]
    [] OTHER -> r   \* a test records its result and nothing else

\* Whether a request clears the mark of every endpoint first.  The fault that
\* OneActiveAlone guards against: an update that sets the mark does not.
ClearsUnlessUpdate(q) == q.does = "activate" \/ (q.does = "create" /\ q.default)
Clears(q) ==
  \/ q.does = "activate"
  \/ q.does = "create" /\ q.default
  \/ q.does = "update" /\ q.patch = "set"

Served == [at |-> "done"]
IsAt(c, phase) == call[c].at = phase
Turns(c, new) == call' = [call EXCEPT ![c] = new]
Onwards(c, phase) == Turns(c, [call[c] EXCEPT !.at = phase])

EndpointTypeOK ==
  /\ \A e \in Saved : row[e] # NoRow =>
       row[e].models \in ModelLists /\ row[e].active \in ModelNames \cup {NoModel}
  /\ listed \subseteq Saved
  /\ \A c \in Requesters : call[c].at \in
       {"done", "index", "look", "wipe", "write", "erase", "list", "save"}

EndpointInit ==
  /\ row = [e \in Saved |-> NoRow] /\ listed = {}
  /\ call = [c \in Requesters |-> Served] /\ overlapped = FALSE

\* A request arrives and reads its record; one that is not there is a 404,
\* and a model the endpoint does not offer a 422.
Accepts(q) ==
  CASE q.does = "create" -> row[q.end] = NoRow /\ q.end \notin listed
    [] q.does = "activate" -> row[q.end] # NoRow /\ Offers(row[q.end].models, q.model)
    [] OTHER -> row[q.end] # NoRow

\* The record it will write is made from the one it read, whatever happens
\* in between; an id is new when a creation begins and told when it ends.
Arrives(c, q) ==
  /\ call[c] = Served /\ Accepts(q)
  /\ \A d \in Requesters : call[d] # Served /\ call[d].end = q.end =>
       q.does # "create" /\ ~call[d].creates
  /\ Turns(c, [at |-> IF Clears(q) THEN "index" ELSE IF q.does = "delete" THEN "erase" ELSE "write",
               end |-> q.end, creates |-> q.does = "create", ids |-> {}, found |-> {},
               new |-> IF q.does = "delete" THEN NoRow ELSE Outcome(q, row[q.end])])
  /\ overlapped' = (overlapped \/ \E d \in Requesters : call[d] # Served)
  /\ UNCHANGED <<row, listed>>

\* _clear_all_active: list every endpoint, then write those that were marked.
ReadsIndex(c) ==
  /\ IsAt(c, "index")
  /\ Turns(c, [call[c] EXCEPT !.at = "look", !.ids = listed])
  /\ UNCHANGED <<row, listed, overlapped>>

LooksAt(c) ==
  /\ IsAt(c, "look")
  /\ IF call[c].ids = {} THEN Onwards(c, "wipe")
     ELSE \E e \in call[c].ids :
            Turns(c, [call[c] EXCEPT
              !.ids = @ \ {e},
              !.found = IF row[e] # NoRow /\ (row[e].default \/ row[e].active # NoModel)
                          THEN @ \cup {<<e, Unmarked(row[e])>>} ELSE @])
  /\ UNCHANGED <<row, listed, overlapped>>

Wipes1(c) ==
  /\ IsAt(c, "wipe")
  /\ IF call[c].found = {} THEN Onwards(c, "write") /\ UNCHANGED row
     ELSE \E f \in call[c].found :
            /\ row' = [row EXCEPT ![f[1]] = f[2]]
            /\ Turns(c, [call[c] EXCEPT !.found = @ \ {f}])
  /\ UNCHANGED <<listed, overlapped>>

\* The record is written; a test reaches this when the network has answered.
WritesRow(c) ==
  /\ IsAt(c, "write")
  /\ row' = [row EXCEPT ![call[c].end] = call[c].new]
  /\ Turns(c, IF call[c].creates THEN [call[c] EXCEPT !.at = "list", !.new = NoRow] ELSE Served)
  /\ UNCHANGED <<listed, overlapped>>

ErasesRow(c) ==
  /\ IsAt(c, "erase")
  /\ row' = [row EXCEPT ![call[c].end] = NoRow]
  /\ Onwards(c, "list")
  /\ UNCHANGED <<listed, overlapped>>

\* The index is read, changed and written back.
ReadsList(c) ==
  /\ IsAt(c, "list")
  /\ Turns(c, [call[c] EXCEPT !.at = "save", !.ids = listed])
  /\ UNCHANGED <<row, listed, overlapped>>

SavesList(c) ==
  /\ IsAt(c, "save")
  /\ listed' = IF call[c].creates THEN call[c].ids \cup {call[c].end}
               ELSE IF call[c].end \in call[c].ids THEN call[c].ids \ {call[c].end}
               ELSE listed
  /\ Turns(c, Served)
  /\ UNCHANGED <<row, overlapped>>

\* A call of the database fails and with it the request.  The record of an
\* endpoint whose creation fails has an id that nobody was told.
RequestFails(c) ==
  /\ call[c] # Served
  /\ row' = IF call[c].creates THEN [row EXCEPT ![call[c].end] = NoRow] ELSE row
  /\ Turns(c, Served)
  /\ UNCHANGED <<listed, overlapped>>

EndpointNext ==
  \E c \in Requesters :
    \/ \E q \in Requests : Arrives(c, q)
    \/ ReadsIndex(c) \/ LooksAt(c) \/ Wipes1(c) \/ WritesRow(c)
    \/ ErasesRow(c) \/ ReadsList(c) \/ SavesList(c) \/ RequestFails(c)

EndpointSpec == EndpointInit /\ [][EndpointNext]_endpointVars

-----------------------------------------------------------------------------
Actives == {e \in listed : row[e] # NoRow /\ IsActive(row[e])}

(***************************************************************************)
(* However requests overlap, a record that has an active model offers that *)
(* model and carries the mark: records are written whole.                  *)
(***************************************************************************)
ActiveModelIsOffered ==
  \A e \in Saved : row[e] # NoRow /\ row[e].active # NoModel =>
    row[e].default /\ Offers(row[e].models, row[e].active)

(***************************************************************************)
(* As long as no two requests have ever overlapped, at most one endpoint   *)
(* carries the mark, at every moment and after any sequence of requests.   *)
(***************************************************************************)
OneActiveAlone ==
  ~overlapped => Cardinality({e \in Saved : row[e] # NoRow /\ row[e].default}) <= 1

\* Refuted: endpoint_manager.py:208-209, "Activation is global and unique -
\* exactly one (endpoint, model) pair may be active at a time".
OneActivePair == Cardinality(Actives) <= 1

\* Refuted: an endpoint whose creation is complete can be missing from the
\* index, and one whose deletion is complete can have a record.
IndexIsComplete ==
  (\A c \in Requesters : call[c] = Served) => listed = {e \in Saved : row[e] # NoRow}
=============================================================================
