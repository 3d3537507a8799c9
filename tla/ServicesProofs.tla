---------------------------- MODULE ServicesProofs ----------------------------
(***************************************************************************)
(* Theorems about the services that are configured apart from turns:       *)
(* endpoints, the choice of a model, the channels and the plugins.  They   *)
(* share no variable, so each has an inductive invariant of its own, and   *)
(* every theorem is about the specification of one of them.                *)
(***************************************************************************)
EXTENDS Endpoints, ModelChoice, Channels, PluginLoading, FiniteSetTheorems,
        SequenceTheorems, WellFoundedInduction, TLAPS

------------------------------------------------------------------------------
(* Endpoints *)

RowRecord == [models : ModelLists, default : BOOLEAN, active : ModelNames \cup {NoModel}]
CallRecord ==
  [at : {"index", "look", "wipe", "write", "erase", "list", "save"}, end : Saved,
   creates : BOOLEAN, ids : SUBSET Saved, found : SUBSET (Saved \X RowRecord),
   new : RowRecord \cup {NoRow}]

EndpointTyped ==
  /\ row \in [Saved -> RowRecord \cup {NoRow}] /\ listed \subseteq Saved
  /\ call \in [Requesters -> CallRecord \cup {Served}] /\ overlapped \in BOOLEAN

Present == {e \in Saved : row[e] # NoRow}
Defaults == {e \in Saved : row[e] # NoRow /\ row[e].default}
Firsts(pairs) == {f[1] : f \in pairs}

\* What one request knows when no other is under way: where the marks are and
\* which endpoints the index has.
Listing(c) ==
  LET req == call[c] IN
  /\ req.at \notin {"list", "save"} => Present \subseteq listed
  /\ req.at \in {"list", "save"} =>
       IF req.creates THEN Present \subseteq listed \cup {req.end} ELSE Present \subseteq listed \ {req.end}
  /\ req.at = "save" => req.ids = listed
  /\ req.at \in {"index", "look", "wipe", "write"} => req.creates \/ req.end \in listed

Marking(c) ==
  LET req == call[c] IN
  /\ req.at = "index" => req.found = {}
  /\ req.at = "look" => Defaults \subseteq req.ids \cup Firsts(req.found)
  /\ req.at = "wipe" => req.ids = {} /\ Defaults \subseteq Firsts(req.found)
  /\ req.at \in {"look", "wipe"} =>
       req.ids \cup Firsts(req.found) \subseteq listed /\ \A f \in req.found : ~f[2].default
  /\ req.at = "write" /\ req.new # NoRow /\ req.new.default => Defaults \subseteq {req.end}

OneByOne ==
  ~overlapped =>
    /\ \A c, d \in Requesters : call[c] # Served /\ call[d] # Served => c = d
    /\ \A c \in Requesters : call[c] # Served => Listing(c) /\ Marking(c)
    /\ (\A c \in Requesters : call[c] = Served) => Present \subseteq listed
    /\ \A e, f \in Defaults : e = f

EndpointInv == EndpointTyped /\ OneByOne

LEMMA FirstIsOffered ==
  ASSUME NEW l \in ModelLists
  PROVE  FirstOf(l) \in ModelNames \cup {NoModel}
<1>1. l \in Seq({l[k] : k \in DOMAIN l})
  BY EndpointAssumption DEF EndpointAssumption
<1>2. CASE l # <<>>
  <2>1. Len(l) \in Nat /\ Len(l) # 0 /\ DOMAIN l = 1..Len(l)
    BY <1>1, <1>2
  <2>2. 1 \in DOMAIN l
    BY <2>1
  <2> QED
    BY <1>2, <2>2 DEF FirstOf, ModelNames
<1>3. CASE l = <<>>
  BY <1>3 DEF FirstOf
<1> QED
  BY <1>2, <1>3

LEMMA ChangesAreRecords ==
  ASSUME NEW r \in RowRecord, NEW l \in ModelLists, NEW m \in ModelNames
  PROVE  /\ [r EXCEPT !.default = TRUE, !.active = m] \in RowRecord
         /\ Unmarked(r) \in RowRecord /\ ~Unmarked(r).default
         /\ Marked(r) \in RowRecord
         /\ [r EXCEPT !.models = l,
                      !.active = IF Offers(l, @) THEN @ ELSE NoModel] \in RowRecord
<1>1. FirstOf(r.models) \in ModelNames \cup {NoModel}
  BY FirstIsOffered DEF RowRecord
<1> QED
  BY <1>1 DEF RowRecord, Unmarked, Marked

\* What a request writes, and when it has the mark.
LEMMA OutcomeIsRecord ==
  ASSUME NEW q \in Requests, NEW r \in RowRecord \cup {NoRow},
         q.does # "delete", q.does = "create" \/ r # NoRow
  PROVE  /\ Outcome(q, r) \in RowRecord
         /\ Outcome(q, r).default => Clears(q) \/ (q.does \in {"update", "test"} /\ r.default)
<1>1. CASE q.does = "create"
  <2>1. q.models \in ModelLists /\ q.default \in BOOLEAN
    BY <1>1 DEF Requests
  <2>2. FirstOf(q.models) \in ModelNames \cup {NoModel}
    BY <2>1, FirstIsOffered
  <2> QED
    BY <1>1, <2>1, <2>2 DEF Outcome, NewRow, RowRecord, Clears
<1>2. CASE q.does = "update"
  <2>1. q.models \in ModelLists /\ q.patch \in {"none", "set", "unset"} /\ r \in RowRecord
    BY <1>2 DEF Requests
  <2>2. Revised(r, q) \in RowRecord /\ Revised(r, q).default = r.default
    BY <2>1, <1>2 DEF Revised, RowRecord
  <2>3. Marked(Revised(r, q)) \in RowRecord
    <3> HIDE DEF Revised
    <3> QED
      BY <2>2, FirstIsOffered DEF Marked, RowRecord
  <2>4. Unmarked(Revised(r, q)) \in RowRecord /\ ~Unmarked(Revised(r, q)).default
    BY <2>2 DEF Unmarked, RowRecord
  <2>5. CASE q.patch = "none"
    BY <1>2, <2>1, <2>2, <2>5 DEF Outcome
  <2>6. CASE q.patch = "set"
    BY <1>2, <2>1, <2>3, <2>6 DEF Outcome, Clears
  <2>7. CASE q.patch = "unset"
    BY <1>2, <2>1, <2>4, <2>7 DEF Outcome
  <2> QED
    BY <2>1, <2>5, <2>6, <2>7
<1>3. CASE q.does = "activate"
  <2>1. q.model \in ModelNames /\ r \in RowRecord
    BY <1>3 DEF Requests
  <2> QED
    BY <1>3, <2>1 DEF Outcome, RowRecord, Clears
<1>4. CASE q.does = "test"
  BY <1>4 DEF Outcome
<1> QED
  BY <1>1, <1>2, <1>3, <1>4 DEF Requests

LEMMA EndpointStarts == EndpointInit => EndpointInv
<1> SUFFICES ASSUME EndpointInit PROVE EndpointInv
  OBVIOUS
<1>1. EndpointTyped
  BY DEF EndpointInit, EndpointTyped
<1>2. Present = {} /\ Defaults = {} /\ \A c \in Requesters : call[c] = Served
  BY DEF EndpointInit, Present, Defaults
<1> QED
  BY <1>1, <1>2 DEF EndpointInv, OneByOne

\* A step of one request, the others being done when none has met another.
LEMMA OneRequestSteps ==
  ASSUME EndpointInv, EndpointTyped', NEW c \in Requesters,
         \A d \in Requesters \ {c} : call'[d] = call[d],
         ~overlapped' => \A d \in Requesters \ {c} : call[d] = Served,
         ~overlapped' /\ call'[c] # Served => Listing(c)' /\ Marking(c)',
         ~overlapped' /\ call'[c] = Served => Present' \subseteq listed',
         ~overlapped' => \A e, f \in Defaults' : e = f
  PROVE  EndpointInv'
<1> SUFFICES ASSUME ~overlapped'
             PROVE  /\ \A d, g \in Requesters : call'[d] # Served /\ call'[g] # Served => d = g
                    /\ \A d \in Requesters : call'[d] # Served => Listing(d)' /\ Marking(d)'
                    /\ (\A d \in Requesters : call'[d] = Served) => Present' \subseteq listed'
                    /\ \A e, f \in Defaults' : e = f
  BY DEF EndpointInv, OneByOne
<1>1. \A d \in Requesters : d # c => call'[d] = Served
  OBVIOUS
<1> QED
  BY <1>1

\* What a request may count on when it has met no other.
LEMMA AloneKnows ==
  ASSUME EndpointInv, NEW c \in Requesters, call[c] # Served
  PROVE  /\ call[c] \in CallRecord
         /\ ~overlapped => /\ \A d \in Requesters \ {c} : call[d] = Served
                          /\ Listing(c) /\ Marking(c)
                          /\ \A e, f \in Defaults : e = f
  BY DEF EndpointInv, EndpointTyped, OneByOne

LEMMA ArrivesKeeps ==
  ASSUME EndpointInv, NEW c \in Requesters, NEW q \in Requests, Arrives(c, q)
  PROVE  EndpointInv'
<1> DEFINE new == IF q.does = "delete" THEN NoRow ELSE Outcome(q, row[q.end])
<1> DEFINE at == IF Clears(q) THEN "index" ELSE IF q.does = "delete" THEN "erase" ELSE "write"
<1> DEFINE req == [at |-> at, end |-> q.end, creates |-> q.does = "create",
                   ids |-> {}, found |-> {}, new |-> new]
<1>1. q.end \in Saved /\ call[c] = Served /\ call' = [call EXCEPT ![c] = req] /\ UNCHANGED <<row, listed>>
  BY DEF Arrives, Turns, Requests
<1>2. row[q.end] \in RowRecord \cup {NoRow}
  BY <1>1 DEF EndpointInv, EndpointTyped
<1>3. q.does = "create" \/ row[q.end] # NoRow
  BY DEF Arrives, Accepts, Requests
<1>4. q.does # "delete" =>
        /\ new \in RowRecord
        /\ new.default => Clears(q) \/ (row[q.end].default /\ row[q.end] # NoRow)
  <2> SUFFICES ASSUME q.does # "delete"
               PROVE  /\ Outcome(q, row[q.end]) \in RowRecord
                      /\ Outcome(q, row[q.end]).default =>
                           Clears(q) \/ (row[q.end].default /\ row[q.end] # NoRow)
    OBVIOUS
  <2>1. /\ Outcome(q, row[q.end]) \in RowRecord
        /\ Outcome(q, row[q.end]).default =>
             Clears(q) \/ (q.does \in {"update", "test"} /\ row[q.end].default)
    BY <1>2, <1>3, OutcomeIsRecord
  <2> QED
    BY <2>1, <1>3
<1>5. req \in CallRecord
  BY <1>1, <1>4 DEF CallRecord
<1>6. call \in [Requesters -> CallRecord \cup {Served}]
  BY DEF EndpointInv, EndpointTyped
<1>7. EndpointTyped'
  <2>1. overlapped' \in BOOLEAN
    BY DEF Arrives, EndpointInv, EndpointTyped
  <2>2. call' \in [Requesters -> CallRecord \cup {Served}]
    BY <1>1, <1>5, <1>6
  <2> QED
    BY <1>1, <2>1, <2>2 DEF EndpointInv, EndpointTyped
<1>8. call'[c] = req /\ \A d \in Requesters \ {c} : call'[d] = call[d]
  BY <1>1, <1>6
<1>9. ~overlapped' => ~overlapped /\ \A d \in Requesters : call[d] = Served
  BY DEF Arrives
<1>10. Present' = Present /\ Defaults' = Defaults
  BY <1>1 DEF Present, Defaults
<1>11. ~overlapped' => Present \subseteq listed /\ \A e, f \in Defaults : e = f
  BY <1>9 DEF EndpointInv, OneByOne
<1>12. ASSUME ~overlapped' PROVE Listing(c)'
  <2>1. req.at \in {"index", "write", "erase"} /\ req.end = q.end /\ (req.creates <=> q.does = "create")
    OBVIOUS
  <2>2. q.does # "create" => q.end \in listed
    BY <1>1, <1>3, <1>11, <1>12 DEF Present
  <2> HIDE DEF req
  <2>3. Listing(c)' <=>
          /\ req.at \notin {"list", "save"} => Present' \subseteq listed'
          /\ req.at \in {"list", "save"} =>
               IF req.creates THEN Present' \subseteq listed' \cup {req.end}
               ELSE Present' \subseteq listed' \ {req.end}
          /\ req.at = "save" => req.ids = listed'
          /\ req.at \in {"index", "look", "wipe", "write"} => req.creates \/ req.end \in listed'
    BY <1>8 DEF Listing
  <2> QED
    BY <2>1, <2>2, <2>3, <1>1, <1>10, <1>11, <1>12
<1>13. ASSUME ~overlapped' PROVE Marking(c)'
  <2>1. req.at \in {"index", "write", "erase"} /\ req.end = q.end /\ req.new = new
        /\ req.found = {}
    OBVIOUS
  <2>2. req.at = "write" => ~Clears(q) /\ q.does # "delete"
    OBVIOUS
  <2>3. req.at = "write" /\ new.default => Defaults \subseteq {q.end}
    <3> SUFFICES ASSUME req.at = "write", new.default PROVE Defaults \subseteq {q.end}
      OBVIOUS
    <3>1. q.end \in Defaults
      BY <2>2, <1>4, <1>1 DEF Defaults
    <3> QED
      BY <3>1, <1>11, <1>13
  <2> HIDE DEF req, new
  <2>4. Marking(c)' <=>
          /\ req.at = "index" => req.found = {}
          /\ req.at = "look" => Defaults' \subseteq req.ids \cup Firsts(req.found)
          /\ req.at = "wipe" => req.ids = {} /\ Defaults' \subseteq Firsts(req.found)
          /\ req.at \in {"look", "wipe"} =>
               /\ req.ids \cup Firsts(req.found) \subseteq listed'
               /\ \A f \in req.found : ~f[2].default
          /\ req.at = "write" /\ req.new # NoRow /\ req.new.default => Defaults' \subseteq {req.end}
    BY <1>8 DEF Marking
  <2> QED
    BY <2>1, <2>3, <2>4, <1>10
<1>14. call'[c] # Served
  BY <1>8 DEF Served
<1> HIDE DEF req, new, at
<1> QED
  BY <1>7, <1>8, <1>9, <1>10, <1>11, <1>12, <1>13, <1>14, OneRequestSteps

\* A step of one request that leaves the history alone.
LEMMA RequestGoesOn ==
  ASSUME EndpointInv, NEW c \in Requesters, call[c] # Served,
         call' = [call EXCEPT ![c] = call'[c]], call'[c] \in CallRecord \cup {Served},
         row' \in [Saved -> RowRecord \cup {NoRow}], listed' \subseteq Saved, overlapped' = overlapped,
         ~overlapped /\ call'[c] # Served => Listing(c)' /\ Marking(c)',
         ~overlapped /\ call'[c] = Served => Present' \subseteq listed',
         ~overlapped => \A e, f \in Defaults' : e = f
  PROVE  EndpointInv'
<1>1. call \in [Requesters -> CallRecord \cup {Served}] /\ overlapped \in BOOLEAN
  BY DEF EndpointInv, EndpointTyped
<1>2. EndpointTyped'
  <2>1. call' \in [Requesters -> CallRecord \cup {Served}]
    BY <1>1
  <2> QED
    BY <1>1, <2>1 DEF EndpointTyped
<1>3. \A d \in Requesters \ {c} : call'[d] = call[d]
  BY <1>1
<1> QED
  BY <1>2, <1>3, AloneKnows, OneRequestSteps

LEMMA ReadsIndexKeeps ==
  ASSUME EndpointInv, NEW c \in Requesters, ReadsIndex(c)
  PROVE  EndpointInv'
<1>1. call[c] # Served /\ call[c].at = "index" /\ UNCHANGED <<row, listed, overlapped>>
      /\ call' = [call EXCEPT ![c] = [call[c] EXCEPT !.at = "look", !.ids = listed]]
  BY DEF ReadsIndex, IsAt, Turns, Served
<1>2. /\ call[c] \in CallRecord
      /\ ~overlapped => Listing(c) /\ Marking(c) /\ \A e, f \in Defaults : e = f
  BY <1>1, AloneKnows
<1>3. /\ call \in [Requesters -> CallRecord \cup {Served}] /\ listed \subseteq Saved
      /\ row \in [Saved -> RowRecord \cup {NoRow}]
  BY DEF EndpointInv, EndpointTyped
<1>4. call'[c] = [call[c] EXCEPT !.at = "look", !.ids = listed]
  BY <1>1, <1>3
<1>5. /\ call'[c] \in CallRecord /\ call'[c].at = "look" /\ call'[c].ids = listed
      /\ call'[c].creates = call[c].creates /\ call'[c].end = call[c].end
      /\ call'[c].found = call[c].found
  BY <1>2, <1>3, <1>4 DEF CallRecord
<1>6. Present' = Present /\ Defaults' = Defaults /\ Defaults \subseteq Present
  BY <1>1 DEF Present, Defaults
<1>7. ~overlapped => Listing(c)' /\ Marking(c)'
  BY <1>1, <1>2, <1>5, <1>6 DEF Listing, Marking, Firsts
<1>8. call'[c] # Served
  BY <1>5 DEF Served
<1>9. call' = [call EXCEPT ![c] = call'[c]]
  BY <1>1, <1>4, Zenon
<1> QED
  BY <1>1, <1>2, <1>3, <1>5, <1>6, <1>7, <1>8, <1>9, RequestGoesOn

LEMMA LooksAtKeeps ==
  ASSUME EndpointInv, NEW c \in Requesters, LooksAt(c)
  PROVE  EndpointInv'
<1>1. call[c] # Served /\ call[c].at = "look" /\ UNCHANGED <<row, listed, overlapped>>
  <2>1. IsAt(c, "look") /\ UNCHANGED <<row, listed, overlapped>>
    BY DEF LooksAt
  <2> QED
    BY <2>1 DEF IsAt, Served
<1>2. /\ call[c] \in CallRecord
      /\ ~overlapped => Listing(c) /\ Marking(c) /\ \A e, f \in Defaults : e = f
  BY <1>1, AloneKnows
<1>3. /\ call \in [Requesters -> CallRecord \cup {Served}] /\ listed \subseteq Saved
      /\ row \in [Saved -> RowRecord \cup {NoRow}]
  BY DEF EndpointInv, EndpointTyped
<1>4. Present' = Present /\ Defaults' = Defaults
  BY <1>1 DEF Present, Defaults
<1>5. CASE call[c].ids = {}
  <2>1. call' = [call EXCEPT ![c] = [call[c] EXCEPT !.at = "wipe"]]
    BY <1>5 DEF LooksAt, Onwards, Turns
  <2>2. call'[c] = [call[c] EXCEPT !.at = "wipe"]
    BY <2>1, <1>3
  <2>3. /\ call'[c] \in CallRecord /\ call'[c].at = "wipe" /\ call'[c].ids = {}
        /\ call'[c].creates = call[c].creates /\ call'[c].end = call[c].end
        /\ call'[c].found = call[c].found
    BY <1>2, <2>2, <1>5 DEF CallRecord
  <2>4. ~overlapped => Listing(c)' /\ Marking(c)'
    BY <1>1, <1>2, <1>4, <1>5, <2>3 DEF Listing, Marking
  <2>5. call'[c] # Served
    BY <2>3 DEF Served
  <2>6. call' = [call EXCEPT ![c] = call'[c]]
    BY <2>1, <2>2, Zenon
  <2> QED
    BY <1>1, <1>2, <1>3, <1>4, <2>3, <2>4, <2>5, <2>6, RequestGoesOn
<1>6. CASE call[c].ids # {}
  <2>1. PICK e \in call[c].ids : call' = [call EXCEPT ![c] = [call[c] EXCEPT
          !.ids = call[c].ids \ {e},
          !.found = IF row[e] # NoRow /\ (row[e].default \/ row[e].active # NoModel)
                      THEN call[c].found \cup {<<e, Unmarked(row[e])>>} ELSE call[c].found]]
    BY <1>6 DEF LooksAt, Turns
  <2>2. e \in Saved /\ row[e] \in RowRecord \cup {NoRow}
    BY <1>2, <1>3 DEF CallRecord
  <2>3. row[e] # NoRow => Unmarked(row[e]) \in RowRecord /\ ~Unmarked(row[e]).default
    BY <2>2 DEF RowRecord, Unmarked
  <2> DEFINE found == IF row[e] # NoRow /\ (row[e].default \/ row[e].active # NoModel)
                        THEN call[c].found \cup {<<e, Unmarked(row[e])>>} ELSE call[c].found
  <2>4. call'[c] = [call[c] EXCEPT !.ids = call[c].ids \ {e}, !.found = found]
    BY <2>1, <1>3
  <2>5. found \in SUBSET (Saved \X RowRecord)
    BY <1>2, <2>2, <2>3 DEF CallRecord
  <2>6. /\ Firsts(found) \subseteq Firsts(call[c].found) \cup {e}
        /\ Firsts(call[c].found) \subseteq Firsts(found)
        /\ row[e] # NoRow /\ row[e].default => e \in Firsts(found)
    <3>1. found = call[c].found \/ found = call[c].found \cup {<<e, Unmarked(row[e])>>}
      OBVIOUS
    <3>2. row[e] # NoRow /\ row[e].default => <<e, Unmarked(row[e])>> \in found
      OBVIOUS
    <3> HIDE DEF found
    <3>3. Firsts(found) \subseteq Firsts(call[c].found) \cup {e}
      BY <3>1 DEF Firsts
    <3>4. Firsts(call[c].found) \subseteq Firsts(found)
      BY <3>1 DEF Firsts
    <3>5. row[e] # NoRow /\ row[e].default => e \in Firsts(found)
      BY <3>2 DEF Firsts
    <3> QED
      BY <3>3, <3>4, <3>5
  <2>7. (\A f \in call[c].found : ~f[2].default) => \A f \in found : ~f[2].default
    BY <2>3
  <2> HIDE DEF found
  <2>8. /\ call'[c] \in CallRecord /\ call'[c].at = "look" /\ call'[c].ids = call[c].ids \ {e}
        /\ call'[c].creates = call[c].creates /\ call'[c].end = call[c].end
        /\ call'[c].found = found
    BY <1>1, <1>2, <2>4, <2>5 DEF CallRecord
  <2>9. ~overlapped => Listing(c)'
    BY <1>1, <1>2, <1>4, <2>8 DEF Listing
  <2>10. ASSUME ~overlapped PROVE Marking(c)'
    <3>1. Defaults \subseteq call[c].ids \cup Firsts(call[c].found)
          /\ call[c].ids \cup Firsts(call[c].found) \subseteq listed
          /\ \A f \in call[c].found : ~f[2].default
      BY <1>1, <1>2, <2>10 DEF Marking
    <3>2. Defaults \subseteq (call[c].ids \ {e}) \cup Firsts(found)
      BY <3>1, <2>6 DEF Defaults
    <3>3. (call[c].ids \ {e}) \cup Firsts(found) \subseteq listed
      BY <3>1, <2>6
    <3> QED
      BY <3>1, <3>2, <3>3, <1>1, <1>4, <2>7, <2>8 DEF Marking
  <2>11. call'[c] # Served
    BY <2>8 DEF Served
  <2>12. call' = [call EXCEPT ![c] = call'[c]]
    BY <2>1, <2>4, Zenon DEF found
  <2> QED
    BY <1>1, <1>2, <1>3, <1>4, <2>8, <2>9, <2>10, <2>11, <2>12, RequestGoesOn
<1> QED
  BY <1>5, <1>6
LEMMA Wipes1Keeps ==
  ASSUME EndpointInv, NEW c \in Requesters, Wipes1(c)
  PROVE  EndpointInv'
<1>1. call[c] # Served /\ call[c].at = "wipe"
  <2>1. IsAt(c, "wipe")
    BY DEF Wipes1
  <2> QED
    BY <2>1 DEF IsAt, Served
<1>2. /\ call[c] \in CallRecord
      /\ ~overlapped => Listing(c) /\ Marking(c) /\ \A e, f \in Defaults : e = f
  BY <1>1, AloneKnows
<1>3. /\ call \in [Requesters -> CallRecord \cup {Served}] /\ listed \subseteq Saved
      /\ row \in [Saved -> RowRecord \cup {NoRow}]
  BY DEF EndpointInv, EndpointTyped
<1>4. CASE call[c].found = {}
  <2>1. /\ call' = [call EXCEPT ![c] = [call[c] EXCEPT !.at = "write"]]
        /\ UNCHANGED <<row, listed, overlapped>>
    BY <1>4 DEF Wipes1, Onwards, Turns
  <2>2. call'[c] = [call[c] EXCEPT !.at = "write"]
    BY <2>1, <1>3
  <2>3. /\ call'[c] \in CallRecord /\ call'[c].at = "write"
        /\ call'[c].creates = call[c].creates /\ call'[c].end = call[c].end
    BY <1>2, <2>2 DEF CallRecord
  <2>4. Present' = Present /\ Defaults' = Defaults
    BY <2>1 DEF Present, Defaults
  <2>5. ~overlapped => Listing(c)'
    BY <1>1, <1>2, <2>1, <2>3, <2>4 DEF Listing
  <2>6. ~overlapped => Marking(c)'
    BY <1>1, <1>2, <1>4, <2>1, <2>3, <2>4 DEF Marking, Firsts
  <2>7. call'[c] # Served
    BY <2>3 DEF Served
  <2>8. call' = [call EXCEPT ![c] = call'[c]]
    BY <2>1, <2>2, Zenon
  <2> QED
    BY <1>1, <1>2, <1>3, <2>1, <2>3, <2>4, <2>5, <2>6, <2>7, <2>8, RequestGoesOn
<1>5. CASE call[c].found # {}
  <2>1. PICK f \in call[c].found :
          /\ row' = [row EXCEPT ![f[1]] = f[2]]
          /\ call' = [call EXCEPT ![c] = [call[c] EXCEPT !.found = call[c].found \ {f}]]
    BY <1>5 DEF Wipes1, Turns
  <2>2. UNCHANGED <<listed, overlapped>>
    BY DEF Wipes1
  <2>3. f[1] \in Saved /\ f[2] \in RowRecord
    BY <1>2 DEF CallRecord
  <2>4. call'[c] = [call[c] EXCEPT !.found = call[c].found \ {f}]
    BY <2>1, <1>3
  <2>5. /\ call'[c] \in CallRecord /\ call'[c].at = "wipe" /\ call'[c].ids = call[c].ids
        /\ call'[c].creates = call[c].creates /\ call'[c].end = call[c].end
        /\ call'[c].found = call[c].found \ {f}
    BY <1>1, <1>2, <2>4 DEF CallRecord
  <2>6. /\ row' \in [Saved -> RowRecord \cup {NoRow}]
        /\ row'[f[1]] = f[2] /\ \A e \in Saved \ {f[1]} : row'[e] = row[e]
    BY <1>3, <2>1, <2>3
  <2>7. Present' \subseteq Present \cup {f[1]}
    BY <2>6 DEF Present
  <2>8. ASSUME ~overlapped
        PROVE  f[1] \in listed /\ ~f[2].default /\ Present \subseteq listed
               /\ Defaults \subseteq Firsts(call[c].found)
    BY <1>1, <1>2, <2>8 DEF Marking, Listing, Firsts
  <2>9. ASSUME ~overlapped PROVE Defaults' \subseteq Defaults \ {f[1]}
    BY <2>6, <2>8, <2>9 DEF Defaults
  <2>10. Firsts(call[c].found) \ {f[1]} \subseteq Firsts(call[c].found \ {f})
         /\ Firsts(call[c].found \ {f}) \subseteq Firsts(call[c].found)
    BY DEF Firsts
  <2>11. ~overlapped => Listing(c)'
    BY <1>1, <1>2, <2>2, <2>5, <2>7, <2>8 DEF Listing
  <2>12. ASSUME ~overlapped PROVE Marking(c)'
    <3>1. call[c].ids = {} /\ Firsts(call[c].found) \subseteq listed
          /\ \A g \in call[c].found : ~g[2].default
      BY <1>1, <1>2, <2>12 DEF Marking
    <3>2. Defaults' \subseteq Firsts(call[c].found \ {f})
      BY <2>8, <2>9, <2>10, <2>12
    <3> QED
      BY <2>2, <2>5, <2>10, <3>1, <3>2 DEF Marking
  <2>13. call'[c] # Served
    BY <2>5 DEF Served
  <2>14. call' = [call EXCEPT ![c] = call'[c]]
    BY <2>1, <2>4, Zenon
  <2> QED
    BY <1>1, <1>2, <1>3, <2>2, <2>5, <2>6, <2>9, <2>11, <2>12, <2>13, <2>14, RequestGoesOn
<1> QED
  BY <1>4, <1>5

LEMMA WritesRowKeeps ==
  ASSUME EndpointInv, NEW c \in Requesters, WritesRow(c)
  PROVE  EndpointInv'
<1>1. call[c] # Served /\ call[c].at = "write"
  <2>1. IsAt(c, "write")
    BY DEF WritesRow
  <2> QED
    BY <2>1 DEF IsAt, Served
<1>2. /\ call[c] \in CallRecord
      /\ ~overlapped => Listing(c) /\ Marking(c) /\ \A e, f \in Defaults : e = f
  BY <1>1, AloneKnows
<1>3. /\ call \in [Requesters -> CallRecord \cup {Served}] /\ listed \subseteq Saved
      /\ row \in [Saved -> RowRecord \cup {NoRow}]
  BY DEF EndpointInv, EndpointTyped
<1>4. row' = [row EXCEPT ![call[c].end] = call[c].new] /\ UNCHANGED <<listed, overlapped>>
  BY DEF WritesRow
<1>5. call[c].end \in Saved /\ call[c].new \in RowRecord \cup {NoRow} /\ call[c].creates \in BOOLEAN
  BY <1>2 DEF CallRecord
<1>6. /\ row' \in [Saved -> RowRecord \cup {NoRow}]
      /\ row'[call[c].end] = call[c].new /\ \A e \in Saved \ {call[c].end} : row'[e] = row[e]
  BY <1>3, <1>4, <1>5
<1>7. Present' \subseteq Present \cup {call[c].end}
  BY <1>6 DEF Present
<1>8. ASSUME ~overlapped PROVE \A e, f \in Defaults' : e = f
  <2>1. /\ call[c].new # NoRow /\ call[c].new.default => Defaults \subseteq {call[c].end}
        /\ \A e, f \in Defaults : e = f
    BY <1>1, <1>2, <1>8 DEF Marking
  <2>2. CASE call[c].new # NoRow /\ call[c].new.default
    BY <2>1, <2>2, <1>6 DEF Defaults
  <2>3. CASE ~(call[c].new # NoRow /\ call[c].new.default)
    <3>1. Defaults' \subseteq Defaults
      BY <2>3, <1>6 DEF Defaults
    <3> QED
      BY <2>1, <3>1
  <2> QED
    BY <2>2, <2>3
<1>9. ASSUME ~overlapped
      PROVE  Present \subseteq listed /\ (call[c].creates \/ call[c].end \in listed)
  BY <1>1, <1>2, <1>9 DEF Listing
<1>10. CASE call[c].creates
  <2>1. call' = [call EXCEPT ![c] = [call[c] EXCEPT !.at = "list", !.new = NoRow]]
    BY <1>10 DEF WritesRow, Turns
  <2>2. call'[c] = [call[c] EXCEPT !.at = "list", !.new = NoRow]
    BY <2>1, <1>3
  <2>3. /\ call'[c] \in CallRecord /\ call'[c].at = "list"
        /\ call'[c].creates = call[c].creates /\ call'[c].end = call[c].end
    BY <1>2, <2>2 DEF CallRecord
  <2>4. ~overlapped => Listing(c)'
    BY <1>4, <1>7, <1>9, <1>10, <2>3 DEF Listing
  <2>5. ~overlapped => Marking(c)'
    BY <2>3 DEF Marking
  <2>6. call'[c] # Served
    BY <2>3 DEF Served
  <2>7. call' = [call EXCEPT ![c] = call'[c]]
    BY <2>1, <2>2, Zenon
  <2> QED
    BY <1>1, <1>3, <1>4, <1>6, <1>8, <2>3, <2>4, <2>5, <2>6, <2>7, RequestGoesOn
<1>11. CASE ~call[c].creates
  <2>1. call' = [call EXCEPT ![c] = Served]
    BY <1>11 DEF WritesRow, Turns
  <2>2. call'[c] = Served
    BY <2>1, <1>3
  <2>3. call' = [call EXCEPT ![c] = call'[c]]
    BY <2>1, <2>2, Zenon
  <2>4. ~overlapped => Present' \subseteq listed'
    BY <1>4, <1>7, <1>9, <1>11
  <2> QED
    BY <1>1, <1>3, <1>4, <1>6, <1>8, <2>2, <2>3, <2>4, RequestGoesOn
<1> QED
  BY <1>5, <1>10, <1>11

LEMMA ErasesRowKeeps ==
  ASSUME EndpointInv, NEW c \in Requesters, ErasesRow(c)
  PROVE  EndpointInv'
<1>1. call[c] # Served /\ call[c].at = "erase"
  <2>1. IsAt(c, "erase")
    BY DEF ErasesRow
  <2> QED
    BY <2>1 DEF IsAt, Served
<1>2. /\ call[c] \in CallRecord
      /\ ~overlapped => Listing(c) /\ Marking(c) /\ \A e, f \in Defaults : e = f
  BY <1>1, AloneKnows
<1>3. /\ call \in [Requesters -> CallRecord \cup {Served}] /\ listed \subseteq Saved
      /\ row \in [Saved -> RowRecord \cup {NoRow}]
  BY DEF EndpointInv, EndpointTyped
<1>4. /\ row' = [row EXCEPT ![call[c].end] = NoRow] /\ UNCHANGED <<listed, overlapped>>
      /\ call' = [call EXCEPT ![c] = [call[c] EXCEPT !.at = "list"]]
  BY DEF ErasesRow, Onwards, Turns
<1>5. call[c].end \in Saved /\ call[c].creates \in BOOLEAN
  BY <1>2 DEF CallRecord
<1>6. /\ row' \in [Saved -> RowRecord \cup {NoRow}]
      /\ row'[call[c].end] = NoRow /\ \A e \in Saved \ {call[c].end} : row'[e] = row[e]
  BY <1>3, <1>4, <1>5
<1>7. Present' \subseteq Present \ {call[c].end} /\ Defaults' \subseteq Defaults
  BY <1>6 DEF Present, Defaults
<1>8. call'[c] = [call[c] EXCEPT !.at = "list"]
  BY <1>4, <1>3
<1>9. /\ call'[c] \in CallRecord /\ call'[c].at = "list"
      /\ call'[c].creates = call[c].creates /\ call'[c].end = call[c].end
  BY <1>2, <1>8 DEF CallRecord
<1>10. ~overlapped => Present \subseteq listed
  BY <1>1, <1>2 DEF Listing
<1>11. ~overlapped => Listing(c)' /\ Marking(c)'
  BY <1>4, <1>5, <1>7, <1>9, <1>10 DEF Listing, Marking
<1>12. call'[c] # Served
  BY <1>9 DEF Served
<1>13. call' = [call EXCEPT ![c] = call'[c]]
  BY <1>4, <1>8, Zenon
<1>14. ~overlapped => \A e, f \in Defaults' : e = f
  BY <1>2, <1>7
<1> QED
  BY <1>1, <1>3, <1>4, <1>6, <1>9, <1>11, <1>12, <1>13, <1>14, RequestGoesOn

LEMMA ReadsListKeeps ==
  ASSUME EndpointInv, NEW c \in Requesters, ReadsList(c)
  PROVE  EndpointInv'
<1>1. call[c] # Served /\ call[c].at = "list"
  <2>1. IsAt(c, "list")
    BY DEF ReadsList
  <2> QED
    BY <2>1 DEF IsAt, Served
<1>2. /\ call[c] \in CallRecord
      /\ ~overlapped => Listing(c) /\ Marking(c) /\ \A e, f \in Defaults : e = f
  BY <1>1, AloneKnows
<1>3. /\ call \in [Requesters -> CallRecord \cup {Served}] /\ listed \subseteq Saved
      /\ row \in [Saved -> RowRecord \cup {NoRow}]
  BY DEF EndpointInv, EndpointTyped
<1>4. /\ UNCHANGED <<row, listed, overlapped>>
      /\ call' = [call EXCEPT ![c] = [call[c] EXCEPT !.at = "save", !.ids = listed]]
  BY DEF ReadsList, Turns
<1>5. Present' = Present /\ Defaults' = Defaults
  BY <1>4 DEF Present, Defaults
<1>6. call'[c] = [call[c] EXCEPT !.at = "save", !.ids = listed]
  BY <1>4, <1>3
<1>7. /\ call'[c] \in CallRecord /\ call'[c].at = "save" /\ call'[c].ids = listed
      /\ call'[c].creates = call[c].creates /\ call'[c].end = call[c].end
  BY <1>2, <1>3, <1>6 DEF CallRecord
<1>8. ~overlapped => Listing(c)' /\ Marking(c)'
  BY <1>1, <1>2, <1>4, <1>5, <1>7 DEF Listing, Marking
<1>9. call'[c] # Served
  BY <1>7 DEF Served
<1>10. call' = [call EXCEPT ![c] = call'[c]]
  BY <1>4, <1>6, Zenon
<1> QED
  BY <1>1, <1>2, <1>3, <1>4, <1>5, <1>7, <1>8, <1>9, <1>10, RequestGoesOn

LEMMA SavesListKeeps ==
  ASSUME EndpointInv, NEW c \in Requesters, SavesList(c)
  PROVE  EndpointInv'
<1>1. call[c] # Served /\ call[c].at = "save"
  <2>1. IsAt(c, "save")
    BY DEF SavesList
  <2> QED
    BY <2>1 DEF IsAt, Served
<1>2. /\ call[c] \in CallRecord
      /\ ~overlapped => Listing(c) /\ Marking(c) /\ \A e, f \in Defaults : e = f
  BY <1>1, AloneKnows
<1>3. /\ call \in [Requesters -> CallRecord \cup {Served}] /\ listed \subseteq Saved
      /\ row \in [Saved -> RowRecord \cup {NoRow}]
  BY DEF EndpointInv, EndpointTyped
<1>4. /\ UNCHANGED <<row, overlapped>> /\ call' = [call EXCEPT ![c] = Served]
      /\ listed' = IF call[c].creates THEN call[c].ids \cup {call[c].end}
                   ELSE IF call[c].end \in call[c].ids THEN call[c].ids \ {call[c].end} ELSE listed
  BY DEF SavesList, Turns
<1>5. call[c].end \in Saved /\ call[c].ids \subseteq Saved
  BY <1>2 DEF CallRecord
<1>6. Present' = Present /\ Defaults' = Defaults /\ listed' \subseteq Saved
  BY <1>3, <1>4, <1>5 DEF Present, Defaults
<1>7. call'[c] = Served
  BY <1>3, <1>4
<1>8. call' = [call EXCEPT ![c] = call'[c]]
  BY <1>4, <1>7, Zenon
<1>9. ASSUME ~overlapped PROVE Present \subseteq listed'
  <2>1. /\ call[c].ids = listed
        /\ IF call[c].creates THEN Present \subseteq listed \cup {call[c].end}
           ELSE Present \subseteq listed \ {call[c].end}
    BY <1>1, <1>2, <1>9 DEF Listing
  <2> QED
    BY <1>4, <2>1
<1> QED
  BY <1>1, <1>2, <1>3, <1>4, <1>6, <1>7, <1>8, <1>9, RequestGoesOn

LEMMA RequestFailsKeeps ==
  ASSUME EndpointInv, NEW c \in Requesters, RequestFails(c)
  PROVE  EndpointInv'
<1>1. /\ call[c] # Served /\ UNCHANGED <<listed, overlapped>> /\ call' = [call EXCEPT ![c] = Served]
      /\ row' = IF call[c].creates THEN [row EXCEPT ![call[c].end] = NoRow] ELSE row
  BY DEF RequestFails, Turns
<1>2. /\ call[c] \in CallRecord
      /\ ~overlapped => Listing(c) /\ Marking(c) /\ \A e, f \in Defaults : e = f
  BY <1>1, AloneKnows
<1>3. /\ call \in [Requesters -> CallRecord \cup {Served}] /\ listed \subseteq Saved
      /\ row \in [Saved -> RowRecord \cup {NoRow}]
  BY DEF EndpointInv, EndpointTyped
<1>4. call'[c] = Served
  BY <1>1, <1>3
<1>5. call' = [call EXCEPT ![c] = call'[c]]
  BY <1>1, <1>4, Zenon
<1>6. call[c].end \in Saved /\ call[c].creates \in BOOLEAN
  BY <1>2 DEF CallRecord
<1>7. /\ row' \in [Saved -> RowRecord \cup {NoRow}]
      /\ \A e \in Saved : row'[e] = IF call[c].creates /\ e = call[c].end THEN NoRow ELSE row[e]
  BY <1>1, <1>3, <1>6
<1>8. Defaults' \subseteq Defaults
  BY <1>7 DEF Defaults
<1>9. Present' \subseteq Present /\ (call[c].creates => Present' \subseteq Present \ {call[c].end})
  BY <1>7 DEF Present
<1>10. ~overlapped => Present' \subseteq listed
  BY <1>2, <1>6, <1>9 DEF Listing
<1>11. ~overlapped => \A e, f \in Defaults' : e = f
  BY <1>2, <1>8
<1> QED
  BY <1>1, <1>3, <1>4, <1>5, <1>7, <1>10, <1>11, RequestGoesOn

(* Rows, the index and the records of requests keep their types, and what a request
   that met no other knows is so. *)
THEOREM EndpointInvAlways == EndpointSpec => []EndpointInv
<1>1. EndpointInit => EndpointInv
  BY EndpointStarts
<1>2. EndpointInv /\ UNCHANGED endpointVars => EndpointInv'
  BY DEF EndpointInv, EndpointTyped, OneByOne, Listing, Marking, Present, Defaults, endpointVars
<1>3. EndpointInv /\ EndpointNext => EndpointInv'
  BY ArrivesKeeps, ReadsIndexKeeps, LooksAtKeeps, Wipes1Keeps, WritesRowKeeps, ErasesRowKeeps,
     ReadsListKeeps, SavesListKeeps, RequestFailsKeeps DEF EndpointNext
<1> QED
  BY <1>1, <1>2, <1>3, PTL DEF EndpointSpec

(* The rows, the index and the phases of requests keep their types. *)
THEOREM EndpointTypeCorrect == EndpointSpec => []EndpointTypeOK
<1>1. EndpointInv => EndpointTypeOK
  BY DEF EndpointInv, EndpointTyped, EndpointTypeOK, RowRecord, CallRecord, Served
<1> QED
  BY <1>1, EndpointInvAlways, PTL

(* endpoint_manager.py: requests that come one by one leave at most one endpoint marked,
   whatever they do and wherever they fail. *)
THEOREM OneActiveAloneHolds == EndpointSpec => []OneActiveAlone
<1>1. EndpointInv => OneActiveAlone
  <2> SUFFICES ASSUME EndpointInv, ~overlapped PROVE Cardinality(Defaults) <= 1
    BY DEF OneActiveAlone, Defaults
  <2>1. \A e, f \in Defaults : e = f
    BY DEF EndpointInv, OneByOne
  <2>2. CASE Defaults = {}
    BY <2>2, FS_EmptySet
  <2>3. CASE Defaults # {}
    <3>1. PICK e : e \in Defaults
      BY <2>3
    <3>2. Defaults = {e}
      BY <3>1, <2>1
    <3>3. Cardinality({e}) = 1
      BY FS_Singleton
    <3> QED
      BY <3>2, <3>3
  <2> QED
    BY <2>2, <2>3
<1> QED
  BY <1>1, EndpointInvAlways, PTL

------------------------------------------------------------------------------
(* Programs: what a request has still to do *)

\* A sequence of steps in which every two neighbours are one of pairs and the last is one of ends.
Chained(prog, steps, pairs, ends) ==
  /\ prog \in Seq(steps) /\ prog # <<>> /\ prog[Len(prog)] \in ends
  /\ \A k \in 1..(Len(prog) - 1) : <<prog[k], prog[k + 1]>> \in pairs
Has(prog, step) == \E k \in DOMAIN prog : prog[k] = step

------------------------------------------------------------------------------
(* Channels *)

ChannelSteps == {"lock", "stop", "apply", "enabled", "bot", "load", "start",
                 "stop_qq", "apply_qq", "enabled_qq", "start_qq"}
SwapPairs == {<<"lock", "stop">>, <<"stop", "apply">>, <<"apply", "enabled">>, <<"enabled", "bot">>,
              <<"bot", "load">>, <<"load", "start">>, <<"lock", "stop_qq">>, <<"stop_qq", "apply_qq">>,
              <<"apply_qq", "enabled_qq">>, <<"enabled_qq", "start_qq">>}
BootPairs == {<<"load", "start">>, <<"start", "start_qq">>}
PairsOf(boot) == IF boot THEN BootPairs ELSE SwapPairs
EndsOf(boot) == IF boot THEN {"start_qq"} ELSE {"start", "start_qq"}

WeChatConfig == [on : BOOLEAN, bot : Bots \cup {None}, token : Tokens \cup {None}]
ChannelState == {NoChannel, [loop |-> "needs_login"]}
                  \cup [loop : {"polling", "running", "replying"}, token : Tokens, left : Int]
PlanRecord ==
  [todo : Seq(ChannelSteps), new : WeChatConfig \cup [on : BOOLEAN] \cup {None},
   login : Login \cup {None}, boot : BOOLEAN]

PastRecord ==
  [count : Nat, login : Login \cup {None}, named : BOOLEAN, met : BOOLEAN, missed : BOOLEAN]
Snapshot == [on : BOOLEAN, bot : Bots \cup {None}, qq : BOOLEAN]

ChannelTyped ==
  /\ cfg \in [wechat : WeChatConfig, qq : BOOLEAN]
  /\ kept \in [wechat : [on : BOOLEAN, bot : Bots \cup {None}], qq : BOOLEAN]
  /\ files \in [token : [Bots -> Tokens \cup {None}], newest : Bots \cup {None}]
  /\ expired \subseteq Tokens /\ chan \in [Pool -> ChannelState]
  /\ app \in [wechat : Pool \cup {None}, qq : BOOLEAN] /\ wired \in Pool \cup {None}
  /\ threads \in 0..MaxThreads /\ current \in {"none", "wechat", "qq"}
  /\ latch \in Swappers \cup {None} /\ plan \in [Swappers -> PlanRecord \cup {NoPlan}]
  /\ loading \in [Swappers -> Snapshot \cup {None}] /\ past \in PastRecord

\* What a request has still to do is the rest of its program, and it has the lock for it.
Planned(s) ==
  LET p == plan[s] IN
  /\ Working(s) =>
       /\ Chained(p.todo, ChannelSteps, PairsOf(p.boot), EndsOf(p.boot))
       /\ Has(p.todo, "apply") => p.new \in WeChatConfig
       /\ Has(p.todo, "apply_qq") => p.new \in [on : BOOLEAN]
       /\ p.boot => p.login = None
       /\ p.login # None => Has(p.todo, "start")
  /\ latch = s <=> Working(s) /\ ~p.boot /\ NextOf(s) # "lock"

BootAlone ==
  \A s \in Swappers : Working(s) /\ plan[s].boot =>
    latch = None /\ \A r \in Swappers \ {s} : ~Working(r)

\* Between the stop of a channel and the start of the next.
Replacing(s) == NextOf(s) \in {"apply", "enabled", "bot", "load", "start"}

LoopInv ==
  /\ \A i \in Pool : Alive(i) => app.wechat = i
  /\ \A s \in Swappers : Replacing(s) => \A i \in Pool : ~Alive(i)
  /\ (\A s \in Swappers : ~Replacing(s)) =>
       \A i \in Pool : Alive(i) => chan[i].token = cfg.wechat.token

ChannelInv == ChannelTyped /\ (\A s \in Swappers : Planned(s)) /\ BootAlone /\ LoopInv

\* What a login leaves behind, or the lack of one.
BotOf(login) == IF login = None THEN None ELSE login.bot
TokensOf(login) == IF login = None THEN {None} ELSE {login.token, None}
FilesOf(login) ==
  files.newest = BotOf(login) /\ (login # None => files.token[login.bot] = login.token)
SettledOn(login) ==
  /\ FilesOf(login) /\ kept.wechat.bot = BotOf(login)
  /\ cfg.wechat.bot = BotOf(login) /\ cfg.wechat.token \in TokensOf(login)

\* Requests that do not meet, and a reload that is not a swap as well.
AloneInv ==
  /\ \A s \in Swappers : ~(Working(s) /\ Loading(s))
  /\ ~past.met => \A r, s \in Swappers : Engaged(r) /\ Engaged(s) => r = s

\* With requests one by one and no failed write, memory follows the table, or is
\* about to be written to it.
TableInv ==
  ~past.met /\ ~past.missed =>
    /\ kept.wechat.on = cfg.wechat.on \/ \E s \in Swappers : NextOf(s) = "enabled"
    /\ \A s \in Swappers : Loading(s) =>
         loading[s].on = kept.wechat.on /\ loading[s].bot = kept.wechat.bot
    /\ (\A s \in Swappers : ~Replacing(s)) => \A i \in Pool : Alive(i) => cfg.wechat.on

\* What a request that met no other, and of which nothing failed, has made of it so far.
LogsIn(s) ==
  LET p == plan[s] IN
  IF p.login = None
    THEN ~past.named =>
         /\ SettledOn(past.login)
         /\ Has(p.todo, "apply") => p.new.bot = BotOf(past.login) /\ p.new.token \in TokensOf(past.login)
  ELSE /\ FilesOf(p.login)
       /\ Has(p.todo, "apply") => p.new.bot = p.login.bot /\ p.new.token = p.login.token
       /\ NextOf(s) \in {"enabled", "bot", "load", "start"} =>
            cfg.wechat.bot = p.login.bot /\ cfg.wechat.token = p.login.token
       /\ NextOf(s) \in {"load", "start"} => kept.wechat.bot = p.login.bot

LoginInv ==
  ~past.met /\ ~past.missed =>
    IF \E s \in Swappers : Working(s) THEN \A s \in Swappers : Working(s) => LogsIn(s)
    ELSE ~past.named => SettledOn(past.login)

------------------------------------------------------------------------------
(* Programs *)

LEMMA ChainedRest ==
  ASSUME NEW steps, NEW pairs, NEW ends, NEW prog, Chained(prog, steps, pairs, ends)
  PROVE  /\ Head(prog) = prog[1] /\ Head(prog) \in steps /\ Len(prog) \in Nat \ {0}
         /\ Len(prog) = 1 => Head(prog) \in ends
         /\ Len(prog) # 1 => /\ Chained(Tail(prog), steps, pairs, ends)
                            /\ <<Head(prog), Head(Tail(prog))>> \in pairs
         /\ \A x : Has(prog, x) <=> Head(prog) = x \/ (Len(prog) # 1 /\ Has(Tail(prog), x))
<1>1. /\ prog \in Seq(steps) /\ prog # <<>> /\ prog[Len(prog)] \in ends
      /\ \A k \in 1..(Len(prog) - 1) : <<prog[k], prog[k + 1]>> \in pairs
  BY DEF Chained
<1>2. Len(prog) \in Nat \ {0} /\ DOMAIN prog = 1..Len(prog) /\ Head(prog) = prog[1] /\ prog[1] \in steps
  BY <1>1, EmptySeq
<1>3. /\ Tail(prog) \in Seq(steps) /\ Len(Tail(prog)) = Len(prog) - 1
      /\ \A k \in 1..(Len(prog) - 1) : Tail(prog)[k] = prog[k + 1]
  BY <1>1, <1>2, HeadTailProperties
<1>4. ASSUME Len(prog) # 1
      PROVE  /\ Chained(Tail(prog), steps, pairs, ends)
             /\ <<Head(prog), Head(Tail(prog))>> \in pairs
  <2>1. Tail(prog) # <<>> /\ Len(prog) - 1 \in Nat \ {0}
    <3>1. Len(<<>>) = 0
      BY EmptySeq
    <3>2. Len(prog) - 1 \in Nat \ {0} /\ Len(Tail(prog)) # 0
      BY <1>2, <1>3, <1>4
    <3> QED
      BY <3>1, <3>2
  <2>2. Head(Tail(prog)) = Tail(prog)[1] /\ Tail(prog)[1] = prog[2]
    BY <1>3, <2>1
  <2>3. <<prog[1], prog[2]>> \in pairs
    BY <1>1, <2>1
  <2>4. Tail(prog)[Len(Tail(prog))] = prog[Len(prog)]
    BY <1>2, <1>3, <2>1
  <2>5. ASSUME NEW k \in 1..(Len(Tail(prog)) - 1)
        PROVE  <<Tail(prog)[k], Tail(prog)[k + 1]>> \in pairs
    <3>1. k \in 1..(Len(prog) - 1) /\ k + 1 \in 1..(Len(prog) - 1)
      BY <1>2, <1>3
    <3>2. Tail(prog)[k] = prog[k + 1] /\ Tail(prog)[k + 1] = prog[(k + 1) + 1]
      BY <1>3, <3>1
    <3> QED
      BY <1>1, <3>1, <3>2
  <2> QED
    BY <1>1, <1>2, <1>3, <2>1, <2>2, <2>3, <2>4, <2>5 DEF Chained
<1>5. ASSUME NEW x
      PROVE  Has(prog, x) <=> Head(prog) = x \/ (Len(prog) # 1 /\ Has(Tail(prog), x))
  <2>1. ASSUME Has(prog, x), Head(prog) # x PROVE Len(prog) # 1 /\ Has(Tail(prog), x)
    <3>1. PICK k \in 1..Len(prog) : prog[k] = x
      BY <1>2, <2>1 DEF Has
    <3>2. k # 1 /\ k - 1 \in 1..(Len(prog) - 1)
      BY <1>2, <2>1, <3>1
    <3>3. Tail(prog)[k - 1] = prog[(k - 1) + 1] /\ (k - 1) + 1 = k
      BY <1>3, <3>2
    <3>4. DOMAIN Tail(prog) = 1..(Len(prog) - 1)
      BY <1>3
    <3>5. k - 1 \in DOMAIN Tail(prog) /\ Tail(prog)[k - 1] = x
      BY <3>1, <3>2, <3>3, <3>4
    <3>6. Len(prog) # 1
      BY <3>1, <3>2
    <3> QED
      BY <3>5, <3>6 DEF Has
  <2>2. ASSUME Len(prog) # 1, Has(Tail(prog), x) PROVE Has(prog, x)
    <3>1. PICK k \in 1..(Len(prog) - 1) : Tail(prog)[k] = x
      BY <1>3, <2>2 DEF Has
    <3>2. k + 1 \in DOMAIN prog /\ prog[k + 1] = x
      BY <1>2, <1>3, <3>1
    <3> QED
      BY <3>2 DEF Has
  <2>3. Head(prog) = x => Has(prog, x)
    BY <1>2 DEF Has
  <2> QED
    BY <2>1, <2>2, <2>3
<1>6. Len(prog) = 1 => Head(prog) \in ends
  BY <1>1, <1>2
<1> QED
  BY <1>2, <1>4, <1>5, <1>6

------------------------------------------------------------------------------
(* Channels: the programs *)

LEMMA SwapsAreChained ==
  /\ Chained(SwapWeChat, ChannelSteps, SwapPairs, {"start", "start_qq"})
  /\ Chained(SwapQQ, ChannelSteps, SwapPairs, {"start", "start_qq"})
  /\ Chained(Boot, ChannelSteps, BootPairs, {"start_qq"})
<1>1. Chained(SwapWeChat, ChannelSteps, SwapPairs, {"start", "start_qq"})
  <2>1. Len(SwapWeChat) = 7 /\ SwapWeChat \in Seq(ChannelSteps) /\ SwapWeChat # <<>>
    BY DEF SwapWeChat, ChannelSteps
  <2>2. /\ SwapWeChat[1] = "lock" /\ SwapWeChat[2] = "stop" /\ SwapWeChat[3] = "apply" /\ SwapWeChat[4] = "enabled"
        /\ SwapWeChat[5] = "bot" /\ SwapWeChat[6] = "load" /\ SwapWeChat[7] = "start"
    BY DEF SwapWeChat
  <2> HIDE DEF SwapWeChat
  <2>3. \A k \in 1..6 : <<SwapWeChat[k], SwapWeChat[k + 1]>> \in SwapPairs
    <3> SUFFICES ASSUME NEW k \in 1..6 PROVE <<SwapWeChat[k], SwapWeChat[k + 1]>> \in SwapPairs
      OBVIOUS
    <3>1. CASE k = 1
      <4>1. SwapWeChat[k] = "lock" /\ SwapWeChat[k + 1] = "stop"
        BY <2>2, <3>1
      <4> QED
        BY <4>1 DEF SwapPairs
    <3>2. CASE k = 2
      <4>1. SwapWeChat[k] = "stop" /\ SwapWeChat[k + 1] = "apply"
        BY <2>2, <3>2
      <4> QED
        BY <4>1 DEF SwapPairs
    <3>3. CASE k = 3
      <4>1. SwapWeChat[k] = "apply" /\ SwapWeChat[k + 1] = "enabled"
        BY <2>2, <3>3
      <4> QED
        BY <4>1 DEF SwapPairs
    <3>4. CASE k = 4
      <4>1. SwapWeChat[k] = "enabled" /\ SwapWeChat[k + 1] = "bot"
        BY <2>2, <3>4
      <4> QED
        BY <4>1 DEF SwapPairs
    <3>5. CASE k = 5
      <4>1. SwapWeChat[k] = "bot" /\ SwapWeChat[k + 1] = "load"
        BY <2>2, <3>5
      <4> QED
        BY <4>1 DEF SwapPairs
    <3>6. CASE k = 6
      <4>1. SwapWeChat[k] = "load" /\ SwapWeChat[k + 1] = "start"
        BY <2>2, <3>6
      <4> QED
        BY <4>1 DEF SwapPairs
    <3> QED
      BY <3>1, <3>2, <3>3, <3>4, <3>5, <3>6
  <2> QED
    <3>1. Len(SwapWeChat) - 1 = 6 /\ SwapWeChat[Len(SwapWeChat)] \in {"start", "start_qq"}
      BY <2>1, <2>2
    <3> QED
      BY <2>1, <2>3, <3>1 DEF Chained
<1>2. Chained(SwapQQ, ChannelSteps, SwapPairs, {"start", "start_qq"})
  <2>1. Len(SwapQQ) = 5 /\ SwapQQ \in Seq(ChannelSteps) /\ SwapQQ # <<>>
    BY DEF SwapQQ, ChannelSteps
  <2>2. /\ SwapQQ[1] = "lock" /\ SwapQQ[2] = "stop_qq" /\ SwapQQ[3] = "apply_qq" /\ SwapQQ[4] = "enabled_qq"
        /\ SwapQQ[5] = "start_qq"
    BY DEF SwapQQ
  <2> HIDE DEF SwapQQ
  <2>3. \A k \in 1..4 : <<SwapQQ[k], SwapQQ[k + 1]>> \in SwapPairs
    <3> SUFFICES ASSUME NEW k \in 1..4 PROVE <<SwapQQ[k], SwapQQ[k + 1]>> \in SwapPairs
      OBVIOUS
    <3>1. CASE k = 1
      <4>1. SwapQQ[k] = "lock" /\ SwapQQ[k + 1] = "stop_qq"
        BY <2>2, <3>1
      <4> QED
        BY <4>1 DEF SwapPairs
    <3>2. CASE k = 2
      <4>1. SwapQQ[k] = "stop_qq" /\ SwapQQ[k + 1] = "apply_qq"
        BY <2>2, <3>2
      <4> QED
        BY <4>1 DEF SwapPairs
    <3>3. CASE k = 3
      <4>1. SwapQQ[k] = "apply_qq" /\ SwapQQ[k + 1] = "enabled_qq"
        BY <2>2, <3>3
      <4> QED
        BY <4>1 DEF SwapPairs
    <3>4. CASE k = 4
      <4>1. SwapQQ[k] = "enabled_qq" /\ SwapQQ[k + 1] = "start_qq"
        BY <2>2, <3>4
      <4> QED
        BY <4>1 DEF SwapPairs
    <3> QED
      BY <3>1, <3>2, <3>3, <3>4
  <2> QED
    <3>1. Len(SwapQQ) - 1 = 4 /\ SwapQQ[Len(SwapQQ)] \in {"start", "start_qq"}
      BY <2>1, <2>2
    <3> QED
      BY <2>1, <2>3, <3>1 DEF Chained
<1>3. Chained(Boot, ChannelSteps, BootPairs, {"start_qq"})
  <2>1. Len(Boot) = 3 /\ Boot \in Seq(ChannelSteps) /\ Boot # <<>>
    BY DEF Boot, ChannelSteps
  <2>2. /\ Boot[1] = "load" /\ Boot[2] = "start" /\ Boot[3] = "start_qq"
    BY DEF Boot
  <2> HIDE DEF Boot
  <2>3. \A k \in 1..2 : <<Boot[k], Boot[k + 1]>> \in BootPairs
    <3> SUFFICES ASSUME NEW k \in 1..2 PROVE <<Boot[k], Boot[k + 1]>> \in BootPairs
      OBVIOUS
    <3>1. CASE k = 1
      <4>1. Boot[k] = "load" /\ Boot[k + 1] = "start"
        BY <2>2, <3>1
      <4> QED
        BY <4>1 DEF BootPairs
    <3>2. CASE k = 2
      <4>1. Boot[k] = "start" /\ Boot[k + 1] = "start_qq"
        BY <2>2, <3>2
      <4> QED
        BY <4>1 DEF BootPairs
    <3> QED
      BY <3>1, <3>2
  <2> QED
    <3>1. Len(Boot) - 1 = 2 /\ Boot[Len(Boot)] \in {"start_qq"}
      BY <2>1, <2>2
    <3> QED
      BY <2>1, <2>3, <3>1 DEF Chained
<1> QED
  BY <1>1, <1>2, <1>3

LEMMA SwapsHave ==
  /\ Head(SwapWeChat) = "lock" /\ Head(SwapQQ) = "lock" /\ Head(Boot) = "load"
  /\ Has(SwapWeChat, "start") /\ ~Has(SwapWeChat, "apply_qq")
  /\ ~Has(SwapQQ, "apply")
  /\ ~Has(Boot, "apply") /\ ~Has(Boot, "apply_qq")
<1>1. Head(SwapWeChat) = "lock" /\ Head(SwapQQ) = "lock" /\ Head(Boot) = "load"
  BY DEF SwapWeChat, SwapQQ, Boot
<1>2. Has(SwapWeChat, "start") /\ ~Has(SwapWeChat, "apply_qq")
  <2>1. SwapWeChat[7] = "start" /\ DOMAIN SwapWeChat = 1..7 /\ \A k \in 1..7 : SwapWeChat[k] # "apply_qq"
    BY DEF SwapWeChat
  <2> QED
    BY <2>1 DEF Has
<1>3. ~Has(SwapQQ, "apply")
  <2>1. DOMAIN SwapQQ = 1..5 /\ \A k \in 1..5 : SwapQQ[k] # "apply"
    BY DEF SwapQQ
  <2> QED
    BY <2>1 DEF Has
<1>4. ~Has(Boot, "apply") /\ ~Has(Boot, "apply_qq")
  <2>1. DOMAIN Boot = 1..3 /\ \A k \in 1..3 : Boot[k] # "apply" /\ Boot[k] # "apply_qq"
    BY DEF Boot
  <2> HIDE DEF Boot
  <2> QED
    BY <2>1 DEF Has
<1> QED
  BY <1>1, <1>2, <1>3, <1>4

------------------------------------------------------------------------------
(* Channels: what an advance leaves *)

\* The last step of a program is its end; after any other comes one that may follow it.
Goes(s) ==
  \/ /\ plan'[s] = NoPlan /\ ~Working(s)' /\ NextOf(s)' = "none"
     /\ NextOf(s) = "start_qq" \/ (NextOf(s) = "start" /\ ~plan[s].boot)
     /\ \A x : Has(plan[s].todo, x) => NextOf(s) = x
  \/ /\ plan'[s] \in PlanRecord /\ Working(s)'
     /\ plan'[s].new = plan[s].new /\ plan'[s].login = plan[s].login /\ plan'[s].boot = plan[s].boot
     /\ <<NextOf(s), NextOf(s)'>> \in PairsOf(plan[s].boot)
     /\ Chained(plan'[s].todo, ChannelSteps, PairsOf(plan[s].boot), EndsOf(plan[s].boot))
     /\ \A x : Has(plan[s].todo, x) <=> NextOf(s) = x \/ Has(plan'[s].todo, x)

LEMMA NextIsStep ==
  ASSUME NEW s \in Swappers, ChannelTyped, Planned(s), NextOf(s) # "none"
  PROVE  /\ Working(s) /\ plan[s] \in PlanRecord /\ NextOf(s) = Head(plan[s].todo)
         /\ NextOf(s) \in ChannelSteps /\ Has(plan[s].todo, NextOf(s))
         /\ plan[s].boot => NextOf(s) \in {"load", "start", "start_qq"}
         /\ ~plan[s].boot => NextOf(s) \in ChannelSteps
<1>1. Working(s)
  BY DEF NextOf
<1>2. plan[s] \in PlanRecord /\ NextOf(s) = Head(plan[s].todo) /\ plan[s].boot \in BOOLEAN
  BY <1>1 DEF ChannelTyped, Working, NextOf, PlanRecord
<1>3. Chained(plan[s].todo, ChannelSteps, PairsOf(plan[s].boot), EndsOf(plan[s].boot))
  BY <1>1 DEF Planned
<1>4. /\ Head(plan[s].todo) \in ChannelSteps /\ Has(plan[s].todo, Head(plan[s].todo))
      /\ Len(plan[s].todo) = 1 => Head(plan[s].todo) \in EndsOf(plan[s].boot)
      /\ Len(plan[s].todo) # 1 =>
           <<Head(plan[s].todo), Head(Tail(plan[s].todo))>> \in PairsOf(plan[s].boot)
  BY <1>3, ChainedRest
<1>5. plan[s].boot => NextOf(s) \in {"load", "start", "start_qq"}
  BY <1>2, <1>4 DEF PairsOf, EndsOf, BootPairs
<1> QED
  BY <1>1, <1>2, <1>4, <1>5

LEMMA AdvanceGoes ==
  ASSUME NEW s \in Swappers, ChannelTyped, Planned(s), NextOf(s) # "none", Advance(s)
  PROVE  /\ plan' \in [Swappers -> PlanRecord \cup {NoPlan}]
         /\ \A r \in Swappers \ {s} : plan'[r] = plan[r]
         /\ Goes(s)
<1>1. /\ Working(s) /\ plan[s] \in PlanRecord /\ NextOf(s) = Head(plan[s].todo)
      /\ plan[s].boot \in BOOLEAN /\ plan \in [Swappers -> PlanRecord \cup {NoPlan}]
  BY NextIsStep DEF PlanRecord, ChannelTyped
<1> DEFINE pairs == PairsOf(plan[s].boot)
           ends == EndsOf(plan[s].boot)
           prog == plan[s].todo
<1>2. Chained(prog, ChannelSteps, pairs, ends)
  BY <1>1 DEF Planned
<1> HIDE DEF pairs, ends, prog
<1>3. /\ Head(prog) \in ChannelSteps /\ Len(prog) \in Nat \ {0}
      /\ Len(prog) = 1 => Head(prog) \in ends
      /\ Len(prog) # 1 => /\ Chained(Tail(prog), ChannelSteps, pairs, ends)
                         /\ <<Head(prog), Head(Tail(prog))>> \in pairs
      /\ \A x : Has(prog, x) <=> Head(prog) = x \/ (Len(prog) # 1 /\ Has(Tail(prog), x))
  BY <1>2, ChainedRest
<1>4. CASE Len(prog) = 1
  <2>1. plan' = [plan EXCEPT ![s] = NoPlan]
    BY <1>4 DEF Advance, prog
  <2>2. plan'[s] = NoPlan /\ \A r \in Swappers \ {s} : plan'[r] = plan[r]
    BY <2>1, <1>1
  <2>3. ~Working(s)' /\ NextOf(s)' = "none"
    BY <2>2 DEF Working, NextOf
  <2>4. NextOf(s) = "start_qq" \/ (NextOf(s) = "start" /\ ~plan[s].boot)
    BY <1>1, <1>3, <1>4 DEF prog, ends, EndsOf
  <2>5. plan' \in [Swappers -> PlanRecord \cup {NoPlan}]
    BY <2>1, <1>1
  <2>6. \A x : Has(plan[s].todo, x) => NextOf(s) = x
    BY <1>1, <1>3, <1>4 DEF prog
  <2> QED
    BY <2>2, <2>3, <2>4, <2>5, <2>6 DEF Goes
<1>5. CASE Len(prog) # 1
  <2>1. plan' = [plan EXCEPT ![s] = [plan[s] EXCEPT !.todo = Tail(prog)]]
    BY <1>5 DEF Advance, prog
  <2>2. plan'[s] = [plan[s] EXCEPT !.todo = Tail(prog)] /\ \A r \in Swappers \ {s} : plan'[r] = plan[r]
    BY <2>1, <1>1
  <2>3. Tail(prog) \in Seq(ChannelSteps) /\ Tail(prog) # <<>>
    BY <1>3, <1>5 DEF Chained
  <2>4. /\ plan'[s] \in PlanRecord /\ plan'[s].todo = Tail(prog) /\ plan'[s].new = plan[s].new
        /\ plan'[s].login = plan[s].login /\ plan'[s].boot = plan[s].boot
    BY <2>2, <2>3, <1>1 DEF PlanRecord
  <2>5. Working(s)' /\ NextOf(s)' = Head(Tail(prog))
    BY <2>3, <2>4 DEF Working, NoPlan, NextOf
  <2>6. plan' \in [Swappers -> PlanRecord \cup {NoPlan}]
    BY <2>1, <2>2, <2>4, <1>1
  <2>7. <<NextOf(s), NextOf(s)'>> \in PairsOf(plan[s].boot)
    BY <1>1, <1>3, <1>5, <2>5 DEF prog, pairs
  <2>8. Chained(plan'[s].todo, ChannelSteps, PairsOf(plan[s].boot), EndsOf(plan[s].boot))
    BY <1>3, <1>5, <2>4 DEF pairs, ends
  <2>9. \A x : Has(plan[s].todo, x) <=> NextOf(s) = x \/ Has(plan'[s].todo, x)
    BY <1>1, <1>3, <1>5, <2>4 DEF prog
  <2> QED
    BY <2>2, <2>4, <2>5, <2>6, <2>7, <2>8, <2>9 DEF Goes
<1> QED
  BY <1>4, <1>5

\* Every step leaves the programs and the lock in order.
LEMMA PlansGoOn ==
  ASSUME NEW s \in Swappers, ChannelInv, NextOf(s) # "none", Advance(s),
         \/ latch' = latch /\ NextOf(s) \notin {"lock", "start", "start_qq"}
         \/ latch = None /\ latch' = s /\ NextOf(s) = "lock"
         \/ latch' = (IF latch = s THEN None ELSE latch) /\ NextOf(s) \in {"start", "start_qq"}
  PROVE  /\ latch' \in Swappers \cup {None} /\ plan' \in [Swappers -> PlanRecord \cup {NoPlan}]
         /\ \A r \in Swappers \ {s} : plan'[r] = plan[r] /\ NextOf(r)' = NextOf(r)
         /\ Goes(s) /\ (\A r \in Swappers : Planned(r)') /\ BootAlone'
<1>1. /\ ChannelTyped /\ (\A r \in Swappers : Planned(r)) /\ BootAlone /\ None \notin Swappers
      /\ latch \in Swappers \cup {None}
  BY ChannelAssumption DEF ChannelInv, ChannelTyped, ChannelAssumption
<1>2. /\ Working(s) /\ plan[s] \in PlanRecord /\ plan[s].boot \in BOOLEAN
      /\ plan[s].boot => NextOf(s) \in {"load", "start", "start_qq"}
      /\ latch = s <=> ~plan[s].boot /\ NextOf(s) # "lock"
  BY <1>1, NextIsStep DEF PlanRecord, Planned
<1>3. /\ plan' \in [Swappers -> PlanRecord \cup {NoPlan}] /\ Goes(s)
      /\ \A r \in Swappers \ {s} : plan'[r] = plan[r]
  BY <1>1, AdvanceGoes
<1>4. \A r \in Swappers \ {s} : (Working(r)' <=> Working(r)) /\ NextOf(r)' = NextOf(r)
  BY <1>3 DEF Working, NextOf
<1>5. \A r \in Swappers \ {s} : latch' = r <=> latch = r
  BY <1>1, <1>2
<1>6. ASSUME NEW r \in Swappers \ {s} PROVE Planned(r)'
  <2>1. Planned(r)
    BY <1>1
  <2> QED
    BY <2>1, <1>3, <1>4, <1>5, <1>6 DEF Planned
<1>7. Planned(s)'
  <2>1. CASE plan'[s] = NoPlan
    <3>1. ~Working(s)' /\ NextOf(s) \in {"start", "start_qq"}
      BY <1>3, <2>1 DEF Goes, Working
    <3>2. latch' # s
      BY <3>1, <1>1, <1>2
    <3> QED
      BY <3>1, <3>2 DEF Planned
  <2>2. CASE plan'[s] # NoPlan
    <3>1. /\ Working(s)' /\ plan'[s].new = plan[s].new /\ plan'[s].login = plan[s].login
          /\ plan'[s].boot = plan[s].boot
          /\ <<NextOf(s), NextOf(s)'>> \in PairsOf(plan[s].boot)
          /\ Chained(plan'[s].todo, ChannelSteps, PairsOf(plan[s].boot), EndsOf(plan[s].boot))
          /\ \A x : Has(plan[s].todo, x) <=> NextOf(s) = x \/ Has(plan'[s].todo, x)
      BY <1>3, <2>2 DEF Goes
    <3>2. NextOf(s) = "start" => plan[s].boot
      BY <3>1, <1>2 DEF PairsOf, SwapPairs
    <3>3. NextOf(s)' # "lock"
      BY <3>1, <1>2 DEF PairsOf, SwapPairs, BootPairs
    <3>4. latch' = s <=> ~plan[s].boot
      <4>1. NextOf(s) # "start_qq"
        BY <3>1 DEF PairsOf, SwapPairs, BootPairs
      <4> QED
        BY <4>1, <3>2, <1>1, <1>2
    <3>5. /\ Has(plan[s].todo, "apply") => plan[s].new \in WeChatConfig
          /\ Has(plan[s].todo, "apply_qq") => plan[s].new \in [on : BOOLEAN]
          /\ plan[s].boot => plan[s].login = None
          /\ plan[s].login # None => Has(plan[s].todo, "start")
      BY <1>1, <1>2 DEF Planned
    <3>6. plan'[s].login # None => Has(plan'[s].todo, "start")
      BY <3>1, <3>2, <3>5
    <3>7. /\ Has(plan'[s].todo, "apply") => plan'[s].new \in WeChatConfig
          /\ Has(plan'[s].todo, "apply_qq") => plan'[s].new \in [on : BOOLEAN]
          /\ plan'[s].boot => plan'[s].login = None
      BY <3>1, <3>5
    <3> QED
      BY <3>1, <3>3, <3>4, <3>6, <3>7 DEF Planned
  <2> QED
    BY <2>1, <2>2
<1>8. BootAlone'
  <2> SUFFICES ASSUME NEW t \in Swappers, Working(t)', plan'[t].boot
               PROVE  latch' = None /\ \A r \in Swappers \ {t} : ~Working(r)'
    BY DEF BootAlone
  <2>1. Working(t) /\ plan[t].boot
    BY <1>2, <1>3, <1>4 DEF Goes
  <2>2. t = s /\ latch = None /\ \A r \in Swappers \ {t} : ~Working(r)
    BY <2>1, <1>1, <1>2 DEF BootAlone
  <2> QED
    BY <2>1, <2>2, <1>1, <1>2, <1>4
<1>9. latch' \in Swappers \cup {None}
  BY <1>1
<1> QED
  BY <1>3, <1>4, <1>6, <1>7, <1>8, <1>9

------------------------------------------------------------------------------
(* Channels: loops *)

LEMMA ChannelStarts == ChannelInit => ChannelInv
<1> SUFFICES ASSUME ChannelInit PROVE ChannelInv
  OBVIOUS
<1>1. ChannelTyped
  BY ChannelAssumption DEF ChannelInit, ChannelTyped, WeChatConfig, ChannelState, ChannelAssumption, PastRecord
<1>2. \A s \in Swappers : ~Working(s) /\ NextOf(s) = "none"
  BY DEF ChannelInit, Working, NextOf
<1>3. \A i \in Pool : ~Alive(i)
  BY DEF ChannelInit, Alive, NoChannel
<1>4. \A s \in Swappers : latch # s
  BY ChannelAssumption DEF ChannelInit, ChannelAssumption
<1> QED
  BY <1>1, <1>2, <1>3, <1>4 DEF ChannelInv, Planned, BootAlone, LoopInv, Replacing

\* Whoever is past the lock, or starts the process, is the only one who replaces a channel.
LEMMA OthersWait ==
  ASSUME ChannelInv, NEW s \in Swappers, NextOf(s) \notin {"none", "lock"}
  PROVE  \A r \in Swappers \ {s} : ~Replacing(r)
<1> SUFFICES ASSUME NEW r \in Swappers \ {s}, Replacing(r) PROVE FALSE
  OBVIOUS
<1>1. ChannelTyped /\ Planned(s) /\ Planned(r) /\ BootAlone
  BY DEF ChannelInv
<1>2. Working(s) /\ Working(r) /\ NextOf(r) # "lock"
  BY DEF NextOf, Replacing
<1>3. ~plan[s].boot /\ ~plan[r].boot
  BY <1>1, <1>2 DEF BootAlone
<1>4. latch = s /\ latch = r
  BY <1>1, <1>2, <1>3 DEF Planned
<1> QED
  BY <1>4

LEMMA TakesLockKeeps ==
  ASSUME ChannelInv, NEW s \in Swappers, TakesLock(s)
  PROVE  ChannelInv'
<1>1. NextOf(s) = "lock" /\ latch = None /\ latch' = s /\ Advance(s)
      /\ UNCHANGED <<cfg, kept, files, expired, chan, app, wired, threads, current, loading, past>>
  BY DEF TakesLock
<1>2. /\ latch' \in Swappers \cup {None} /\ plan' \in [Swappers -> PlanRecord \cup {NoPlan}]
      /\ \A r \in Swappers \ {s} : plan'[r] = plan[r] /\ NextOf(r)' = NextOf(r)
      /\ Goes(s) /\ (\A r \in Swappers : Planned(r)') /\ BootAlone'
  BY <1>1, PlansGoOn
<1>3. ChannelTyped /\ LoopInv
  BY DEF ChannelInv
<1>4. ChannelTyped'
  BY <1>1, <1>2, <1>3 DEF ChannelTyped
<1>5. ~Replacing(s) /\ ~Replacing(s)'
  BY <1>1, <1>2 DEF Goes, Replacing, PairsOf, SwapPairs, BootPairs
<1>6. \A r \in Swappers : Replacing(r)' <=> Replacing(r)
  BY <1>2, <1>5 DEF Replacing
<1>7. LoopInv'
  BY <1>1, <1>3, <1>6 DEF LoopInv, Alive
<1> QED
  BY <1>2, <1>4, <1>7 DEF ChannelInv

LEMMA StopsWeChatKeeps ==
  ASSUME ChannelInv, NEW s \in Swappers, StopsWeChat(s)
  PROVE  ChannelInv'
<1>1. /\ NextOf(s) = "stop" /\ Advance(s)
      /\ chan' = IF app.wechat = None THEN chan ELSE [chan EXCEPT ![app.wechat] = NoChannel]
      /\ UNCHANGED <<cfg, kept, files, expired, app, wired, threads, current, latch, loading, past>>
  BY DEF StopsWeChat
<1>2. /\ latch' \in Swappers \cup {None} /\ plan' \in [Swappers -> PlanRecord \cup {NoPlan}]
      /\ \A r \in Swappers \ {s} : plan'[r] = plan[r] /\ NextOf(r)' = NextOf(r)
      /\ Goes(s) /\ (\A r \in Swappers : Planned(r)') /\ BootAlone'
  BY <1>1, PlansGoOn
<1>3. ChannelTyped /\ LoopInv /\ None \notin Pool
  BY ChannelAssumption DEF ChannelInv, ChannelAssumption
<1>4. chan' \in [Pool -> ChannelState]
  BY <1>1, <1>3 DEF ChannelTyped, ChannelState
<1>5. ChannelTyped'
  BY <1>1, <1>2, <1>3, <1>4 DEF ChannelTyped
<1>6. Replacing(s)'
  BY <1>1, <1>2 DEF Goes, Replacing, PairsOf, SwapPairs, BootPairs
<1>7. \A i \in Pool : ~Alive(i)'
  <2> SUFFICES ASSUME NEW i \in Pool, Alive(i)' PROVE FALSE
    OBVIOUS
  <2>1. app.wechat # i => chan'[i] = chan[i]
    BY <1>1, <1>3 DEF ChannelTyped
  <2>2. app.wechat = i => chan'[i] = NoChannel
    BY <1>1, <1>3 DEF ChannelTyped
  <2>3. Alive(i) => app.wechat = i
    BY <1>3 DEF LoopInv
  <2> QED
    BY <2>1, <2>2, <2>3 DEF Alive, NoChannel
<1>8. LoopInv'
  BY <1>6, <1>7 DEF LoopInv
<1> QED
  BY <1>2, <1>5, <1>8 DEF ChannelInv

LEMMA StopsQQKeeps ==
  ASSUME ChannelInv, NEW s \in Swappers, StopsQQ(s)
  PROVE  ChannelInv'
<1>1. /\ NextOf(s) = "stop_qq" /\ Advance(s)
      /\ threads' \in IF app.qq /\ threads > 0 THEN {threads - 1, threads} ELSE {threads}
      /\ UNCHANGED <<cfg, kept, files, expired, chan, app, wired, current, latch, loading, past>>
  BY DEF StopsQQ
<1>2. /\ latch' \in Swappers \cup {None} /\ plan' \in [Swappers -> PlanRecord \cup {NoPlan}]
      /\ \A r \in Swappers \ {s} : plan'[r] = plan[r] /\ NextOf(r)' = NextOf(r)
      /\ Goes(s) /\ (\A r \in Swappers : Planned(r)') /\ BootAlone'
  BY <1>1, PlansGoOn
<1>3. ChannelTyped /\ LoopInv /\ MaxThreads \in Nat
  BY ChannelAssumption DEF ChannelInv, ChannelAssumption
<1>4. threads' \in 0..MaxThreads
  BY <1>1, <1>3 DEF ChannelTyped
<1>5. ChannelTyped'
  BY <1>1, <1>2, <1>3, <1>4 DEF ChannelTyped
<1>6. ~Replacing(s) /\ ~Replacing(s)'
  BY <1>1, <1>2 DEF Goes, Replacing, PairsOf, SwapPairs, BootPairs
<1>7. \A r \in Swappers : Replacing(r)' <=> Replacing(r)
  BY <1>2, <1>6 DEF Replacing
<1>8. LoopInv'
  BY <1>1, <1>3, <1>7 DEF LoopInv, Alive
<1> QED
  BY <1>2, <1>5, <1>8 DEF ChannelInv

LEMMA AppliesKeeps ==
  ASSUME ChannelInv, NEW s \in Swappers, Applies(s)
  PROVE  ChannelInv'
<1>1. /\ NextOf(s) \in {"apply", "apply_qq"} /\ Advance(s)
      /\ cfg' = IF NextOf(s) = "apply" THEN [cfg EXCEPT !.wechat = plan[s].new]
                ELSE [cfg EXCEPT !.qq = plan[s].new.on]
      /\ UNCHANGED <<kept, files, expired, chan, app, wired, threads, current, latch, loading, past>>
  BY DEF Applies
<1>2. /\ latch' \in Swappers \cup {None} /\ plan' \in [Swappers -> PlanRecord \cup {NoPlan}]
      /\ \A r \in Swappers \ {s} : plan'[r] = plan[r] /\ NextOf(r)' = NextOf(r)
      /\ Goes(s) /\ (\A r \in Swappers : Planned(r)') /\ BootAlone'
  BY <1>1, PlansGoOn
<1>3. ChannelTyped /\ LoopInv /\ Planned(s) /\ cfg \in [wechat : WeChatConfig, qq : BOOLEAN]
  BY DEF ChannelInv, ChannelTyped
<1>4. Working(s) /\ Has(plan[s].todo, NextOf(s))
  BY <1>1, <1>3, NextIsStep
<1>5. CASE NextOf(s) = "apply"
  <2>1. plan[s].new \in WeChatConfig
    BY <1>3, <1>4, <1>5 DEF Planned
  <2>2. cfg' \in [wechat : WeChatConfig, qq : BOOLEAN]
    BY <1>1, <1>3, <1>5, <2>1
  <2>3. ChannelTyped'
    BY <1>1, <1>2, <1>3, <2>2 DEF ChannelTyped
  <2>4. Replacing(s) /\ Replacing(s)'
    BY <1>2, <1>5 DEF Goes, Replacing, PairsOf, SwapPairs, BootPairs
  <2>5. LoopInv'
    BY <1>1, <1>3, <2>4 DEF LoopInv, Alive
  <2> QED
    BY <1>2, <2>3, <2>5 DEF ChannelInv
<1>6. CASE NextOf(s) = "apply_qq"
  <2>1. plan[s].new \in [on : BOOLEAN]
    BY <1>3, <1>4, <1>6 DEF Planned
  <2>2. cfg' \in [wechat : WeChatConfig, qq : BOOLEAN] /\ cfg'.wechat = cfg.wechat
    BY <1>1, <1>3, <1>6, <2>1
  <2>3. ChannelTyped'
    BY <1>1, <1>2, <1>3, <2>2 DEF ChannelTyped
  <2>4. ~Replacing(s) /\ ~Replacing(s)'
    BY <1>2, <1>6 DEF Goes, Replacing, PairsOf, SwapPairs, BootPairs
  <2>5. \A r \in Swappers : Replacing(r)' <=> Replacing(r)
    BY <1>2, <2>4 DEF Replacing
  <2>6. LoopInv'
    BY <1>1, <1>3, <2>2, <2>5 DEF LoopInv, Alive
  <2> QED
    BY <1>2, <2>3, <2>6 DEF ChannelInv
<1> QED
  BY <1>1, <1>5, <1>6

LEMMA Keeps1Keeps ==
  ASSUME ChannelInv, NEW s \in Swappers, Keeps1(s)
  PROVE  ChannelInv'
<1>1. /\ NextOf(s) \in {"enabled", "bot", "enabled_qq"} /\ Advance(s)
      /\ UNCHANGED <<cfg, files, expired, chan, app, wired, threads, current, latch, loading>>
  BY DEF Keeps1
<1>2. /\ latch' \in Swappers \cup {None} /\ plan' \in [Swappers -> PlanRecord \cup {NoPlan}]
      /\ \A r \in Swappers \ {s} : plan'[r] = plan[r] /\ NextOf(r)' = NextOf(r)
      /\ Goes(s) /\ (\A r \in Swappers : Planned(r)') /\ BootAlone'
  BY <1>1, PlansGoOn
<1>3. ChannelTyped /\ LoopInv
  BY DEF ChannelInv
<1>4. kept' \in [wechat : [on : BOOLEAN, bot : Bots \cup {None}], qq : BOOLEAN]
  BY <1>3 DEF Keeps1, ChannelTyped, WeChatConfig
<1>5. past' \in PastRecord
  BY <1>3 DEF Keeps1, ChannelTyped, PastRecord
<1>6. ChannelTyped'
  BY <1>1, <1>2, <1>3, <1>4, <1>5 DEF ChannelTyped
<1>7. Replacing(s)' <=> Replacing(s)
  BY <1>1, <1>2 DEF Goes, Replacing, PairsOf, SwapPairs, BootPairs
<1>8. \A r \in Swappers : Replacing(r)' <=> Replacing(r)
  BY <1>2, <1>7 DEF Replacing
<1>9. LoopInv'
  BY <1>1, <1>3, <1>8 DEF LoopInv, Alive
<1> QED
  BY <1>2, <1>6, <1>9 DEF ChannelInv
LEMMA CredentialsAreKnown ==
  ASSUME ChannelTyped, NEW bot \in Bots \cup {None}
  PROVE  /\ Credentials(bot) \in Login \cup {None}
         /\ LET b == IF bot = None THEN files.newest ELSE bot
            IN  /\ b # None /\ files.token[b] # None => Credentials(bot) = [bot |-> b, token |-> files.token[b]]
                /\ b = None => Credentials(bot) = None
                /\ Credentials(bot) # None => Credentials(bot) = [bot |-> b, token |-> files.token[b]]
<1> DEFINE b == IF bot = None THEN files.newest ELSE bot
<1>1. b \in Bots \cup {None} /\ (b # None => files.token[b] \in Tokens \cup {None})
  BY DEF ChannelTyped
<1>2. Credentials(bot) = IF b = None \/ files.token[b] = None THEN None
                         ELSE [bot |-> b, token |-> files.token[b]]
  BY DEF Credentials
<1> HIDE DEF b
<1>3. Credentials(bot) \in Login \cup {None}
  BY <1>1, <1>2 DEF Login
<1> QED
  BY <1>2, <1>3 DEF b

LEMMA LoadsCredentialsKeeps ==
  ASSUME ChannelInv, NEW s \in Swappers, LoadsCredentials(s)
  PROVE  ChannelInv'
<1> DEFINE found == Credentials(cfg.wechat.bot)
<1>1. /\ NextOf(s) = "load" /\ Advance(s)
      /\ cfg' = IF cfg.wechat.on /\ cfg.wechat.token = None /\ found # None
                THEN [cfg EXCEPT !.wechat = [cfg.wechat EXCEPT !.bot = found.bot, !.token = found.token]]
                ELSE cfg
      /\ UNCHANGED <<kept, files, expired, chan, app, wired, threads, current, latch, loading, past>>
  BY DEF LoadsCredentials
<1>2. /\ latch' \in Swappers \cup {None} /\ plan' \in [Swappers -> PlanRecord \cup {NoPlan}]
      /\ \A r \in Swappers \ {s} : plan'[r] = plan[r] /\ NextOf(r)' = NextOf(r)
      /\ Goes(s) /\ (\A r \in Swappers : Planned(r)') /\ BootAlone'
  BY <1>1, PlansGoOn
<1>3. ChannelTyped /\ LoopInv /\ cfg \in [wechat : WeChatConfig, qq : BOOLEAN]
  BY DEF ChannelInv, ChannelTyped
<1>4. found \in Login \cup {None}
  BY <1>3, CredentialsAreKnown DEF WeChatConfig
<1> HIDE DEF found
<1>5. cfg' \in [wechat : WeChatConfig, qq : BOOLEAN]
  BY <1>1, <1>3, <1>4 DEF WeChatConfig, Login
<1>6. ChannelTyped'
  BY <1>1, <1>2, <1>3, <1>5 DEF ChannelTyped
<1>7. Replacing(s) /\ Replacing(s)'
  BY <1>1, <1>2 DEF Goes, Replacing, PairsOf, SwapPairs, BootPairs
<1>8. LoopInv'
  BY <1>1, <1>3, <1>7 DEF LoopInv, Alive
<1> QED
  BY <1>2, <1>6, <1>8 DEF ChannelInv

\* The end of a swap, or of a part of the start-up.
LEMMA EndsSwapKeeps ==
  ASSUME ChannelInv, NEW s \in Swappers, NEW i \in Pool \cup {None},
         NextOf(s) \in {"start", "start_qq"}, EndsSwap(s, i)
  PROVE  /\ latch' \in Swappers \cup {None} /\ plan' \in [Swappers -> PlanRecord \cup {NoPlan}]
         /\ past' \in PastRecord /\ loading' = loading
         /\ wired' \in {wired, i}
         /\ \A r \in Swappers \ {s} : plan'[r] = plan[r] /\ NextOf(r)' = NextOf(r)
         /\ Goes(s) /\ (\A r \in Swappers : Planned(r)') /\ BootAlone'
         /\ \A r \in Swappers : ~Replacing(r)'
<1>1. Advance(s) /\ latch' = (IF latch = s THEN None ELSE latch)
  BY DEF EndsSwap
<1>2. /\ latch' \in Swappers \cup {None} /\ plan' \in [Swappers -> PlanRecord \cup {NoPlan}]
      /\ \A r \in Swappers \ {s} : plan'[r] = plan[r] /\ NextOf(r)' = NextOf(r)
      /\ Goes(s) /\ (\A r \in Swappers : Planned(r)') /\ BootAlone'
  BY <1>1, PlansGoOn
<1>3. \A r \in Swappers \ {s} : ~Replacing(r)
  BY OthersWait
<1>4. ~Replacing(s)'
  BY <1>2 DEF Goes, Replacing, PairsOf, SwapPairs, BootPairs
<1>5. \A r \in Swappers : ~Replacing(r)'
  BY <1>2, <1>3, <1>4 DEF Replacing
<1>6. past' \in PastRecord
  <2>1. ChannelTyped /\ Planned(s)
    BY DEF ChannelInv
  <2>2. plan[s] \in PlanRecord
    BY <2>1, NextIsStep
  <2>3. plan[s].login \in Login \cup {None}
    BY <2>2 DEF PlanRecord
  <2>4. past' = IF plan[s].login = None THEN past
                ELSE [past EXCEPT !.login = plan[s].login, !.named = FALSE]
    BY DEF EndsSwap
  <2>5. past \in PastRecord
    BY <2>1 DEF ChannelTyped
  <2> QED
    BY <2>3, <2>4, <2>5 DEF PastRecord
<1>7. wired' \in {wired, i} /\ loading' = loading
  BY DEF EndsSwap
<1> QED
  BY <1>2, <1>5, <1>6, <1>7

LEMMA StartsWeChatKeeps ==
  ASSUME ChannelInv, NEW s \in Swappers, StartsWeChat(s)
  PROVE  ChannelInv'
<1>1. NextOf(s) = "start" /\ UNCHANGED <<cfg, kept, files, expired, threads>>
  BY DEF StartsWeChat
<1>2. ChannelTyped /\ LoopInv /\ None \notin Pool /\ None \notin Tokens
  BY ChannelAssumption DEF ChannelInv, ChannelAssumption
<1>3. \A j \in Pool : ~Alive(j)
  BY <1>1, <1>2 DEF LoopInv, Replacing
<1>4. CASE app' = [app EXCEPT !.wechat = None] /\ EndsSwap(s, None) /\ UNCHANGED <<chan, current>>
  <2>1. /\ latch' \in Swappers \cup {None} /\ plan' \in [Swappers -> PlanRecord \cup {NoPlan}]
        /\ past' \in PastRecord /\ loading' = loading
        /\ wired' \in {wired, None}
        /\ (\A r \in Swappers : Planned(r)') /\ BootAlone'
    BY <1>1, <1>4, EndsSwapKeeps
  <2>2. app' \in [wechat : Pool \cup {None}, qq : BOOLEAN]
    BY <1>2, <1>4 DEF ChannelTyped
  <2>3. ChannelTyped'
    BY <1>1, <1>2, <1>4, <2>1, <2>2 DEF ChannelTyped
  <2>4. \A j \in Pool : ~Alive(j)'
    BY <1>3, <1>4 DEF Alive
  <2>5. LoopInv'
    BY <2>4 DEF LoopInv
  <2> QED
    BY <2>1, <2>3, <2>5 DEF ChannelInv
<1> DEFINE i == CHOOSE j \in FreeIds : TRUE
<1>5. CASE /\ cfg.wechat.on /\ FreeIds # {} /\ app' = [app EXCEPT !.wechat = i]
           /\ IF cfg.wechat.token = None
                THEN chan' = [chan EXCEPT ![i] = [loop |-> "needs_login"]] /\ UNCHANGED current
              ELSE /\ chan' = [chan EXCEPT ![i] = [loop |-> "polling", token |-> cfg.wechat.token, left |-> 0]]
                   /\ current' \in {current, "wechat"}
           /\ EndsSwap(s, i)
  <2>1. i \in Pool
    BY <1>5 DEF FreeIds
  <2> HIDE DEF i
  <2>2. PICK k \in Pool : k = i
    BY <2>1
  <2>3. /\ latch' \in Swappers \cup {None} /\ plan' \in [Swappers -> PlanRecord \cup {NoPlan}]
        /\ past' \in PastRecord /\ loading' = loading
        /\ wired' \in {wired, k}
        /\ (\A r \in Swappers : Planned(r)') /\ BootAlone' /\ (\A r \in Swappers : ~Replacing(r)')
    BY <1>1, <1>5, <2>2, EndsSwapKeeps
  <2>4. app' \in [wechat : Pool \cup {None}, qq : BOOLEAN] /\ app'.wechat = k
    BY <1>2, <1>5, <2>2 DEF ChannelTyped
  <2>5. cfg.wechat.token \in Tokens \cup {None} /\ current \in {"none", "wechat", "qq"}
        /\ chan \in [Pool -> ChannelState]
    BY <1>2 DEF ChannelTyped, WeChatConfig
  <2>6. /\ chan' \in [Pool -> ChannelState] /\ current' \in {"none", "wechat", "qq"}
        /\ \A j \in Pool \ {k} : chan'[j] = chan[j]
        /\ Alive(k)' => chan'[k].token = cfg.wechat.token
    <3>1. CASE cfg.wechat.token = None
      <4>1. chan' = [chan EXCEPT ![k] = [loop |-> "needs_login"]] /\ UNCHANGED current
        BY <1>5, <2>2, <3>1
      <4>2. chan'[k] = [loop |-> "needs_login"] /\ ~Alive(k)'
        BY <4>1, <2>2, <2>5 DEF Alive
      <4> QED
        BY <4>1, <4>2, <2>2, <2>5 DEF ChannelState
    <3>2. CASE cfg.wechat.token # None
      <4>1. /\ chan' = [chan EXCEPT ![k] = [loop |-> "polling", token |-> cfg.wechat.token, left |-> 0]]
            /\ current' \in {current, "wechat"}
        BY <1>5, <2>2, <3>2
      <4>2. [loop |-> "polling", token |-> cfg.wechat.token, left |-> 0] \in ChannelState
        BY <2>5, <3>2 DEF ChannelState
      <4> QED
        BY <4>1, <4>2, <2>2, <2>5
    <3> QED
      BY <3>1, <3>2
  <2>7. ChannelTyped'
    BY <1>1, <1>2, <2>2, <2>3, <2>4, <2>6 DEF ChannelTyped
  <2>8. \A j \in Pool : Alive(j)' => j = k
    BY <1>3, <2>6 DEF Alive
  <2>9. LoopInv'
    BY <1>1, <1>5, <2>3, <2>4, <2>6, <2>8 DEF LoopInv
  <2> QED
    BY <2>3, <2>7, <2>9 DEF ChannelInv
<1> HIDE DEF i
<1> QED
  <2>1. \/ /\ cfg.wechat.on /\ FreeIds # {} /\ app' = [app EXCEPT !.wechat = i]
           /\ IF cfg.wechat.token = None
                THEN chan' = [chan EXCEPT ![i] = [loop |-> "needs_login"]] /\ UNCHANGED current
              ELSE /\ chan' = [chan EXCEPT ![i] = [loop |-> "polling", token |-> cfg.wechat.token, left |-> 0]]
                   /\ current' \in {current, "wechat"}
           /\ EndsSwap(s, i)
        \/ app' = [app EXCEPT !.wechat = None] /\ EndsSwap(s, None) /\ UNCHANGED <<chan, current>>
    BY Zenon DEF StartsWeChat, i
  <2> QED
    BY <2>1, <1>4, <1>5

LEMMA StartsQQKeeps ==
  ASSUME ChannelInv, NEW s \in Swappers, StartsQQ(s)
  PROVE  ChannelInv'
<1>1. /\ NextOf(s) = "start_qq" /\ EndsSwap(s, wired) /\ UNCHANGED <<cfg, kept, files, expired, chan>>
      /\ app' \in {[app EXCEPT !.qq = TRUE], [app EXCEPT !.qq = FALSE]}
      /\ current' \in {current, "qq"}
      /\ threads' = threads \/ (threads < MaxThreads /\ threads' = threads + 1)
  BY DEF StartsQQ
<1>2. ChannelTyped /\ LoopInv /\ wired \in Pool \cup {None} /\ MaxThreads \in Nat
  BY ChannelAssumption DEF ChannelInv, ChannelTyped, ChannelAssumption
<1>3. /\ latch' \in Swappers \cup {None} /\ plan' \in [Swappers -> PlanRecord \cup {NoPlan}]
      /\ past' \in PastRecord /\ loading' = loading
      /\ wired' = wired
      /\ \A r \in Swappers \ {s} : plan'[r] = plan[r] /\ NextOf(r)' = NextOf(r)
      /\ (\A r \in Swappers : Planned(r)') /\ BootAlone' /\ (\A r \in Swappers : ~Replacing(r)')
  <2>1. wired' \in {wired, wired}
    BY <1>1, <1>2, EndsSwapKeeps
  <2> QED
    BY <1>1, <1>2, <2>1, EndsSwapKeeps
<1>4. app' \in [wechat : Pool \cup {None}, qq : BOOLEAN] /\ app'.wechat = app.wechat
  BY <1>1, <1>2 DEF ChannelTyped
<1>5. threads' \in 0..MaxThreads
  BY <1>1, <1>2 DEF ChannelTyped
<1>6. ChannelTyped'
  BY <1>1, <1>2, <1>3, <1>4, <1>5 DEF ChannelTyped
<1>7. \A r \in Swappers : ~Replacing(r)
  <2>1. \A r \in Swappers \ {s} : ~Replacing(r)
    BY <1>1, OthersWait
  <2> QED
    BY <1>1, <2>1 DEF Replacing
<1>8. LoopInv'
  BY <1>1, <1>2, <1>3, <1>4, <1>7 DEF LoopInv, Alive
<1> QED
  BY <1>3, <1>6, <1>8 DEF ChannelInv

LEMMA ArrivalIsHistory ==
  ASSUME ChannelTyped, NEW s \in Swappers, NEW named \in BOOLEAN, Comes(s, named)
  PROVE  /\ ~Engaged(s) /\ ~Booting /\ past' \in PastRecord
         /\ past'.login = past.login /\ past'.missed = past.missed
         /\ past'.named <=> (past.named \/ named)
         /\ past'.met <=> (past.met \/ \E r \in Swappers : Engaged(r))
<1>1. PICK b \in BOOLEAN : b = (past.met \/ \E r \in Swappers : Engaged(r))
  OBVIOUS
<1>2. PICK n \in BOOLEAN : n = (past.named \/ named)
  OBVIOUS
<1>3. past' = [past EXCEPT !.count = past.count + 1, !.named = n, !.met = b] /\ ~Engaged(s) /\ ~Booting
  BY <1>1, <1>2 DEF Comes
<1>4. past \in PastRecord
  BY DEF ChannelTyped
<1>5. /\ past' \in PastRecord /\ past'.login = past.login /\ past'.missed = past.missed
      /\ past'.named = n /\ past'.met = b
  <2>1. past' = [count |-> past.count + 1, login |-> past.login, named |-> n, met |-> b,
                 missed |-> past.missed]
    BY <1>3, <1>4 DEF PastRecord
  <2>2. past.count + 1 \in Nat
    BY <1>4 DEF PastRecord
  <2> QED
    BY <1>4, <2>1, <2>2 DEF PastRecord
<1> QED
  BY <1>1, <1>2, <1>3, <1>5

\* A request on a channel arrives.
LEMMA RequestedKeeps ==
  ASSUME ChannelInv, NEW s \in Swappers, NEW prog \in {SwapWeChat, SwapQQ},
         NEW new \in WeChatConfig \cup [on : BOOLEAN], NEW login \in Login \cup {None},
         prog = SwapWeChat => new \in WeChatConfig,
         prog = SwapQQ => new \in [on : BOOLEAN] /\ login = None,
         NEW named \in BOOLEAN, Requested(s, prog, new, login, named),
         files' \in [token : [Bots -> Tokens \cup {None}], newest : Bots \cup {None}]
  PROVE  /\ ChannelInv'
         /\ plan' = [plan EXCEPT ![s] = [todo |-> prog, new |-> new, login |-> login, boot |-> FALSE]]
         /\ plan'[s] = [todo |-> prog, new |-> new, login |-> login, boot |-> FALSE]
         /\ NextOf(s)' = "lock" /\ Working(s)'
         /\ \A r \in Swappers \ {s} : plan'[r] = plan[r] /\ (Working(r)' <=> Working(r))
<1> DEFINE job == [todo |-> prog, new |-> new, login |-> login, boot |-> FALSE]
<1>1. /\ ~Working(s) /\ ~Booting /\ plan' = [plan EXCEPT ![s] = job] /\ past' \in PastRecord
      /\ UNCHANGED <<cfg, kept, expired, chan, app, wired, threads, current, latch, loading>>
  BY ArrivalIsHistory DEF Requested, ChannelInv, Engaged
<1>2. /\ ChannelTyped /\ (\A r \in Swappers : Planned(r)) /\ BootAlone /\ LoopInv
      /\ plan \in [Swappers -> PlanRecord \cup {NoPlan}]
  BY DEF ChannelInv, ChannelTyped
<1>3. /\ Chained(prog, ChannelSteps, SwapPairs, {"start", "start_qq"}) /\ Head(prog) = "lock"
      /\ Has(prog, "apply") => new \in WeChatConfig
      /\ Has(prog, "apply_qq") => new \in [on : BOOLEAN]
      /\ login # None => Has(prog, "start")
  BY SwapsAreChained, SwapsHave
<1>4. Chained(prog, ChannelSteps, PairsOf(FALSE), EndsOf(FALSE))
  BY <1>3 DEF PairsOf, EndsOf
<1>5. prog \in Seq(ChannelSteps) /\ prog # <<>>
  BY <1>4 DEF Chained
<1>6. job \in PlanRecord /\ job # NoPlan
  BY <1>5 DEF PlanRecord, NoPlan
<1>7. plan'[s] = job /\ \A r \in Swappers \ {s} : plan'[r] = plan[r]
  BY <1>1, <1>2
<1>8. Working(s)' /\ NextOf(s)' = "lock"
  BY <1>3, <1>6, <1>7 DEF Working, NextOf
<1>9. \A r \in Swappers \ {s} : (Working(r)' <=> Working(r)) /\ NextOf(r)' = NextOf(r)
  BY <1>7 DEF Working, NextOf
<1>10. ChannelTyped'
  <2>1. plan' \in [Swappers -> PlanRecord \cup {NoPlan}]
    BY <1>1, <1>2, <1>6
  <2> QED
    BY <1>1, <1>2, <2>1 DEF ChannelTyped
<1>11. latch # s
  BY <1>1, <1>2 DEF Planned
<1>12. ASSUME NEW r \in Swappers \ {s} PROVE Planned(r)'
  <2>1. Planned(r)
    BY <1>2
  <2> QED
    BY <2>1, <1>1, <1>7, <1>9 DEF Planned
<1>13. Planned(s)'
  <2>1. /\ plan'[s].todo = prog /\ plan'[s].new = new /\ plan'[s].login = login /\ ~plan'[s].boot
        /\ plan'[s].boot = FALSE
    BY <1>7
  <2> QED
    BY <1>1, <1>3, <1>4, <1>8, <1>11, <2>1 DEF Planned
<1>14. BootAlone'
  BY <1>1, <1>7, <1>9 DEF BootAlone, Booting
<1>15. \A r \in Swappers : Replacing(r)' <=> Replacing(r)
  <2>1. ~Replacing(s) /\ ~Replacing(s)'
    BY <1>1, <1>8 DEF Replacing, NextOf
  <2> QED
    BY <2>1, <1>9 DEF Replacing
<1>16. LoopInv'
  BY <1>1, <1>2, <1>15 DEF LoopInv, Alive
<1> QED
  BY <1>1, <1>7, <1>8, <1>9, <1>10, <1>12, <1>13, <1>14, <1>16 DEF ChannelInv

LEMMA ConfirmKeeps ==
  ASSUME ChannelInv, NEW s \in Swappers, NEW login \in Login, Confirm(s, login)
  PROVE  ChannelInv'
<1>1. [on |-> TRUE, bot |-> login.bot, token |-> login.token] \in WeChatConfig
  BY DEF Login, WeChatConfig
<1>2. files' \in [token : [Bots -> Tokens \cup {None}], newest : Bots \cup {None}]
  BY DEF Confirm, FilesWith, ChannelInv, ChannelTyped, Login
<1>3. SwapWeChat # SwapQQ
  BY SwapsHave DEF SwapWeChat, SwapQQ
<1> QED
  BY <1>1, <1>2, <1>3, RequestedKeeps DEF Confirm

LEMMA PutWeChatKeeps ==
  ASSUME ChannelInv, NEW s \in Swappers, NEW on \in BOOLEAN,
         NEW who \in PutBodies \cup {Configured}, PutWeChat(s, on, who)
  PROVE  ChannelInv'
<1>1. who \in Identity
  BY ChannelAssumption DEF ChannelAssumption, Identity, Configured, ChannelInv, ChannelTyped, WeChatConfig
<1>2. [on |-> on, bot |-> who.bot, token |-> who.token] \in WeChatConfig
  BY <1>1 DEF WeChatConfig, Identity
<1>3. files' \in [token : [Bots -> Tokens \cup {None}], newest : Bots \cup {None}]
  BY DEF PutWeChat, ChannelInv, ChannelTyped
<1>4. SwapWeChat # SwapQQ
  BY DEF SwapWeChat, SwapQQ
<1>5. (who # Configured) \in BOOLEAN
  OBVIOUS
<1> QED
  BY <1>2, <1>3, <1>4, <1>5, RequestedKeeps DEF PutWeChat

LEMMA PutQQKeeps ==
  ASSUME ChannelInv, NEW s \in Swappers, NEW on \in BOOLEAN, PutQQ(s, on)
  PROVE  ChannelInv'
<1>1. files' \in [token : [Bots -> Tokens \cup {None}], newest : Bots \cup {None}]
  BY DEF PutQQ, ChannelInv, ChannelTyped
<1>2. SwapWeChat # SwapQQ
  BY DEF SwapWeChat, SwapQQ
<1> QED
  BY <1>1, <1>2, RequestedKeeps DEF PutQQ

\* A reload changes whether a channel is enabled and the bot, never a channel or a token.
LEMMA ReloadsKeeps ==
  ASSUME ChannelInv, NEW s \in Swappers, Reloads(s)
  PROVE  ChannelInv'
<1>1. /\ loading' = [loading EXCEPT ![s] =
           [on |-> kept.wechat.on, bot |-> kept.wechat.bot, qq |-> kept.qq]]
      /\ UNCHANGED <<cfg, kept, files, expired, chan, app, wired, threads, current, latch, plan>>
      /\ past' \in PastRecord /\ ChannelTyped
  BY ArrivalIsHistory DEF Reloads, ChannelInv
<1>2. ChannelTyped'
  BY <1>1 DEF ChannelTyped, Snapshot
<1> QED
  BY <1>1, <1>2 DEF ChannelInv, Planned, BootAlone, LoopInv, Working, NextOf, Replacing, Alive

LEMMA OverlaysKeeps ==
  ASSUME ChannelInv, NEW s \in Swappers, Overlays(s)
  PROVE  /\ ChannelInv' /\ cfg'.wechat.token = cfg.wechat.token /\ cfg'.wechat.on = loading[s].on
         /\ cfg'.wechat.bot = IF loading[s].bot = None THEN cfg.wechat.bot ELSE loading[s].bot
<1>1. /\ Loading(s) /\ loading' = [loading EXCEPT ![s] = None]
      /\ cfg' = [wechat |-> [cfg.wechat EXCEPT
                    !.on = loading[s].on,
                    !.bot = IF loading[s].bot = None THEN cfg.wechat.bot ELSE loading[s].bot],
                 qq |-> loading[s].qq]
      /\ UNCHANGED <<kept, files, expired, chan, app, wired, threads, current, latch, plan, past>>
  BY DEF Overlays
<1>2. ChannelTyped /\ cfg \in [wechat : WeChatConfig, qq : BOOLEAN] /\ loading[s] \in Snapshot
  BY <1>1 DEF ChannelInv, ChannelTyped, Loading
<1>3. /\ cfg' \in [wechat : WeChatConfig, qq : BOOLEAN] /\ cfg'.wechat.token = cfg.wechat.token
      /\ cfg'.wechat.on = loading[s].on
      /\ cfg'.wechat.bot = IF loading[s].bot = None THEN cfg.wechat.bot ELSE loading[s].bot
  BY <1>1, <1>2 DEF WeChatConfig, Snapshot
<1>4. ChannelTyped'
  BY <1>1, <1>2, <1>3 DEF ChannelTyped
<1> QED
  BY <1>1, <1>3, <1>4 DEF ChannelInv, Planned, BootAlone, LoopInv, Working, NextOf, Replacing, Alive

LEMMA ChannelsRestartKeeps ==
  ASSUME ChannelInv, NEW s \in Swappers, ChannelsRestart(s)
  PROVE  /\ ChannelInv'
         /\ plan'[s] = [todo |-> Boot, new |-> None, login |-> None, boot |-> TRUE] /\ Working(s)'
         /\ NextOf(s)' = "load" /\ \A r \in Swappers \ {s} : ~Working(r)'
<1> DEFINE job == [todo |-> Boot, new |-> None, login |-> None, boot |-> TRUE]
<1>1. /\ cfg' = [wechat |-> [on |-> kept.wechat.on, bot |-> kept.wechat.bot, token |-> None], qq |-> kept.qq]
      /\ chan' = [i \in Pool |-> NoChannel] /\ app' = [wechat |-> None, qq |-> FALSE]
      /\ wired' = None /\ threads' = 0 /\ current' = "none" /\ latch' = None
      /\ plan' = [r \in Swappers |-> IF r = s THEN job ELSE NoPlan] /\ loading' = [r \in Swappers |-> None]
      /\ UNCHANGED <<kept, files, expired>>
  BY DEF ChannelsRestart
<1>2. ChannelTyped /\ None \notin Swappers /\ MaxThreads \in Nat
  BY ChannelAssumption DEF ChannelInv, ChannelAssumption
<1>3. Chained(Boot, ChannelSteps, PairsOf(TRUE), EndsOf(TRUE))
  BY SwapsAreChained DEF PairsOf, EndsOf
<1>4. Boot \in Seq(ChannelSteps) /\ Boot # <<>>
  BY <1>3 DEF Chained
<1>5. job \in PlanRecord /\ job # NoPlan
  BY <1>4 DEF PlanRecord, NoPlan
<1>6. plan'[s] = job /\ \A r \in Swappers \ {s} : plan'[r] = NoPlan
  BY <1>1
<1>7. Working(s)' /\ NextOf(s)' = "load"
  BY <1>5, <1>6, SwapsHave DEF Working, NextOf
<1>8. \A r \in Swappers \ {s} : ~Working(r)'
  BY <1>6 DEF Working
<1>9. ChannelTyped'
  <2>1. past' \in PastRecord
    <3>1. PICK b \in BOOLEAN : b = (past.missed \/ \E r \in Swappers : Engaged(r))
      OBVIOUS
    <3>2. past \in PastRecord
      BY <1>2 DEF ChannelTyped
    <3>3. past' = [past EXCEPT !.count = past.count + 1, !.missed = b]
      BY <3>1 DEF ChannelsRestart
    <3>4. past' = [count |-> past.count + 1, login |-> past.login, named |-> past.named,
                   met |-> past.met, missed |-> b]
      BY <3>2, <3>3 DEF PastRecord
    <3>5. past.count + 1 \in Nat
      BY <3>2 DEF PastRecord
    <3> QED
      BY <3>2, <3>4, <3>5 DEF PastRecord
  <2>2. plan' \in [Swappers -> PlanRecord \cup {NoPlan}]
    BY <1>1, <1>5
  <2>3. cfg' \in [wechat : WeChatConfig, qq : BOOLEAN]
    BY <1>1, <1>2 DEF ChannelTyped, WeChatConfig
  <2>4. /\ chan' \in [Pool -> ChannelState] /\ app' \in [wechat : Pool \cup {None}, qq : BOOLEAN]
        /\ wired' \in Pool \cup {None} /\ threads' \in 0..MaxThreads
        /\ current' \in {"none", "wechat", "qq"} /\ latch' \in Swappers \cup {None}
    BY <1>1, <1>2 DEF ChannelState
  <2>5. /\ kept' \in [wechat : [on : BOOLEAN, bot : Bots \cup {None}], qq : BOOLEAN]
        /\ files' \in [token : [Bots -> Tokens \cup {None}], newest : Bots \cup {None}]
        /\ expired' \subseteq Tokens /\ loading' \in [Swappers -> Snapshot \cup {None}]
    BY <1>1, <1>2 DEF ChannelTyped
  <2> QED
    BY <2>1, <2>2, <2>3, <2>4, <2>5 DEF ChannelTyped
<1>10. \A r \in Swappers : Planned(r)'
  <2>1. ASSUME NEW r \in Swappers \ {s} PROVE Planned(r)'
    BY <1>1, <1>2, <1>8, <2>1 DEF Planned
  <2>2. Planned(s)'
    <3>1. /\ plan'[s].todo = Boot /\ plan'[s].login = None /\ plan'[s].boot = TRUE
      BY <1>6
    <3> QED
      BY <3>1, <1>1, <1>2, <1>3, <1>7, SwapsHave DEF Planned
  <2> QED
    BY <2>1, <2>2
<1>11. BootAlone'
  BY <1>1, <1>8 DEF BootAlone
<1>12. \A i \in Pool : ~Alive(i)'
  BY <1>1 DEF Alive, NoChannel
<1>13. LoopInv'
  BY <1>12 DEF LoopInv
<1> QED
  BY <1>6, <1>7, <1>8, <1>9, <1>10, <1>11, <1>13 DEF ChannelInv

\* A step of a poll loop: it goes on as it is, or ends.
LEMMA PollingKeeps ==
  ASSUME ChannelInv, NEW i \in Pool, Polls(i) \/ Runs(i) \/ Replies(i) \/ LearnsItEnded(i)
  PROVE  /\ ChannelInv' /\ UNCHANGED <<cfg, kept, files, app, latch, plan, loading, past>>
         /\ \A j \in Pool : Alive(j)' => Alive(j)
<1>1. UNCHANGED <<cfg, kept, files, expired, app, wired, threads, current, latch, plan, loading, past>>
  BY DEF Polls, Runs, Replies, LearnsItEnded
<1>2. /\ ChannelTyped /\ (\A s \in Swappers : Planned(s)) /\ BootAlone /\ LoopInv
      /\ chan \in [Pool -> ChannelState]
  BY DEF ChannelInv, ChannelTyped
<1>3. Alive(i) => /\ chan[i] \in [loop : {"polling", "running", "replying"}, token : Tokens, left : Int]
  BY <1>2 DEF Alive, ChannelState, NoChannel
<1>4. /\ chan' \in [Pool -> ChannelState] /\ \A j \in Pool \ {i} : chan'[j] = chan[j]
      /\ Alive(i)' => Alive(i) /\ chan'[i].token = chan[i].token
  <2>1. CASE Polls(i)
    <3>1. PICK n \in 1..MaxBatch : chan' = [chan EXCEPT ![i] = [chan[i] EXCEPT !.loop = "running", !.left = n]]
      BY <2>1 DEF Polls
    <3>2. Alive(i) /\ n \in Int
      <4>1. Alive(i)
        BY <2>1 DEF Polls, Alive
      <4> QED
        BY <4>1
    <3>3. /\ [chan[i] EXCEPT !.loop = "running", !.left = n] \in ChannelState
          /\ [chan[i] EXCEPT !.loop = "running", !.left = n].token = chan[i].token
      BY <1>3, <3>2 DEF ChannelState
    <3> QED
      BY <1>2, <3>1, <3>2, <3>3
  <2>2. CASE Runs(i)
    <3>1. Alive(i) /\ chan' = [chan EXCEPT ![i] = [chan[i] EXCEPT !.loop = "replying"]]
      BY <2>2 DEF Runs, Alive
    <3>2. /\ [chan[i] EXCEPT !.loop = "replying"] \in ChannelState
          /\ [chan[i] EXCEPT !.loop = "replying"].token = chan[i].token
      BY <1>3, <3>1 DEF ChannelState
    <3> QED
      BY <1>2, <3>1, <3>2
  <2>3. CASE Replies(i)
    <3>1. PICK l \in {"polling", "running"} :
            chan' = [chan EXCEPT ![i] = [chan[i] EXCEPT !.loop = l, !.left = chan[i].left - 1]]
      BY <2>3 DEF Replies
    <3>2. Alive(i)
      BY <2>3 DEF Replies, Alive
    <3>3. chan[i].left - 1 \in Int
      BY <1>3, <3>2
    <3>4. /\ [chan[i] EXCEPT !.loop = l, !.left = chan[i].left - 1] \in ChannelState
          /\ [chan[i] EXCEPT !.loop = l, !.left = chan[i].left - 1].token = chan[i].token
      BY <1>3, <3>2, <3>3 DEF ChannelState
    <3> QED
      BY <1>2, <3>1, <3>2, <3>4
  <2>4. CASE LearnsItEnded(i)
    <3>1. chan' = [chan EXCEPT ![i] = [loop |-> "needs_login"]]
      BY <2>4 DEF LearnsItEnded
    <3>2. ~Alive(i)'
      BY <3>1, <1>2 DEF Alive
    <3> QED
      BY <1>2, <3>1, <3>2 DEF ChannelState
  <2> QED
    BY <2>1, <2>2, <2>3, <2>4
<1>5. ChannelTyped'
  BY <1>1, <1>2, <1>4 DEF ChannelTyped
<1>6. \A s \in Swappers : Planned(s)' /\ NextOf(s)' = NextOf(s)
  BY <1>1, <1>2 DEF Planned, Working, NextOf
<1>7. BootAlone'
  BY <1>1, <1>2 DEF BootAlone, Working
<1>8. \A j \in Pool : Alive(j)' => Alive(j) /\ chan'[j].token = chan[j].token
  BY <1>4 DEF Alive
<1>9. LoopInv'
  BY <1>1, <1>2, <1>6, <1>8 DEF LoopInv, Replacing
<1> QED
  BY <1>1, <1>5, <1>6, <1>7, <1>8, <1>9 DEF ChannelInv

LEMMA SessionEndsKeeps ==
  ASSUME ChannelInv, NEW t \in Tokens, SessionEnds(t)
  PROVE  ChannelInv' /\ UNCHANGED <<cfg, kept, files, app, latch, plan, loading, past>>
<1>1. UNCHANGED <<cfg, kept, files, chan, app, wired, threads, current, latch, plan, loading, past>>
      /\ expired' = expired \cup {t}
  BY DEF SessionEnds
<1>2. ChannelTyped'
  BY <1>1 DEF ChannelInv, ChannelTyped
<1> QED
  BY <1>1, <1>2 DEF ChannelInv, Planned, BootAlone, LoopInv, Working, NextOf, Replacing, Alive

LEMMA ChannelStutters ==
  ASSUME ChannelInv, UNCHANGED channelVars
  PROVE  ChannelInv'
<1>1. ChannelTyped'
  BY DEF ChannelInv, ChannelTyped, channelVars
<1> QED
  BY <1>1 DEF ChannelInv, Planned, BootAlone, LoopInv, Working, NextOf, Replacing, Alive, channelVars

(* Plans and the lock stay in order: a request goes through its steps to the end, and
   only between the stop and the start of a channel is there none that polls. *)
THEOREM ChannelInvAlways == ChannelSpec => []ChannelInv
<1>1. ChannelInit => ChannelInv
  BY ChannelStarts
<1>2. ChannelInv /\ UNCHANGED channelVars => ChannelInv'
  BY ChannelStutters
<1>3. ChannelInv /\ ChannelNext => ChannelInv'
  BY ConfirmKeeps, PutWeChatKeeps, PutQQKeeps, ReloadsKeeps, OverlaysKeeps, TakesLockKeeps, StopsWeChatKeeps, StopsQQKeeps,
     AppliesKeeps, Keeps1Keeps, LoadsCredentialsKeeps, StartsWeChatKeeps, StartsQQKeeps,
     ChannelsRestartKeeps, PollingKeeps, SessionEndsKeeps DEF ChannelNext
<1> QED
  BY <1>1, <1>2, <1>3, PTL DEF ChannelSpec

(* Configurations, files, the channels of app.state and the lock keep their types. *)
THEOREM ChannelTypeCorrect == ChannelSpec => []ChannelTypeOK
<1>1. ChannelInv => ChannelTypeOK
  BY DEF ChannelInv, ChannelTyped, ChannelTypeOK, WeChatConfig
<1> QED
  BY <1>1, ChannelInvAlways, PTL

------------------------------------------------------------------------------
(* Channels: requests one by one *)

\* What a step of a program leaves of the history, the reloads and the other programs.
LEMMA StepsGoOn ==
  ASSUME ChannelInv, NEW s \in Swappers,
         \/ TakesLock(s) \/ StopsWeChat(s) \/ StopsQQ(s) \/ Applies(s) \/ Keeps1(s)
         \/ LoadsCredentials(s) \/ StartsWeChat(s) \/ StartsQQ(s)
  PROVE  /\ NextOf(s) # "none" /\ Goes(s) /\ UNCHANGED loading
         /\ past'.met = past.met /\ (past.missed => past'.missed)
         /\ \A r \in Swappers \ {s} : plan'[r] = plan[r] /\ NextOf(r)' = NextOf(r)
         /\ \A r \in Swappers : (Working(r)' => Working(r)) /\ (Engaged(r)' => Engaged(r))
<1>1. past \in PastRecord
  BY DEF ChannelInv, ChannelTyped
<1>2. /\ NextOf(s) # "none" /\ Advance(s) /\ UNCHANGED loading
      /\ past'.met = past.met /\ (past.missed => past'.missed)
      /\ \/ latch' = latch /\ NextOf(s) \notin {"lock", "start", "start_qq"}
         \/ latch = None /\ latch' = s /\ NextOf(s) = "lock"
         \/ latch' = (IF latch = s THEN None ELSE latch) /\ NextOf(s) \in {"start", "start_qq"}
  <2>1. CASE TakesLock(s)
    BY <2>1 DEF TakesLock
  <2>2. CASE StopsWeChat(s)
    BY <2>2 DEF StopsWeChat
  <2>3. CASE StopsQQ(s)
    BY <2>3 DEF StopsQQ
  <2>4. CASE Applies(s)
    BY <2>4 DEF Applies
  <2>5. CASE Keeps1(s)
    <3>1. past' = past \/ past' = [past EXCEPT !.missed = TRUE]
      BY <2>5 DEF Keeps1
    <3>2. past'.met = past.met /\ (past.missed => past'.missed)
      BY <1>1, <3>1 DEF PastRecord
    <3> QED
      BY <2>5, <3>2 DEF Keeps1
  <2>6. CASE LoadsCredentials(s)
    BY <2>6 DEF LoadsCredentials
  <2>7. CASE StartsWeChat(s) \/ StartsQQ(s)
    <3>1. PICK i : EndsSwap(s, i)
      BY <2>7, Zenon DEF StartsWeChat, StartsQQ
    <3>2. NextOf(s) \in {"start", "start_qq"}
      BY <2>7 DEF StartsWeChat, StartsQQ
    <3>3. past' = past \/ past' = [past EXCEPT !.login = plan[s].login, !.named = FALSE]
      BY <3>1 DEF EndsSwap
    <3>4. past'.met = past.met /\ past'.missed = past.missed
      BY <1>1, <3>3 DEF PastRecord
    <3> QED
      BY <3>1, <3>2, <3>4 DEF EndsSwap
  <2> QED
    BY <2>1, <2>2, <2>3, <2>4, <2>5, <2>6, <2>7
<1>3. /\ \A r \in Swappers \ {s} : plan'[r] = plan[r] /\ NextOf(r)' = NextOf(r)
      /\ Goes(s)
  BY <1>2, PlansGoOn
<1>4. \A r \in Swappers : Working(r)' => Working(r)
  <2>1. Working(s)
    BY <1>2 DEF NextOf
  <2> QED
    BY <1>3, <2>1 DEF Working
<1> QED
  BY <1>2, <1>3, <1>4 DEF Engaged, Loading

LEMMA AloneKeeps ==
  ASSUME AloneInv, past.met => past'.met,
         \A r \in Swappers : (Working(r)' => Working(r)) /\ (Loading(r)' => Loading(r))
  PROVE  AloneInv'
BY DEF AloneInv, Engaged

\* An arrival meets whoever is busy.
LEMMA AloneArrives ==
  ASSUME ChannelInv, AloneInv, NEW s \in Swappers, NEW named \in BOOLEAN, Comes(s, named),
         \A r \in Swappers \ {s} : (Working(r)' => Working(r)) /\ (Loading(r)' => Loading(r)),
         ~(Working(s)' /\ Loading(s)')
  PROVE  AloneInv'
<1>1. past'.met <=> (past.met \/ \E r \in Swappers : Engaged(r))
  BY ArrivalIsHistory DEF ChannelInv
<1> QED
  BY <1>1 DEF AloneInv, Engaged

LEMMA AloneGoesOn == ChannelInv /\ AloneInv /\ [ChannelNext]_channelVars => AloneInv'
<1> SUFFICES ASSUME ChannelInv, AloneInv, [ChannelNext]_channelVars PROVE AloneInv'
  OBVIOUS
<1>1. ChannelTyped /\ plan \in [Swappers -> PlanRecord \cup {NoPlan}]
      /\ loading \in [Swappers -> Snapshot \cup {None}]
  BY DEF ChannelInv, ChannelTyped
<1>2. ASSUME NEW s \in Swappers, NEW todo, NEW new, NEW login, NEW named \in BOOLEAN,
             Requested(s, todo, new, login, named)
      PROVE  AloneInv'
  <2>1. /\ Comes(s, named) /\ UNCHANGED loading /\ ~Engaged(s)
        /\ \A r \in Swappers \ {s} : plan'[r] = plan[r]
    BY <1>1, <1>2 DEF Requested, Comes
  <2> QED
    BY <2>1, AloneArrives DEF Working, Loading, Engaged
<1>3. ASSUME NEW s \in Swappers, Reloads(s) PROVE AloneInv'
  <2>1. /\ Comes(s, FALSE) /\ UNCHANGED plan /\ ~Engaged(s)
        /\ \A r \in Swappers \ {s} : loading'[r] = loading[r]
    BY <1>1, <1>3 DEF Reloads, Comes
  <2>2. FALSE \in BOOLEAN
    OBVIOUS
  <2> QED
    BY <2>1, <2>2, AloneArrives DEF Working, Loading, Engaged
<1>4. ASSUME NEW s \in Swappers, Overlays(s) PROVE AloneInv'
  <2>1. UNCHANGED <<plan, past>> /\ \A r \in Swappers : loading'[r] # None => loading'[r] = loading[r]
    BY <1>1, <1>4 DEF Overlays
  <2> QED
    BY <2>1, AloneKeeps DEF Working, Loading
<1>5. ASSUME NEW s \in Swappers, ChannelsRestart(s) PROVE AloneInv'
  <2>1. \A r \in Swappers : ~Loading(r)' /\ (Working(r)' => r = s)
    BY <1>5 DEF ChannelsRestart, Loading, Working
  <2> QED
    BY <2>1 DEF AloneInv, Engaged
<1>6. ASSUME NEW s \in Swappers,
             \/ TakesLock(s) \/ StopsWeChat(s) \/ StopsQQ(s) \/ Applies(s) \/ Keeps1(s)
             \/ LoadsCredentials(s) \/ StartsWeChat(s) \/ StartsQQ(s)
      PROVE  AloneInv'
  <2>1. /\ past'.met = past.met /\ UNCHANGED loading
        /\ \A r \in Swappers : Working(r)' => Working(r)
    BY <1>6, StepsGoOn
  <2> QED
    BY <2>1, AloneKeeps DEF Loading
<1>7. ASSUME UNCHANGED <<plan, loading, past>> PROVE AloneInv'
  BY <1>7, AloneKeeps DEF Working, Loading
<1>8. CASE UNCHANGED channelVars
  BY <1>7, <1>8 DEF channelVars
<1>9. ASSUME NEW i \in Pool, Polls(i) \/ Runs(i) \/ Replies(i) \/ LearnsItEnded(i) PROVE AloneInv'
  BY <1>7, <1>9 DEF Polls, Runs, Replies, LearnsItEnded
<1>10. ASSUME NEW t \in Tokens, SessionEnds(t) PROVE AloneInv'
  BY <1>7, <1>10 DEF SessionEnds
<1>11. ASSUME NEW s \in Swappers, NEW login \in Login, Confirm(s, login) PROVE AloneInv'
  BY <1>2, <1>11 DEF Confirm
<1>12. ASSUME NEW s \in Swappers, NEW on \in BOOLEAN, NEW who, PutWeChat(s, on, who) PROVE AloneInv'
  <2>1. (who # Configured) \in BOOLEAN
    OBVIOUS
  <2> QED
    BY <1>2, <1>12, <2>1 DEF PutWeChat
<1>13. ASSUME NEW s \in Swappers, NEW on \in BOOLEAN, PutQQ(s, on) PROVE AloneInv'
  BY <1>2, <1>13 DEF PutQQ
<1> QED
  BY <1>3, <1>4, <1>5, <1>6, <1>8, <1>9, <1>10, <1>11, <1>12, <1>13 DEF ChannelNext

THEOREM AloneInvAlways == ChannelSpec => []AloneInv
<1>1. ChannelInit => AloneInv
  BY DEF ChannelInit, AloneInv, Engaged, Working, Loading
<1> QED
  BY <1>1, AloneGoesOn, ChannelInvAlways, PTL DEF ChannelSpec

------------------------------------------------------------------------------
(* Channels: memory and table *)

\* A step that leaves what the table says of WeChat, and whether it is enabled, alone.
LEMMA TableKeeps ==
  ASSUME TableInv, past.met => past'.met, past.missed => past'.missed,
         kept'.wechat = kept.wechat, cfg'.wechat.on = cfg.wechat.on,
         \A r \in Swappers : loading'[r] # None => loading'[r] = loading[r],
         \A r \in Swappers : NextOf(r) = "enabled" => NextOf(r)' = "enabled",
         (\A r \in Swappers : ~Replacing(r)') =>
            \A i \in Pool : Alive(i)' => Alive(i) /\ \A r \in Swappers : ~Replacing(r)
  PROVE  TableInv'
BY DEF TableInv, Loading

LEMMA TableGoesOn ==
  ChannelInv /\ AloneInv /\ TableInv /\ [ChannelNext]_channelVars => TableInv'
<1> SUFFICES ASSUME ChannelInv, AloneInv, TableInv, [ChannelNext]_channelVars PROVE TableInv'
  OBVIOUS
<1>1. /\ ChannelTyped /\ LoopInv /\ plan \in [Swappers -> PlanRecord \cup {NoPlan}]
      /\ loading \in [Swappers -> Snapshot \cup {None}] /\ past \in PastRecord
      /\ cfg \in [wechat : WeChatConfig, qq : BOOLEAN]
      /\ kept \in [wechat : [on : BOOLEAN, bot : Bots \cup {None}], qq : BOOLEAN]
  BY DEF ChannelInv, ChannelTyped
<1>2. ASSUME NEW s \in Swappers, NEW todo \in {SwapWeChat, SwapQQ}, NEW new, NEW login,
             NEW named \in BOOLEAN, Requested(s, todo, new, login, named)
      PROVE  TableInv'
  <2>1. /\ ~Working(s) /\ (past.met => past'.met) /\ past'.missed = past.missed
        /\ plan' = [plan EXCEPT ![s] = [todo |-> todo, new |-> new, login |-> login, boot |-> FALSE]]
        /\ UNCHANGED <<cfg, kept, chan, loading>>
    BY <1>1, <1>2, ArrivalIsHistory DEF Requested, Engaged
  <2>2. NextOf(s) = "none" /\ NextOf(s)' \in {"none", "lock"}
    <3>1. plan'[s].todo = todo
      BY <1>1, <2>1
    <3> QED
      BY <2>1, <3>1, SwapsHave DEF NextOf
  <2>3. \A r \in Swappers \ {s} : NextOf(r)' = NextOf(r)
    BY <1>1, <2>1 DEF NextOf, Working
  <2>4. \A r \in Swappers : Replacing(r)' <=> Replacing(r)
    BY <2>2, <2>3 DEF Replacing
  <2> QED
    BY <2>1, <2>2, <2>3, <2>4, TableKeeps DEF Alive
<1>3. ASSUME NEW s \in Swappers, Reloads(s) PROVE TableInv'
  <2>1. /\ (past.met => past'.met) /\ past'.missed = past.missed
        /\ loading' = [loading EXCEPT ![s] =
             [on |-> kept.wechat.on, bot |-> kept.wechat.bot, qq |-> kept.qq]]
        /\ UNCHANGED <<cfg, kept, chan, plan>>
    BY <1>1, <1>3, ArrivalIsHistory DEF Reloads
  <2>2. \A r \in Swappers : NextOf(r)' = NextOf(r)
    BY <2>1 DEF NextOf, Working
  <2>3. /\ loading'[s].on = kept.wechat.on /\ loading'[s].bot = kept.wechat.bot
        /\ \A r \in Swappers \ {s} : loading'[r] = loading[r]
    BY <1>1, <2>1
  <2> QED
    BY <2>1, <2>2, <2>3 DEF TableInv, Loading, Replacing, Alive
<1>4. ASSUME NEW s \in Swappers, Overlays(s) PROVE TableInv'
  <2>1. /\ Loading(s) /\ UNCHANGED <<kept, chan, plan, past>>
        /\ \A r \in Swappers : loading'[r] # None => loading'[r] = loading[r]
    BY <1>1, <1>4 DEF Overlays
  <2>2. cfg'.wechat.on = loading[s].on
    BY <1>4, OverlaysKeeps
  <2>3. \A r \in Swappers : NextOf(r)' = NextOf(r) /\ (Replacing(r)' <=> Replacing(r))
    BY <2>1 DEF NextOf, Working, Replacing
  <2>4. \A r \in Swappers : NextOf(r) = "enabled" => Replacing(r)
    BY DEF Replacing
  <2> QED
    BY <2>1, <2>2, <2>3, <2>4 DEF TableInv, Loading, Alive
<1>5. ASSUME NEW s \in Swappers, ChannelsRestart(s) PROVE TableInv'
  <2>1. /\ \A r \in Swappers : ~Loading(r)'
        /\ cfg'.wechat.on = kept.wechat.on /\ UNCHANGED kept
        /\ \A i \in Pool : ~Alive(i)'
    BY <1>5 DEF ChannelsRestart, Loading, Alive, NoChannel
  <2> QED
    BY <2>1 DEF TableInv
<1>6. ASSUME NEW s \in Swappers, TakesLock(s) \/ StopsWeChat(s) \/ StopsQQ(s) \/ LoadsCredentials(s)
      PROVE  TableInv'
  <2>1. /\ NextOf(s) \in {"lock", "stop", "stop_qq", "load"} /\ UNCHANGED kept
        /\ cfg'.wechat.on = cfg.wechat.on
        /\ \A i \in Pool : Alive(i)' => Alive(i)
    <3>1. CASE TakesLock(s) \/ StopsQQ(s)
      BY <3>1 DEF TakesLock, StopsQQ, Alive
    <3>2. CASE StopsWeChat(s)
      <4>1. chan' \in [Pool -> ChannelState] /\ \A i \in Pool : chan'[i] \in {chan[i], NoChannel}
        <5>1. chan \in [Pool -> ChannelState]
          BY <1>1 DEF ChannelTyped
        <5> QED
          BY <3>2, <5>1 DEF StopsWeChat, ChannelState
      <4> QED
        BY <3>2, <4>1 DEF StopsWeChat, Alive, NoChannel
    <3>3. CASE LoadsCredentials(s)
      <4>1. \/ cfg' = cfg
            \/ \E b, t : cfg' = [cfg EXCEPT !.wechat = [cfg.wechat EXCEPT !.bot = b, !.token = t]]
        BY <3>3 DEF LoadsCredentials
      <4>2. cfg'.wechat.on = cfg.wechat.on
        <5>1. CASE cfg' = cfg
          BY <5>1
        <5>2. ASSUME NEW b, NEW t,
                     cfg' = [cfg EXCEPT !.wechat = [cfg.wechat EXCEPT !.bot = b, !.token = t]]
              PROVE  cfg'.wechat.on = cfg.wechat.on
          BY <1>1, <5>2 DEF WeChatConfig
        <5> QED
          BY <4>1, <5>1, <5>2
      <4> QED
        BY <3>3, <4>2 DEF LoadsCredentials, Alive
    <3> QED
      BY <1>6, <3>1, <3>2, <3>3
  <2>2. /\ Goes(s) /\ UNCHANGED loading /\ past'.met = past.met /\ (past.missed => past'.missed)
        /\ \A r \in Swappers \ {s} : NextOf(r)' = NextOf(r)
    BY <1>6, StepsGoOn
  <2>3. (Replacing(s) => Replacing(s)')
    BY <2>1, <2>2 DEF Goes, Replacing, PairsOf, SwapPairs, BootPairs
  <2>4. (\A r \in Swappers : ~Replacing(r)') => \A r \in Swappers : ~Replacing(r)
    BY <2>2, <2>3 DEF Replacing
  <2> QED
    BY <2>1, <2>2, <2>4, TableKeeps
<1>7. ASSUME NEW s \in Swappers, Applies(s) PROVE TableInv'
  <2>1. /\ NextOf(s) \in {"apply", "apply_qq"} /\ UNCHANGED <<kept, chan>>
        /\ NextOf(s) = "apply_qq" => cfg'.wechat = cfg.wechat
    BY <1>1, <1>7 DEF Applies
  <2>2. /\ Goes(s) /\ UNCHANGED loading /\ past'.met = past.met /\ (past.missed => past'.missed)
        /\ \A r \in Swappers \ {s} : NextOf(r)' = NextOf(r)
    BY <1>7, StepsGoOn
  <2>3. CASE NextOf(s) = "apply"
    <3>1. NextOf(s)' = "enabled"
      BY <2>2, <2>3 DEF Goes, PairsOf, SwapPairs, BootPairs
    <3>2. Replacing(s)'
      BY <3>1 DEF Replacing
    <3> QED
      BY <2>1, <2>2, <3>1, <3>2 DEF TableInv, Loading
  <2>4. CASE NextOf(s) = "apply_qq"
    <3>1. ~Replacing(s) /\ ~Replacing(s)'
      BY <2>2, <2>4 DEF Goes, Replacing, PairsOf, SwapPairs, BootPairs
    <3>2. \A r \in Swappers : Replacing(r)' <=> Replacing(r)
      BY <2>2, <3>1 DEF Replacing
    <3> QED
      BY <2>1, <2>2, <2>4, <3>2, TableKeeps DEF Alive
  <2> QED
    BY <2>1, <2>3, <2>4
<1>8. ASSUME NEW s \in Swappers, Keeps1(s) PROVE TableInv'
  <2>1. /\ NextOf(s) \in {"enabled", "bot", "enabled_qq"} /\ UNCHANGED <<cfg, chan>>
    BY <1>8 DEF Keeps1
  <2>2. /\ Goes(s) /\ UNCHANGED loading /\ past'.met = past.met /\ (past.missed => past'.missed)
        /\ \A r \in Swappers \ {s} : NextOf(r)' = NextOf(r)
    BY <1>8, StepsGoOn
  <2>3. Replacing(s)' <=> Replacing(s)
    BY <2>1, <2>2 DEF Goes, Replacing, PairsOf, SwapPairs, BootPairs
  <2>4. \A r \in Swappers : Replacing(r)' <=> Replacing(r)
    BY <2>2, <2>3 DEF Replacing
  <2>5. CASE past' = [past EXCEPT !.missed = TRUE]
    <3>1. past'.missed
      BY <1>1, <2>5 DEF PastRecord
    <3> QED
      BY <3>1 DEF TableInv
  <2>6. \/ past' = [past EXCEPT !.missed = TRUE]
        \/ /\ UNCHANGED past
           /\ kept' = CASE NextOf(s) = "enabled" -> [kept EXCEPT !.wechat.on = cfg.wechat.on]
                        [] NextOf(s) = "enabled_qq" -> [kept EXCEPT !.qq = cfg.qq]
                        [] NextOf(s) = "bot" /\ cfg.wechat.bot = None -> kept
                        [] OTHER -> [kept EXCEPT !.wechat.bot = cfg.wechat.bot]
    BY <1>8 DEF Keeps1
  <2>7. ~past.met => \A r \in Swappers : ~Loading(r)
    <3>1. Engaged(s) /\ ~Loading(s)
      BY <2>1 DEF NextOf, Engaged, AloneInv
    <3> QED
      BY <3>1 DEF AloneInv, Engaged
  <2>8. CASE UNCHANGED past /\ NextOf(s) = "enabled_qq" /\ kept' = [kept EXCEPT !.qq = cfg.qq]
    <3>1. kept'.wechat = kept.wechat
      BY <1>1, <2>8
    <3> QED
      BY <2>1, <2>2, <2>4, <2>8, <3>1, TableKeeps DEF Alive
  <2>9. CASE UNCHANGED past /\ NextOf(s) = "enabled" /\ kept' = [kept EXCEPT !.wechat.on = cfg.wechat.on]
    <3>1. kept'.wechat.on = cfg.wechat.on
      BY <1>1, <2>9
    <3> QED
      BY <2>1, <2>2, <2>4, <2>7, <2>9, <3>1 DEF TableInv, Alive, Loading
  <2>10. CASE /\ UNCHANGED past /\ NextOf(s) = "bot"
              /\ kept' = kept \/ kept' = [kept EXCEPT !.wechat.bot = cfg.wechat.bot]
    <3>1. kept'.wechat.on = kept.wechat.on
      BY <1>1, <2>10
    <3>2. \A r \in Swappers : NextOf(r) = "enabled" => NextOf(r)' = "enabled"
      BY <2>2, <2>10
    <3> QED
      BY <2>1, <2>2, <2>4, <2>7, <2>10, <3>1, <3>2 DEF TableInv, Alive, Loading
  <2>11. CASE NextOf(s) = "enabled"
    <3>1. \/ past' = [past EXCEPT !.missed = TRUE]
          \/ UNCHANGED past /\ kept' = [kept EXCEPT !.wechat.on = cfg.wechat.on]
      BY <2>6, <2>11
    <3> QED
      BY <2>5, <2>9, <2>11, <3>1, Zenon
  <2>12. CASE NextOf(s) = "enabled_qq"
    <3>1. \/ past' = [past EXCEPT !.missed = TRUE]
          \/ UNCHANGED past /\ kept' = [kept EXCEPT !.qq = cfg.qq]
      BY <2>6, <2>12
    <3> QED
      BY <2>5, <2>8, <2>12, <3>1, Zenon
  <2>13. CASE NextOf(s) = "bot"
    <3>1. \/ past' = [past EXCEPT !.missed = TRUE]
          \/ UNCHANGED past /\ (kept' = kept \/ kept' = [kept EXCEPT !.wechat.bot = cfg.wechat.bot])
      BY <2>6, <2>13
    <3> QED
      BY <2>5, <2>10, <2>13, <3>1, Zenon
  <2> QED
    BY <2>1, <2>11, <2>12, <2>13
<1>9. ASSUME NEW s \in Swappers, StartsWeChat(s) PROVE TableInv'
  <2>1. NextOf(s) = "start" /\ UNCHANGED <<cfg, kept>>
    BY <1>9 DEF StartsWeChat
  <2>2. /\ Goes(s) /\ UNCHANGED loading /\ past'.met = past.met /\ (past.missed => past'.missed)
        /\ \A r \in Swappers \ {s} : NextOf(r)' = NextOf(r)
    BY <1>9, StepsGoOn
  <2>3. \A i \in Pool : ~Alive(i)
    BY <1>1, <2>1 DEF LoopInv, Replacing
  <2>4. (\E i \in Pool : Alive(i)') => cfg.wechat.on
    <3>1. chan' = chan \/ cfg.wechat.on
      BY <1>9 DEF StartsWeChat
    <3> QED
      BY <2>3, <3>1 DEF Alive
  <2>5. \A r \in Swappers : NextOf(r) = "enabled" => NextOf(r)' = "enabled"
    BY <2>1, <2>2
  <2> QED
    BY <2>1, <2>2, <2>4, <2>5 DEF TableInv, Loading
<1>10. ASSUME NEW s \in Swappers, StartsQQ(s) PROVE TableInv'
  <2>1. NextOf(s) = "start_qq" /\ UNCHANGED <<cfg, kept, chan>>
    BY <1>10 DEF StartsQQ
  <2>2. /\ Goes(s) /\ UNCHANGED loading /\ past'.met = past.met /\ (past.missed => past'.missed)
        /\ \A r \in Swappers \ {s} : NextOf(r)' = NextOf(r)
    BY <1>10, StepsGoOn
  <2>3. \A r \in Swappers : Replacing(r) => Replacing(r)'
    BY <2>1, <2>2 DEF Replacing
  <2> QED
    BY <2>1, <2>2, <2>3, TableKeeps DEF Alive
<1>11. ASSUME UNCHANGED <<cfg, kept, plan, loading, past>>, \A i \in Pool : Alive(i)' => Alive(i)
       PROVE  TableInv'
  <2>1. \A r \in Swappers : NextOf(r)' = NextOf(r) /\ (Replacing(r)' <=> Replacing(r))
    BY <1>11 DEF NextOf, Working, Replacing
  <2> QED
    BY <1>11, <2>1, TableKeeps
<1>12. CASE UNCHANGED channelVars
  BY <1>11, <1>12 DEF channelVars, Alive
<1>13. ASSUME NEW i \in Pool, Polls(i) \/ Runs(i) \/ Replies(i) \/ LearnsItEnded(i) PROVE TableInv'
  <2>1. UNCHANGED <<cfg, kept, plan, loading, past>>
    BY <1>13, PollingKeeps
  <2>2. \A j \in Pool : Alive(j)' => Alive(j)
    BY <1>13, PollingKeeps
  <2> QED
    BY <1>11, <2>1, <2>2
<1>14. ASSUME NEW t \in Tokens, SessionEnds(t) PROVE TableInv'
  BY <1>11, <1>14 DEF SessionEnds, Alive
<1>15. ASSUME NEW s \in Swappers, NEW login \in Login, Confirm(s, login) PROVE TableInv'
  BY <1>2, <1>15 DEF Confirm
<1>16. ASSUME NEW s \in Swappers, NEW on \in BOOLEAN, NEW who, PutWeChat(s, on, who) PROVE TableInv'
  <2>1. (who # Configured) \in BOOLEAN
    OBVIOUS
  <2> QED
    BY <1>2, <1>16, <2>1 DEF PutWeChat
<1>17. ASSUME NEW s \in Swappers, NEW on \in BOOLEAN, PutQQ(s, on) PROVE TableInv'
  BY <1>2, <1>17 DEF PutQQ
<1> QED
  BY <1>3, <1>4, <1>5, <1>6, <1>7, <1>8, <1>9, <1>10, <1>12, <1>13, <1>14, <1>15, <1>16, <1>17
     DEF ChannelNext

THEOREM TableInvAlways == ChannelSpec => []TableInv
<1>1. ASSUME ChannelInit PROVE TableInv
  <2>1. kept.wechat.on = cfg.wechat.on
    BY <1>1 DEF ChannelInit
  <2>2. (\A s \in Swappers : ~Loading(s)) /\ \A i \in Pool : ~Alive(i)
    BY <1>1 DEF ChannelInit, Loading, Alive, NoChannel
  <2> QED
    BY <2>1, <2>2 DEF TableInv
<1> QED
  BY <1>1, TableGoesOn, ChannelInvAlways, AloneInvAlways, PTL DEF ChannelSpec

------------------------------------------------------------------------------
(* Channels: loops, and whether they are enabled *)

(* app.py and wechat_channel.py: no poll loop goes on that nobody can stop, whatever
   logins, changes, reloads and restarts meet; with requests one by one and no failed
   write, none goes on that the configuration says is disabled. *)
THEOREM NoStrayLoopHolds == ChannelSpec => []NoStrayLoop
<1>1. ChannelInv /\ TableInv => NoStrayLoop
  <2> SUFFICES ASSUME ChannelInv, TableInv, NEW i \in Pool, Alive(i)
               PROVE  /\ app.wechat = i
                      /\ latch = None => chan[i].token = cfg.wechat.token
                      /\ latch = None /\ ~past.met /\ ~past.missed => cfg.wechat.on
    BY DEF NoStrayLoop
  <2>1. app.wechat = i /\ \A s \in Swappers : ~Replacing(s)
    BY DEF ChannelInv, LoopInv
  <2> QED
    BY <2>1 DEF ChannelInv, LoopInv, TableInv
<1> QED
  BY <1>1, ChannelInvAlways, TableInvAlways, PTL

------------------------------------------------------------------------------
(* Channels: logins *)

LEMMA LoginStarts == ChannelInit => LoginInv
<1> SUFFICES ASSUME ChannelInit PROVE LoginInv
  OBVIOUS
<1>1. \A s \in Swappers : ~Working(s)
  BY DEF ChannelInit, Working
<1>2. SettledOn(past.login)
  BY DEF ChannelInit, SettledOn, FilesOf, BotOf, TokensOf
<1> QED
  BY <1>1, <1>2 DEF LoginInv

\* One step of the only request there is.
LEMMA LoginGoesOn ==
  ASSUME AloneInv, LoginInv, NEW s \in Swappers, NextOf(s) # "none", Goes(s), past'.met = past.met,
         ~past'.missed => ~past.missed,
         \A r \in Swappers \ {s} : plan'[r] = plan[r],
         ~past.met /\ ~past'.missed /\ LogsIn(s) /\ Working(s)' => LogsIn(s)',
         ~past.met /\ ~past'.missed /\ LogsIn(s) /\ ~Working(s)' /\ ~past'.named => SettledOn(past.login)'
  PROVE  LoginInv'
<1>1. Working(s)
  BY DEF NextOf
<1>2. \A r \in Swappers \ {s} : Working(r)' <=> Working(r)
  BY DEF Working
<1>3. CASE past.met
  BY <1>3 DEF LoginInv
<1>4. CASE ~past.met
  <2>1. \A r \in Swappers \ {s} : ~Working(r)'
    BY <1>1, <1>2, <1>4 DEF AloneInv, Engaged
  <2>2. ASSUME ~past'.missed PROVE LogsIn(s)
    BY <1>1, <1>4, <2>2 DEF LoginInv
  <2>3. CASE Working(s)'
    BY <1>4, <2>1, <2>2, <2>3 DEF LoginInv
  <2>4. CASE ~Working(s)'
    BY <1>4, <2>1, <2>2, <2>4 DEF LoginInv
  <2> QED
    BY <2>3, <2>4
<1> QED
  BY <1>3, <1>4

\* What a step keeps that leaves files and configurations alone.
LEMMA LogsInKeeps ==
  ASSUME NEW s \in Swappers, Goes(s), Working(s)', LogsIn(s), UNCHANGED <<files, past>>,
         kept'.wechat.bot = kept.wechat.bot, cfg'.wechat = cfg.wechat,
         NextOf(s) \in {"load", "start"} \/ NextOf(s)' \notin {"load", "start"},
         NextOf(s) \in {"enabled", "bot", "load", "start"}
           \/ NextOf(s)' \notin {"enabled", "bot", "load", "start"}
  PROVE  LogsIn(s)'
<1>1. /\ plan'[s].new = plan[s].new /\ plan'[s].login = plan[s].login
      /\ \A x : Has(plan'[s].todo, x) => Has(plan[s].todo, x)
  BY DEF Goes, Working
<1>2. CASE plan[s].login = None
  <2>1. ~past.named => SettledOn(past.login)'
    BY <1>2 DEF LogsIn, SettledOn, FilesOf
  <2> QED
    BY <1>1, <1>2, <2>1 DEF LogsIn
<1>3. CASE plan[s].login # None
  BY <1>1, <1>3 DEF LogsIn, FilesOf, BotOf
<1> QED
  BY <1>2, <1>3

LEMMA QuietStepsLog ==
  ASSUME ChannelInv, AloneInv, LoginInv, NEW s \in Swappers, TakesLock(s) \/ StopsWeChat(s) \/ StopsQQ(s)
  PROVE  LoginInv'
<1>1. /\ NextOf(s) \in {"lock", "stop", "stop_qq"} /\ Advance(s) /\ UNCHANGED <<cfg, kept, files, loading, past>>
      /\ \/ latch' = latch /\ NextOf(s) \notin {"lock", "start", "start_qq"}
         \/ latch = None /\ latch' = s /\ NextOf(s) = "lock"
  BY DEF TakesLock, StopsWeChat, StopsQQ
<1>2. /\ \A r \in Swappers \ {s} : plan'[r] = plan[r] /\ NextOf(r)' = NextOf(r)
      /\ Goes(s)
  BY <1>1, PlansGoOn
<1>3. Working(s)' /\ NextOf(s)' \notin {"enabled", "bot", "load", "start"}
  BY <1>1, <1>2 DEF Goes, PairsOf, SwapPairs, BootPairs
<1>4. LogsIn(s) => LogsIn(s)'
  BY <1>1, <1>2, <1>3, LogsInKeeps
<1> QED
  BY <1>1, <1>2, <1>3, <1>4, LoginGoesOn

LEMMA AppliesLogs ==
  ASSUME ChannelInv, AloneInv, LoginInv, NEW s \in Swappers, Applies(s)
  PROVE  LoginInv'
<1>1. /\ NextOf(s) \in {"apply", "apply_qq"} /\ Advance(s)
      /\ cfg' = IF NextOf(s) = "apply" THEN [cfg EXCEPT !.wechat = plan[s].new]
                ELSE [cfg EXCEPT !.qq = plan[s].new.on]
      /\ UNCHANGED <<kept, files, latch, loading, past>>
  BY DEF Applies
<1>2. /\ \A r \in Swappers \ {s} : plan'[r] = plan[r] /\ NextOf(r)' = NextOf(r)
      /\ Goes(s)
  BY <1>1, PlansGoOn
<1>3. ChannelTyped /\ Planned(s) /\ cfg \in [wechat : WeChatConfig, qq : BOOLEAN]
  BY DEF ChannelInv, ChannelTyped
<1>4. Has(plan[s].todo, NextOf(s))
  BY <1>1, <1>3, NextIsStep
<1>5. CASE NextOf(s) = "apply"
  <2>1. Working(s)' /\ NextOf(s)' = "enabled"
    BY <1>2, <1>5 DEF Goes, PairsOf, SwapPairs, BootPairs
  <2>2. cfg'.wechat = plan[s].new
    BY <1>1, <1>3, <1>5
  <2>3. /\ plan'[s].new = plan[s].new /\ plan'[s].login = plan[s].login
        /\ \A x : Has(plan'[s].todo, x) => Has(plan[s].todo, x)
    BY <1>2, <2>1 DEF Goes
  <2>4. ASSUME LogsIn(s) PROVE LogsIn(s)'
    <3>1. CASE plan[s].login = None
      <4>1. ~past.named => SettledOn(past.login)'
        BY <1>1, <1>4, <1>5, <2>2, <2>4, <3>1 DEF LogsIn, SettledOn, FilesOf
      <4> QED
        BY <1>1, <2>3, <2>4, <3>1, <4>1 DEF LogsIn
    <3>2. CASE plan[s].login # None
      <4>1. /\ FilesOf(plan[s].login) /\ plan[s].new.bot = plan[s].login.bot
            /\ plan[s].new.token = plan[s].login.token
        BY <1>4, <1>5, <2>4, <3>2 DEF LogsIn
      <4> QED
        BY <1>1, <2>1, <2>2, <2>3, <3>2, <4>1 DEF LogsIn, FilesOf, BotOf
    <3> QED
      BY <3>1, <3>2
  <2> QED
    BY <1>1, <1>2, <2>1, <2>4, LoginGoesOn
<1>6. CASE NextOf(s) = "apply_qq"
  <2>1. Working(s)' /\ NextOf(s)' = "enabled_qq"
    BY <1>2, <1>6 DEF Goes, PairsOf, SwapPairs, BootPairs
  <2>2. cfg'.wechat = cfg.wechat
    BY <1>1, <1>3, <1>6
  <2>3. LogsIn(s) => LogsIn(s)'
    BY <1>1, <1>2, <2>1, <2>2, LogsInKeeps
  <2> QED
    BY <1>1, <1>2, <2>1, <2>3, LoginGoesOn
<1> QED
  BY <1>1, <1>5, <1>6

LEMMA Keeps1Logs ==
  ASSUME ChannelInv, AloneInv, LoginInv, NEW s \in Swappers, Keeps1(s)
  PROVE  LoginInv'
<1>1. /\ NextOf(s) \in {"enabled", "bot", "enabled_qq"} /\ Advance(s) /\ UNCHANGED <<cfg, files, latch, loading>>
  BY DEF Keeps1
<1>2. /\ \A r \in Swappers \ {s} : plan'[r] = plan[r] /\ NextOf(r)' = NextOf(r)
      /\ Goes(s)
  BY <1>1, PlansGoOn
<1>3. ChannelTyped /\ None \notin Bots
      /\ kept \in [wechat : [on : BOOLEAN, bot : Bots \cup {None}], qq : BOOLEAN]
      /\ past \in PastRecord
  BY ChannelAssumption DEF ChannelInv, ChannelTyped, ChannelAssumption
<1>4. Working(s)' /\ <<NextOf(s), NextOf(s)'>> \in SwapPairs \cup BootPairs
  BY <1>1, <1>2 DEF Goes, PairsOf
<1>5. CASE past' = [past EXCEPT !.missed = TRUE]
  <2>1. past'.missed /\ past'.met = past.met
    BY <1>3, <1>5 DEF PastRecord
  <2> QED
    BY <1>1, <1>2, <1>4, <2>1, LoginGoesOn
<1>6. CASE UNCHANGED past /\ NextOf(s) \in {"enabled", "enabled_qq"}
           /\ (kept' = [kept EXCEPT !.wechat.on = cfg.wechat.on] \/ kept' = [kept EXCEPT !.qq = cfg.qq])
  <2>1. kept'.wechat.bot = kept.wechat.bot
    BY <1>3, <1>6
  <2>2. NextOf(s)' \in {"bot", "start_qq"} /\ (NextOf(s)' = "bot" => NextOf(s) = "enabled")
    BY <1>4, <1>6 DEF SwapPairs, BootPairs
  <2>3. LogsIn(s) => LogsIn(s)'
    BY <1>1, <1>2, <1>4, <1>6, <2>1, <2>2, LogsInKeeps
  <2> QED
    BY <1>1, <1>2, <1>4, <1>6, <2>3, LoginGoesOn
<1>7. CASE /\ UNCHANGED past /\ NextOf(s) = "bot"
           /\ kept' = IF cfg.wechat.bot = None THEN kept ELSE [kept EXCEPT !.wechat.bot = cfg.wechat.bot]
  <2>1. NextOf(s)' = "load"
    BY <1>4, <1>7 DEF SwapPairs, BootPairs
  <2>2. kept'.wechat.bot = IF cfg.wechat.bot = None THEN kept.wechat.bot ELSE cfg.wechat.bot
    BY <1>3, <1>7
  <2>3. /\ plan'[s].new = plan[s].new /\ plan'[s].login = plan[s].login
        /\ \A x : Has(plan'[s].todo, x) => Has(plan[s].todo, x)
    BY <1>2, <1>4 DEF Goes
  <2>4. ASSUME LogsIn(s) PROVE LogsIn(s)'
    <3>1. CASE plan[s].login = None
      <4>1. ~past.named => SettledOn(past.login)'
        BY <1>1, <1>7, <2>2, <2>4, <3>1 DEF LogsIn, SettledOn, FilesOf
      <4> QED
        BY <1>7, <2>3, <2>4, <3>1, <4>1 DEF LogsIn
    <3>2. CASE plan[s].login # None
      <4>1. /\ FilesOf(plan[s].login) /\ cfg.wechat.bot = plan[s].login.bot
            /\ cfg.wechat.token = plan[s].login.token
            /\ Has(plan[s].todo, "apply") =>
                 plan[s].new.bot = plan[s].login.bot /\ plan[s].new.token = plan[s].login.token
        BY <1>7, <2>4, <3>2 DEF LogsIn
      <4>2. plan[s].login \in Login
        BY <1>1, <1>3, <3>2, NextIsStep DEF PlanRecord, ChannelInv
      <4>3. kept'.wechat.bot = plan[s].login.bot
        BY <1>3, <2>2, <4>1, <4>2 DEF Login
      <4> QED
        BY <1>1, <2>1, <2>3, <3>2, <4>1, <4>3 DEF LogsIn, FilesOf, BotOf
    <3> QED
      BY <3>1, <3>2
  <2> QED
    BY <1>1, <1>2, <1>4, <1>7, <2>4, LoginGoesOn
<1>8. \/ /\ UNCHANGED past
         /\ kept' = CASE NextOf(s) = "enabled" -> [kept EXCEPT !.wechat.on = cfg.wechat.on]
                      [] NextOf(s) = "enabled_qq" -> [kept EXCEPT !.qq = cfg.qq]
                      [] NextOf(s) = "bot" /\ cfg.wechat.bot = None -> kept
                      [] OTHER -> [kept EXCEPT !.wechat.bot = cfg.wechat.bot]
      \/ past' = [past EXCEPT !.missed = TRUE]
  BY DEF Keeps1
<1>9. CASE NextOf(s) = "enabled"
  <2>1. (UNCHANGED past /\ kept' = [kept EXCEPT !.wechat.on = cfg.wechat.on]) \/ past' = [past EXCEPT !.missed = TRUE]
    BY <1>8, <1>9
  <2> QED
    BY <1>5, <1>6, <1>9, <2>1, Zenon
<1>10. CASE NextOf(s) = "enabled_qq"
  <2>1. (UNCHANGED past /\ kept' = [kept EXCEPT !.qq = cfg.qq]) \/ past' = [past EXCEPT !.missed = TRUE]
    BY <1>8, <1>10
  <2> QED
    BY <1>5, <1>6, <1>10, <2>1, Zenon
<1>11. CASE NextOf(s) = "bot"
  BY <1>5, <1>7, <1>8, <1>11
<1> QED
  BY <1>1, <1>9, <1>10, <1>11

LEMMA LoadsCredentialsLogs ==
  ASSUME ChannelInv, AloneInv, LoginInv, NEW s \in Swappers, LoadsCredentials(s)
  PROVE  LoginInv'
<1> DEFINE found == Credentials(cfg.wechat.bot)
<1>1. /\ NextOf(s) = "load" /\ Advance(s)
      /\ cfg' = IF cfg.wechat.on /\ cfg.wechat.token = None /\ found # None
                THEN [cfg EXCEPT !.wechat = [cfg.wechat EXCEPT !.bot = found.bot, !.token = found.token]]
                ELSE cfg
      /\ UNCHANGED <<kept, files, latch, loading, past>>
  BY DEF LoadsCredentials
<1>2. /\ \A r \in Swappers \ {s} : plan'[r] = plan[r] /\ NextOf(r)' = NextOf(r)
      /\ Goes(s)
  BY <1>1, PlansGoOn
<1>3. /\ ChannelTyped /\ Planned(s) /\ cfg \in [wechat : WeChatConfig, qq : BOOLEAN]
      /\ None \notin Bots /\ None \notin Tokens /\ past.login \in Login \cup {None}
  BY ChannelAssumption DEF ChannelInv, ChannelTyped, ChannelAssumption, PastRecord
<1>4. Working(s)' /\ NextOf(s)' = "start"
  BY <1>1, <1>2 DEF Goes, PairsOf, SwapPairs, BootPairs
<1>5. /\ plan'[s].new = plan[s].new /\ plan'[s].login = plan[s].login
      /\ \A x : Has(plan'[s].todo, x) => Has(plan[s].todo, x)
  BY <1>2, <1>4 DEF Goes
<1>6. plan[s].login \in Login \cup {None}
  BY <1>1, <1>3, NextIsStep DEF PlanRecord
<1>7. cfg.wechat.bot \in Bots \cup {None}
  BY <1>3 DEF WeChatConfig
<1>8. cfg.wechat.bot = None /\ files.newest = None => found = None
  BY <1>3, <1>7, CredentialsAreKnown
<1>9. ASSUME NEW b \in Bots, files.token[b] # None,
             b = (IF cfg.wechat.bot = None THEN files.newest ELSE cfg.wechat.bot)
      PROVE  found = [bot |-> b, token |-> files.token[b]]
  BY <1>3, <1>7, <1>9, CredentialsAreKnown
<1> HIDE DEF found
<1>10. ASSUME LogsIn(s) PROVE LogsIn(s)'
  <2>1. CASE plan[s].login = None /\ past.named
    BY <1>1, <1>5, <2>1 DEF LogsIn
  <2>2. CASE plan[s].login = None /\ ~past.named
    <3>1. /\ FilesOf(past.login) /\ kept.wechat.bot = BotOf(past.login)
          /\ cfg.wechat.bot = BotOf(past.login) /\ cfg.wechat.token \in TokensOf(past.login)
          /\ Has(plan[s].todo, "apply") =>
               plan[s].new.bot = BotOf(past.login) /\ plan[s].new.token \in TokensOf(past.login)
      BY <1>10, <2>2 DEF LogsIn, SettledOn
    <3>2. cfg'.wechat.bot = BotOf(past.login) /\ cfg'.wechat.token \in TokensOf(past.login)
      <4>1. CASE cfg' = cfg
        BY <3>1, <4>1
      <4>2. CASE cfg' # cfg
        <5>1. /\ found # None
              /\ cfg' = [cfg EXCEPT !.wechat = [cfg.wechat EXCEPT !.bot = found.bot, !.token = found.token]]
          BY <1>1, <4>2
        <5>2. past.login # None
          BY <1>8, <3>1, <5>1 DEF FilesOf, BotOf
        <5>3. /\ past.login.bot \in Bots /\ past.login.token \in Tokens
              /\ cfg.wechat.bot = past.login.bot /\ files.token[past.login.bot] = past.login.token
          BY <1>3, <3>1, <5>2 DEF Login, BotOf, FilesOf
        <5>4. found = [bot |-> past.login.bot, token |-> past.login.token]
          BY <1>3, <1>9, <5>3
        <5>5. cfg'.wechat.bot = past.login.bot /\ cfg'.wechat.token = past.login.token
          BY <1>3, <5>1, <5>4 DEF WeChatConfig
        <5> QED
          BY <5>2, <5>5 DEF BotOf, TokensOf
      <4> QED
        BY <4>1, <4>2
    <3>3. SettledOn(past.login)'
      BY <1>1, <3>1, <3>2 DEF SettledOn, FilesOf
    <3> QED
      BY <1>1, <1>5, <2>2, <3>1, <3>3 DEF LogsIn
  <2>3. CASE plan[s].login # None
    <3>1. /\ FilesOf(plan[s].login)
          /\ Has(plan[s].todo, "apply") =>
               plan[s].new.bot = plan[s].login.bot /\ plan[s].new.token = plan[s].login.token
          /\ cfg.wechat.bot = plan[s].login.bot /\ cfg.wechat.token = plan[s].login.token
          /\ kept.wechat.bot = plan[s].login.bot
      BY <1>1, <1>10, <2>3 DEF LogsIn
    <3>2. cfg' = cfg
      BY <1>1, <1>3, <1>6, <2>3, <3>1 DEF Login
    <3> QED
      BY <1>1, <1>4, <1>5, <2>3, <3>1, <3>2 DEF LogsIn, FilesOf, BotOf
  <2> QED
    BY <2>1, <2>2, <2>3
<1> QED
  BY <1>1, <1>2, <1>4, <1>10, LoginGoesOn

\* The end of a swap is the end of its login.
LEMMA EndsSwapLogs ==
  ASSUME ChannelInv, AloneInv, LoginInv, NEW s \in Swappers, NEW i, NextOf(s) \in {"start", "start_qq"},
         EndsSwap(s, i), UNCHANGED <<cfg, kept, files>>
  PROVE  LoginInv'
<1>1. /\ Advance(s) /\ latch' = (IF latch = s THEN None ELSE latch)
      /\ past' = IF plan[s].login = None THEN past
                 ELSE [past EXCEPT !.login = plan[s].login, !.named = FALSE]
  BY DEF EndsSwap
<1>2. /\ \A r \in Swappers \ {s} : plan'[r] = plan[r] /\ NextOf(r)' = NextOf(r)
      /\ Goes(s)
  BY <1>1, PlansGoOn
<1>3. /\ ChannelTyped /\ Planned(s) /\ Working(s)
      /\ past \in PastRecord
      /\ plan[s].boot \in BOOLEAN
  BY NextIsStep DEF ChannelInv, ChannelTyped, PlanRecord
<1>4. past'.met = past.met /\ past'.missed = past.missed
  BY <1>1, <1>3 DEF PastRecord
<1>5. ASSUME LogsIn(s), Working(s)' PROVE LogsIn(s)'
  <2>1. /\ plan'[s].new = plan[s].new /\ plan'[s].login = plan[s].login
        /\ <<NextOf(s), NextOf(s)'>> \in PairsOf(plan[s].boot)
        /\ \A x : Has(plan'[s].todo, x) => Has(plan[s].todo, x)
    BY <1>2, <1>5 DEF Goes
  <2>2. plan[s].boot
    BY <1>3, <2>1 DEF PairsOf, SwapPairs
  <2>3. plan[s].login = None
    BY <1>3, <2>2 DEF Planned
  <2>4. past' = past
    BY <1>1, <2>3
  <2>5. ~past.named => SettledOn(past.login)'
    BY <1>5, <2>3, <2>4 DEF LogsIn, SettledOn, FilesOf
  <2> QED
    BY <1>5, <2>1, <2>3, <2>4, <2>5 DEF LogsIn
<1>6. ASSUME LogsIn(s), ~Working(s)', ~past'.named PROVE SettledOn(past.login)'
  <2>1. CASE plan[s].login = None
    BY <1>1, <1>6, <2>1 DEF LogsIn, SettledOn, FilesOf
  <2>2. CASE plan[s].login # None
    <3>1. NextOf(s) = "start"
      BY <1>2, <1>3, <1>6, <2>2 DEF Goes, Planned
    <3>2. /\ FilesOf(plan[s].login) /\ kept.wechat.bot = plan[s].login.bot
          /\ cfg.wechat.bot = plan[s].login.bot /\ cfg.wechat.token = plan[s].login.token
      BY <1>6, <2>2, <3>1 DEF LogsIn
    <3>3. past'.login = plan[s].login
      BY <1>1, <1>3, <2>2 DEF PastRecord
    <3>4. SettledOn(plan[s].login)
      BY <2>2, <3>2 DEF SettledOn, BotOf, TokensOf
    <3> QED
      BY <3>3, <3>4 DEF SettledOn, FilesOf
  <2> QED
    BY <2>1, <2>2
<1>7. NextOf(s) # "none"
  OBVIOUS
<1> QED
  BY <1>2, <1>4, <1>5, <1>6, <1>7, LoginGoesOn

LEMMA StartsLog ==
  ASSUME ChannelInv, AloneInv, LoginInv, NEW s \in Swappers, StartsWeChat(s) \/ StartsQQ(s)
  PROVE  LoginInv'
<1>1. CASE StartsWeChat(s)
  <2>1. NextOf(s) = "start" /\ UNCHANGED <<cfg, kept, files>> /\ \E i : EndsSwap(s, i)
    BY <1>1, Zenon DEF StartsWeChat
  <2> QED
    BY <2>1, EndsSwapLogs
<1>2. CASE StartsQQ(s)
  <2>1. NextOf(s) = "start_qq" /\ UNCHANGED <<cfg, kept, files>> /\ EndsSwap(s, wired)
    BY <1>2 DEF StartsQQ
  <2> QED
    BY <2>1, EndsSwapLogs
<1> QED
  BY <1>1, <1>2

\* A request that arrives alone starts from what the last login left.
LEMMA RequestedLogs ==
  ASSUME ChannelInv, LoginInv, NEW s \in Swappers, NEW prog, NEW new, NEW login, NEW named \in BOOLEAN,
         Requested(s, prog, new, login, named), Working(s)',
         \A r \in Swappers \ {s} : plan'[r] = plan[r] /\ (Working(r)' <=> Working(r)),
         (~past'.named => ~named /\ SettledOn(past.login)) /\ past'.login = past.login => LogsIn(s)'
  PROVE  LoginInv'
<1>1. /\ past'.login = past.login /\ past'.missed = past.missed
      /\ past'.named <=> (past.named \/ named)
      /\ past'.met <=> (past.met \/ \E r \in Swappers : Engaged(r))
  BY ArrivalIsHistory DEF Requested, ChannelInv
<1>2. CASE past'.met
  BY <1>2 DEF LoginInv
<1>3. CASE ~past'.met
  <2>1. ~past.met /\ \A r \in Swappers : ~Working(r)
    BY <1>1, <1>3 DEF Engaged
  <2>2. ~past.missed /\ ~past.named => SettledOn(past.login)
    BY <2>1 DEF LoginInv
  <2>3. \A r \in Swappers \ {s} : ~Working(r)'
    BY <2>1
  <2>4. ~past'.missed => LogsIn(s)'
    BY <1>1, <2>2
  <2> QED
    BY <2>3, <2>4 DEF LoginInv
<1> QED
  BY <1>2, <1>3

LEMMA ConfirmLogs ==
  ASSUME ChannelInv, AloneInv, LoginInv, NEW s \in Swappers, NEW login \in Login, Confirm(s, login)
  PROVE  LoginInv'
<1> DEFINE new == [on |-> TRUE, bot |-> login.bot, token |-> login.token]
           named == FALSE
<1>1. new \in WeChatConfig /\ new.bot = login.bot /\ new.token = login.token
  BY DEF Login, WeChatConfig
<1>2. /\ files' \in [token : [Bots -> Tokens \cup {None}], newest : Bots \cup {None}]
      /\ files'.newest = login.bot /\ files'.token[login.bot] = login.token
  BY DEF Confirm, FilesWith, ChannelInv, ChannelTyped, Login
<1>3. SwapWeChat # SwapQQ /\ login # None
  <2>1. SwapWeChat # SwapQQ
    BY DEF SwapWeChat, SwapQQ
  <2>2. None \notin Login
    BY ChannelAssumption DEF ChannelAssumption
  <2> QED
    BY <2>1, <2>2
<1>4. Requested(s, SwapWeChat, new, login, named) /\ named \in BOOLEAN
  BY DEF Confirm
<1> HIDE DEF new, named
<1>5. /\ plan'[s] = [todo |-> SwapWeChat, new |-> new, login |-> login, boot |-> FALSE]
      /\ NextOf(s)' = "lock" /\ Working(s)'
      /\ \A r \in Swappers \ {s} : plan'[r] = plan[r] /\ (Working(r)' <=> Working(r))
  <2>1. /\ new \in WeChatConfig \cup [on : BOOLEAN]
        /\ login \in Login \cup {None} /\ SwapWeChat \in {SwapWeChat, SwapQQ}
    BY <1>1
  <2> QED
    BY <1>1, <1>2, <1>3, <1>4, <2>1, RequestedKeeps
<1>6. plan'[s].new = new /\ plan'[s].login = login
  BY <1>5
<1>7. LogsIn(s)'
  BY <1>1, <1>2, <1>3, <1>5, <1>6 DEF LogsIn, FilesOf, BotOf
<1> QED
  BY <1>4, <1>5, <1>7, RequestedLogs

LEMMA PutWeChatLogs ==
  ASSUME ChannelInv, AloneInv, LoginInv, NEW s \in Swappers, NEW on \in BOOLEAN,
         NEW who \in PutBodies \cup {Configured}, PutWeChat(s, on, who)
  PROVE  LoginInv'
<1> DEFINE new == [on |-> on, bot |-> who.bot, token |-> who.token]
           named == who # Configured
<1>1. new \in WeChatConfig /\ new.bot = who.bot /\ new.token = who.token
  <2>1. who \in Identity
    BY ChannelAssumption DEF ChannelAssumption, Identity, Configured, ChannelInv, ChannelTyped, WeChatConfig
  <2> QED
    BY <2>1 DEF WeChatConfig, Identity
<1>2. files' \in [token : [Bots -> Tokens \cup {None}], newest : Bots \cup {None}]
  BY DEF PutWeChat, ChannelInv, ChannelTyped
<1>3. SwapWeChat # SwapQQ
  BY DEF SwapWeChat, SwapQQ
<1>4. Requested(s, SwapWeChat, new, None, named) /\ UNCHANGED files /\ named \in BOOLEAN
  BY DEF PutWeChat
<1>5. ~named => who.bot = cfg.wechat.bot /\ who.token = cfg.wechat.token
  BY DEF Configured
<1> HIDE DEF new, named
<1>6. /\ plan'[s] = [todo |-> SwapWeChat, new |-> new, login |-> None, boot |-> FALSE]
      /\ NextOf(s)' = "lock" /\ Working(s)'
      /\ \A r \in Swappers \ {s} : plan'[r] = plan[r] /\ (Working(r)' <=> Working(r))
  <2>1. /\ new \in WeChatConfig \cup [on : BOOLEAN]
        /\ None \in Login \cup {None} /\ SwapWeChat \in {SwapWeChat, SwapQQ}
    BY <1>1
  <2> QED
    BY <1>1, <1>2, <1>3, <1>4, <2>1, RequestedKeeps
<1>7. plan'[s].new = new /\ plan'[s].login = None
  BY <1>6
<1>8. UNCHANGED <<cfg, kept, files>>
  BY <1>4 DEF Requested
<1>9. ASSUME ~past'.named => ~named /\ SettledOn(past.login), past'.login = past.login PROVE LogsIn(s)'
  <2>1. ~past'.named => SettledOn(past.login)'
    BY <1>8, <1>9 DEF SettledOn, FilesOf
  <2>2. ~past'.named => new.bot = BotOf(past.login) /\ new.token \in TokensOf(past.login)
    BY <1>1, <1>5, <1>9 DEF SettledOn
  <2> QED
    BY <1>7, <1>9, <2>1, <2>2 DEF LogsIn
<1> QED
  BY <1>4, <1>6, <1>9, RequestedLogs

LEMMA PutQQLogs ==
  ASSUME ChannelInv, AloneInv, LoginInv, NEW s \in Swappers, NEW on \in BOOLEAN, PutQQ(s, on)
  PROVE  LoginInv'
<1> DEFINE new == [on |-> on]
           named == FALSE
<1>1. new \in [on : BOOLEAN]
  OBVIOUS
<1>2. files' \in [token : [Bots -> Tokens \cup {None}], newest : Bots \cup {None}]
  BY DEF PutQQ, ChannelInv, ChannelTyped
<1>3. SwapWeChat # SwapQQ
  BY DEF SwapWeChat, SwapQQ
<1>4. Requested(s, SwapQQ, new, None, named) /\ named \in BOOLEAN /\ UNCHANGED files
  BY DEF PutQQ
<1> HIDE DEF new, named
<1>5. /\ plan'[s] = [todo |-> SwapQQ, new |-> new, login |-> None, boot |-> FALSE]
      /\ NextOf(s)' = "lock" /\ Working(s)'
      /\ \A r \in Swappers \ {s} : plan'[r] = plan[r] /\ (Working(r)' <=> Working(r))
  <2>1. /\ new \in WeChatConfig \cup [on : BOOLEAN]
        /\ None \in Login \cup {None} /\ SwapQQ \in {SwapWeChat, SwapQQ}
    BY <1>1
  <2> QED
    BY <1>1, <1>2, <1>3, <1>4, <2>1, RequestedKeeps
<1>6. plan'[s].todo = SwapQQ /\ plan'[s].login = None
  BY <1>5
<1>7. UNCHANGED <<cfg, kept, files>>
  BY <1>4 DEF Requested
<1>8. ASSUME ~past'.named => SettledOn(past.login), past'.login = past.login PROVE LogsIn(s)'
  <2>1. ~past'.named => SettledOn(past.login)'
    BY <1>7, <1>8 DEF SettledOn, FilesOf
  <2> QED
    BY <1>6, <2>1, SwapsHave DEF LogsIn
<1> QED
  BY <1>4, <1>5, <1>8, RequestedLogs

LEMMA ChannelsRestartLogs ==
  ASSUME ChannelInv, AloneInv, LoginInv, NEW s \in Swappers, ChannelsRestart(s)
  PROVE  LoginInv'
<1>1. /\ cfg'.wechat = [on |-> kept.wechat.on, bot |-> kept.wechat.bot, token |-> None]
      /\ UNCHANGED <<kept, files>>
  BY DEF ChannelsRestart
<1>2. /\ plan'[s] = [todo |-> Boot, new |-> None, login |-> None, boot |-> TRUE] /\ Working(s)'
      /\ NextOf(s)' = "load" /\ \A r \in Swappers \ {s} : ~Working(r)'
  BY ChannelsRestartKeeps
<1>3. past \in PastRecord
  BY DEF ChannelInv, ChannelTyped
<1>4. PICK b \in BOOLEAN : b = (past.missed \/ \E r \in Swappers : Engaged(r))
  OBVIOUS
<1>5. past' = [past EXCEPT !.count = past.count + 1, !.missed = b]
  BY <1>4 DEF ChannelsRestart
<1>6. past'.met = past.met /\ past'.missed = b /\ past'.login = past.login /\ past'.named = past.named
  BY <1>3, <1>5 DEF PastRecord
<1>7. plan'[s].todo = Boot /\ plan'[s].login = None
  BY <1>2
<1>8. ASSUME ~past.met, ~b PROVE LogsIn(s)'
  <2>1. ~past.named => SettledOn(past.login)
    BY <1>4, <1>8 DEF LoginInv, Engaged
  <2>2. cfg'.wechat.bot = kept.wechat.bot /\ cfg'.wechat.token = None
    BY <1>1
  <2>3. ~past.named => SettledOn(past.login)'
    BY <1>1, <1>6, <2>1, <2>2 DEF SettledOn, FilesOf, TokensOf
  <2> QED
    BY <1>6, <1>7, <2>3, SwapsHave DEF LogsIn
<1> QED
  BY <1>2, <1>6, <1>8 DEF LoginInv

\* What leaves requests, files and configurations alone.
LEMMA OthersLog ==
  ASSUME LoginInv, UNCHANGED <<cfg, kept, files, plan, past>>
  PROVE  LoginInv'
<1>1. \A s \in Swappers : (LogsIn(s)' <=> LogsIn(s)) /\ (Working(s)' <=> Working(s))
  BY DEF LogsIn, SettledOn, FilesOf, Working, NextOf
<1>2. SettledOn(past.login)' <=> SettledOn(past.login)
  BY DEF SettledOn, FilesOf
<1> QED
  BY <1>1, <1>2 DEF LoginInv

\* A reload that runs alone lays what the last login left over itself.
LEMMA OverlaysLogs ==
  ASSUME ChannelInv, AloneInv, TableInv, LoginInv, NEW s \in Swappers, Overlays(s)
  PROVE  LoginInv'
<1>1. Loading(s) /\ UNCHANGED <<kept, files, plan, past>>
  BY DEF Overlays
<1>2. /\ cfg'.wechat.token = cfg.wechat.token
      /\ cfg'.wechat.bot = IF loading[s].bot = None THEN cfg.wechat.bot ELSE loading[s].bot
  BY OverlaysKeeps
<1>3. ~past.met => \A r \in Swappers : ~Working(r)
  BY <1>1 DEF AloneInv, Engaged
<1>4. ~past.met /\ ~past.missed => loading[s].bot = kept.wechat.bot
  BY <1>1 DEF TableInv
<1>5. SettledOn(past.login) /\ loading[s].bot = kept.wechat.bot => SettledOn(past.login)'
  BY <1>1, <1>2 DEF SettledOn, FilesOf
<1>6. \A r \in Swappers : Working(r)' <=> Working(r)
  BY <1>1 DEF Working
<1> QED
  BY <1>1, <1>3, <1>4, <1>5, <1>6 DEF LoginInv

LEMMA ReloadsLogs ==
  ASSUME ChannelInv, LoginInv, NEW s \in Swappers, Reloads(s)
  PROVE  LoginInv'
<1>1. /\ UNCHANGED <<cfg, kept, files, plan>> /\ past'.login = past.login /\ past'.missed = past.missed
      /\ past'.named <=> past.named
      /\ past.met => past'.met
  BY ArrivalIsHistory DEF Reloads, ChannelInv
<1>2. past'.named = past.named
  BY <1>1, ArrivalIsHistory DEF Reloads, Comes, ChannelInv, ChannelTyped, PastRecord
<1>3. \A r \in Swappers : (LogsIn(r)' <=> LogsIn(r)) /\ (Working(r)' <=> Working(r))
  BY <1>1, <1>2 DEF LogsIn, SettledOn, FilesOf, Working, NextOf
<1>4. SettledOn(past.login)' <=> SettledOn(past.login)
  BY <1>1 DEF SettledOn, FilesOf
<1> QED
  BY <1>1, <1>2, <1>3, <1>4 DEF LoginInv

(* A request that met no other, and of which nothing failed, leaves the files, the table
   and the configuration in memory with one login, the last. *)
THEOREM LoginInvAlways == ChannelSpec => []LoginInv
<1>1. ChannelInit => LoginInv
  BY LoginStarts
<1>2. ChannelInv /\ LoginInv /\ UNCHANGED channelVars => LoginInv'
  BY OthersLog DEF channelVars
<1>3. ChannelInv /\ AloneInv /\ TableInv /\ LoginInv /\ ChannelNext => LoginInv'
  <2>1. ASSUME ChannelInv, AloneInv, LoginInv, NEW i \in Pool, Polls(i) \/ Runs(i) \/ Replies(i) \/ LearnsItEnded(i)
        PROVE  LoginInv'
    BY <2>1, PollingKeeps, OthersLog
  <2>2. ASSUME ChannelInv, AloneInv, LoginInv, NEW t \in Tokens, SessionEnds(t)
        PROVE  LoginInv'
    BY <2>2, SessionEndsKeeps, OthersLog
  <2> QED
    BY <2>1, <2>2, ConfirmLogs, PutWeChatLogs, PutQQLogs, ReloadsLogs, OverlaysLogs, QuietStepsLog, AppliesLogs, Keeps1Logs,
       LoadsCredentialsLogs, StartsLog, ChannelsRestartLogs DEF ChannelNext
<1> QED
  BY <1>1, <1>2, <1>3, ChannelInvAlways, AloneInvAlways, TableInvAlways, PTL DEF ChannelSpec

(* wechat_qrcode.py and app.py: with requests one by one, no failed write and no PUT that
   has named another bot or token since, the bot and the token in use are those of the last
   login, also after any reload and restart. *)
THEOREM LoginStandsHolds == ChannelSpec => []LoginStands
<1>1. ChannelInv /\ LoginInv => LoginStands
  <2> SUFFICES ASSUME ChannelInv, LoginInv, ~past.met, ~past.missed, ~past.named, past.login # None,
                      \A s \in Swappers : ~Working(s)
               PROVE  /\ cfg.wechat.bot = past.login.bot
                      /\ cfg.wechat.token \in {past.login.token, None}
                      /\ \A i \in Pool : Alive(i) => chan[i].token = past.login.token
    BY DEF LoginStands
  <2>1. cfg.wechat.bot = past.login.bot /\ cfg.wechat.token \in {past.login.token, None}
    BY DEF LoginInv, SettledOn, BotOf, TokensOf
  <2>2. ASSUME NEW i \in Pool, Alive(i) PROVE chan[i].token = past.login.token
    <3>1. \A s \in Swappers : ~Replacing(s)
      BY DEF Replacing, NextOf
    <3>2. chan[i].token = cfg.wechat.token
      BY <2>2, <3>1 DEF ChannelInv, LoopInv
    <3>3. chan[i].token \in Tokens
      BY <2>2 DEF ChannelInv, ChannelTyped, ChannelState, Alive, NoChannel
    <3>4. None \notin Tokens
      BY ChannelAssumption DEF ChannelAssumption
    <3> QED
      BY <2>1, <3>2, <3>3, <3>4
  <2> QED
    BY <2>1, <2>2
<1> QED
  BY <1>1, ChannelInvAlways, LoginInvAlways, PTL

------------------------------------------------------------------------------
(* The choice of a model: programs *)

ModelSteps == {"check", "endpoint", "swap", "provider", "model", "base", "unlock", "list", "clear",
               "flag", "key", "write", "enlist", "erase", "delist", "unkey", "started"}
InSwap == {"provider", "model", "base", "unlock"}
ModelPairs ==
  {<<"check", "swap">>, <<"endpoint", "swap">>, <<"swap", "provider">>, <<"provider", "model">>,
   <<"model", "base">>, <<"base", "unlock">>, <<"unlock", "list">>, <<"list", "clear">>,
   <<"list", "enlist">>, <<"list", "delist">>, <<"clear", "flag">>, <<"flag", "key">>,
   <<"key", "write">>, <<"key", "started">>, <<"write", "list">>, <<"write", "check">>,
   <<"enlist", "check">>, <<"erase", "list">>, <<"delist", "unkey">>}
ModelEnds == {"unlock", "key", "write", "enlist", "delist", "unkey", "started"}

\* What makes a preset and what removes one comes after nothing else.
Removing == {"erase", "list", "delist"}
MayPrecede(x, y) ==
  /\ y = "enlist" => x \in {"write", "list"}
  /\ y \in {"erase", "delist", "unkey"} => x \in Removing
  /\ x = "delist" => y = "unkey"
  /\ x = "enlist" => y # "write"
Ordered(prog) == \A j, k \in DOMAIN prog : j < k => MayPrecede(prog[j], prog[k])

\* The next flag is written with what was read before.
Flags(prog) == \E k \in DOMAIN prog : prog[k] = "flag" /\ \A j \in 1..(k - 1) : prog[j] # "check"

\* A part of a program, and a whole one.
Linked(prog) == Chained(prog, ModelSteps, ModelPairs, ModelSteps)
Program(prog) == Chained(prog, ModelSteps, ModelPairs, ModelEnds) /\ Ordered(prog) /\ ~Flags(prog)

LEMMA LinkedConcat ==
  ASSUME NEW p, NEW q, Linked(p), Linked(q), <<p[Len(p)], q[1]>> \in ModelPairs
  PROVE  /\ Linked(p \o q) /\ (p \o q)[1] = p[1] /\ (p \o q)[Len(p \o q)] = q[Len(q)]
         /\ \A x : Has(p \o q, x) <=> Has(p, x) \/ Has(q, x)
<1>1. /\ p \in Seq(ModelSteps) /\ p # <<>> /\ q \in Seq(ModelSteps) /\ q # <<>> /\ q[Len(q)] \in ModelSteps
      /\ \A k \in 1..(Len(p) - 1) : <<p[k], p[k + 1]>> \in ModelPairs
      /\ \A k \in 1..(Len(q) - 1) : <<q[k], q[k + 1]>> \in ModelPairs
  BY DEF Linked, Chained
<1> DEFINE r == p \o q
<1>2. /\ r \in Seq(ModelSteps) /\ Len(r) = Len(p) + Len(q)
      /\ \A i \in 1..(Len(p) + Len(q)) : r[i] = IF i <= Len(p) THEN p[i] ELSE q[i - Len(p)]
  BY <1>1, ConcatProperties
<1>3. Len(p) \in Nat \ {0} /\ Len(q) \in Nat \ {0} /\ DOMAIN p = 1..Len(p) /\ DOMAIN q = 1..Len(q)
      /\ DOMAIN r = 1..(Len(p) + Len(q))
  <2>1. Len(p) # 0 /\ Len(q) # 0
    BY <1>1, EmptySeq
  <2> QED
    BY <1>1, <1>2, <2>1
<1> HIDE DEF r
<1>4. ASSUME NEW k \in 1..(Len(r) - 1) PROVE <<r[k], r[k + 1]>> \in ModelPairs
  <2>1. CASE k < Len(p)
    <3>1. k \in 1..(Len(p) - 1) /\ r[k] = p[k] /\ r[k + 1] = p[k + 1]
      BY <1>2, <1>3, <2>1
    <3> QED
      BY <1>1, <3>1
  <2>2. CASE k = Len(p)
    <3>1. r[k] = p[Len(p)] /\ r[k + 1] = q[1]
      <4>1. k + 1 \in 1..(Len(p) + Len(q)) /\ ~(k + 1 <= Len(p)) /\ (k + 1) - Len(p) = 1
        BY <1>3, <2>2
      <4> QED
        BY <1>2, <1>3, <2>2, <4>1
    <3> QED
      BY <3>1
  <2>3. CASE k > Len(p)
    <3>1. /\ k - Len(p) \in 1..(Len(q) - 1) /\ r[k] = q[k - Len(p)]
          /\ r[k + 1] = q[(k - Len(p)) + 1]
      BY <1>2, <1>3, <2>3
    <3> QED
      BY <1>1, <3>1
  <2>4. k \in Nat /\ Len(p) \in Nat
    BY <1>2, <1>3
  <2>5. k < Len(p) \/ k = Len(p) \/ k > Len(p)
    BY <2>4
  <2> QED
    BY <2>1, <2>2, <2>3, <2>5
<1>5. r[Len(r)] = q[Len(q)] /\ r[1] = p[1] /\ r # <<>>
  <2>1. Len(<<>>) = 0
    BY EmptySeq
  <2> QED
    BY <1>2, <1>3, <2>1
<1>6. ASSUME NEW x PROVE Has(r, x) <=> Has(p, x) \/ Has(q, x)
  <2>1. ASSUME Has(r, x) PROVE Has(p, x) \/ Has(q, x)
    <3>1. PICK k \in 1..(Len(p) + Len(q)) : r[k] = x
      BY <1>3, <2>1 DEF Has
    <3>2. CASE k <= Len(p)
      BY <1>2, <1>3, <3>1, <3>2 DEF Has
    <3>3. CASE k > Len(p)
      <4>1. k - Len(p) \in DOMAIN q /\ q[k - Len(p)] = x
        BY <1>2, <1>3, <3>1, <3>3
      <4> QED
        BY <4>1 DEF Has
    <3> QED
      BY <1>3, <3>2, <3>3
  <2>2. ASSUME Has(p, x) PROVE Has(r, x)
    BY <1>2, <1>3, <2>2 DEF Has
  <2>3. ASSUME Has(q, x) PROVE Has(r, x)
    <3>1. PICK k \in 1..Len(q) : q[k] = x
      BY <1>3, <2>3 DEF Has
    <3>2. k + Len(p) \in DOMAIN r /\ r[k + Len(p)] = x
      BY <1>2, <1>3, <3>1
    <3> QED
      BY <3>2 DEF Has
  <2> QED
    BY <2>1, <2>2, <2>3
<1>7. Linked(r)
  BY <1>1, <1>2, <1>4, <1>5 DEF Linked, Chained
<1> QED
  BY <1>5, <1>6, <1>7 DEF r

LEMMA OrderedConcat ==
  ASSUME NEW steps, NEW p \in Seq(steps), NEW q \in Seq(steps), Ordered(p), Ordered(q),
         \A x, y : Has(p, x) /\ Has(q, y) => MayPrecede(x, y)
  PROVE  Ordered(p \o q)
<1> DEFINE r == p \o q
<1>1. /\ Len(r) = Len(p) + Len(q) /\ Len(p) \in Nat /\ Len(q) \in Nat
      /\ DOMAIN r = 1..(Len(p) + Len(q)) /\ DOMAIN p = 1..Len(p) /\ DOMAIN q = 1..Len(q)
      /\ \A i \in 1..(Len(p) + Len(q)) : r[i] = IF i <= Len(p) THEN p[i] ELSE q[i - Len(p)]
  BY ConcatProperties
<1> HIDE DEF r
<1> SUFFICES ASSUME NEW j \in DOMAIN r, NEW k \in DOMAIN r, j < k PROVE MayPrecede(r[j], r[k])
  BY DEF Ordered, r
<1>2. CASE k <= Len(p)
  BY <1>1, <1>2 DEF Ordered
<1>3. CASE j > Len(p)
  <2>1. /\ j - Len(p) \in DOMAIN q /\ k - Len(p) \in DOMAIN q /\ j - Len(p) < k - Len(p)
        /\ r[j] = q[j - Len(p)] /\ r[k] = q[k - Len(p)]
    BY <1>1, <1>3
  <2> QED
    BY <2>1 DEF Ordered
<1>4. CASE j <= Len(p) /\ k > Len(p)
  <2>1. j \in DOMAIN p /\ k - Len(p) \in DOMAIN q /\ r[j] = p[j] /\ r[k] = q[k - Len(p)]
    BY <1>1, <1>4
  <2>2. Has(p, r[j]) /\ Has(q, r[k])
    BY <2>1 DEF Has
  <2> QED
    BY <2>2
<1> QED
  BY <1>1, <1>2, <1>3, <1>4

LEMMA FlagsConcat ==
  ASSUME NEW steps, NEW p \in Seq(steps), NEW q \in Seq(steps), ~Flags(p), ~Flags(q)
  PROVE  ~Flags(p \o q)
<1> DEFINE r == p \o q
<1>1. /\ Len(r) = Len(p) + Len(q) /\ Len(p) \in Nat /\ Len(q) \in Nat
      /\ DOMAIN r = 1..(Len(p) + Len(q)) /\ DOMAIN p = 1..Len(p) /\ DOMAIN q = 1..Len(q)
      /\ \A i \in 1..(Len(p) + Len(q)) : r[i] = IF i <= Len(p) THEN p[i] ELSE q[i - Len(p)]
  BY ConcatProperties
<1> HIDE DEF r
<1> SUFFICES ASSUME NEW k \in DOMAIN r, r[k] = "flag", \A j \in 1..(k - 1) : r[j] # "check"
             PROVE  FALSE
  BY DEF Flags, r
<1>2. CASE k <= Len(p)
  <2>1. k \in DOMAIN p /\ p[k] = "flag" /\ \A j \in 1..(k - 1) : p[j] # "check"
    BY <1>1, <1>2
  <2> QED
    BY <2>1 DEF Flags
<1>3. CASE k > Len(p)
  <2>1. k - Len(p) \in DOMAIN q /\ q[k - Len(p)] = "flag"
    BY <1>1, <1>3
  <2>2. ASSUME NEW j \in 1..((k - Len(p)) - 1) PROVE q[j] # "check"
    <3>1. j + Len(p) \in 1..(k - 1) /\ r[j + Len(p)] = q[j]
      BY <1>1, <1>3
    <3> QED
      BY <3>1
  <2> QED
    BY <2>1, <2>2 DEF Flags
<1> QED
  BY <1>1, <1>2, <1>3

\* What an advance leaves of a program is in order, and what it had read it still has.
LEMMA OrderedRest ==
  ASSUME NEW steps, NEW prog \in Seq(steps), prog # <<>>, Ordered(prog)
  PROVE  Ordered(Tail(prog)) /\ \A x : Has(Tail(prog), x) => MayPrecede(Head(prog), x)
<1>1. /\ Len(prog) \in Nat \ {0} /\ DOMAIN prog = 1..Len(prog) /\ Head(prog) = prog[1]
  <2>1. Len(prog) # 0
    BY EmptySeq
  <2> QED
    BY <2>1
<1>2. /\ DOMAIN Tail(prog) = 1..(Len(prog) - 1)
      /\ \A k \in 1..(Len(prog) - 1) : Tail(prog)[k] = prog[k + 1]
  BY <1>1, HeadTailProperties
<1>3. Ordered(Tail(prog))
  <2> SUFFICES ASSUME NEW j \in 1..(Len(prog) - 1), NEW k \in 1..(Len(prog) - 1), j < k
               PROVE  MayPrecede(Tail(prog)[j], Tail(prog)[k])
    BY <1>2 DEF Ordered
  <2>1. j + 1 \in DOMAIN prog /\ k + 1 \in DOMAIN prog /\ j + 1 < k + 1
    BY <1>1
  <2> QED
    BY <1>2, <2>1 DEF Ordered
<1>4. ASSUME NEW x, Has(Tail(prog), x) PROVE MayPrecede(Head(prog), x)
  <2>1. PICK k \in 1..(Len(prog) - 1) : Tail(prog)[k] = x
    BY <1>2, <1>4 DEF Has
  <2>2. 1 \in DOMAIN prog /\ k + 1 \in DOMAIN prog /\ 1 < k + 1 /\ prog[k + 1] = x
    BY <1>1, <1>2, <2>1
  <2> QED
    BY <1>1, <2>2 DEF Ordered
<1> QED
  BY <1>3, <1>4

LEMMA FlagsRest ==
  ASSUME NEW steps, NEW prog \in Seq(steps), prog # <<>>
  PROVE  /\ Flags(Tail(prog)) => Has(Tail(prog), "flag") /\ (Head(prog) = "check" \/ Flags(prog))
         /\ Head(prog) = "flag" => Flags(prog)
<1>1. /\ Len(prog) \in Nat \ {0} /\ DOMAIN prog = 1..Len(prog) /\ Head(prog) = prog[1]
  <2>1. Len(prog) # 0
    BY EmptySeq
  <2> QED
    BY <2>1
<1>2. /\ DOMAIN Tail(prog) = 1..(Len(prog) - 1)
      /\ \A k \in 1..(Len(prog) - 1) : Tail(prog)[k] = prog[k + 1]
  BY <1>1, HeadTailProperties
<1>3. ASSUME Flags(Tail(prog)), Head(prog) # "check" PROVE Flags(prog)
  <2>1. PICK k \in 1..(Len(prog) - 1) :
          Tail(prog)[k] = "flag" /\ \A j \in 1..(k - 1) : Tail(prog)[j] # "check"
    BY <1>2, <1>3 DEF Flags
  <2>2. k + 1 \in DOMAIN prog /\ prog[k + 1] = "flag"
    BY <1>1, <1>2, <2>1
  <2>3. ASSUME NEW j \in 1..((k + 1) - 1) PROVE prog[j] # "check"
    <3>1. CASE j = 1
      BY <1>1, <1>3, <3>1
    <3>2. CASE j # 1
      <4>1. j - 1 \in 1..(k - 1) /\ j - 1 \in 1..(Len(prog) - 1) /\ Tail(prog)[j - 1] = prog[(j - 1) + 1]
        BY <1>1, <1>2, <2>1, <3>2
      <4> QED
        BY <2>1, <4>1
    <3> QED
      BY <3>1, <3>2
  <2> QED
    BY <2>2, <2>3 DEF Flags
<1>4. Flags(Tail(prog)) => Has(Tail(prog), "flag")
  BY DEF Flags, Has
<1>5. Head(prog) = "flag" => Flags(prog)
  <2>1. 1 \in DOMAIN prog /\ \A j \in 1..(1 - 1) : prog[j] # "check"
    BY <1>1
  <2> QED
    BY <1>1, <2>1 DEF Flags
<1> QED
  BY <1>3, <1>4, <1>5

LEMMA PlainIsOrdered ==
  ASSUME NEW prog, \A x : Has(prog, x) => x \notin {"enlist", "erase", "delist", "unkey"}
  PROVE  Ordered(prog)
BY DEF Ordered, MayPrecede, Has

LEMMA FlagIsRead ==
  ASSUME NEW steps, NEW prog \in Seq(steps), prog # <<>>, prog[1] = "check" \/ ~Has(prog, "flag")
  PROVE  ~Flags(prog)
<1>1. CASE prog[1] = "check"
  <2> SUFFICES ASSUME NEW k \in DOMAIN prog, prog[k] = "flag", \A j \in 1..(k - 1) : prog[j] # "check"
               PROVE  FALSE
    BY DEF Flags
  <2>1. k \in Nat \ {0} /\ k # 1
    BY <1>1
  <2>2. 1 \in 1..(k - 1)
    BY <2>1
  <2> QED
    BY <1>1, <2>2
<1>2. CASE ~Has(prog, "flag")
  BY <1>2 DEF Flags, Has
<1> QED
  BY <1>1, <1>2

LEMMA SingleStep ==
  ASSUME NEW step \in ModelSteps
  PROVE  /\ Linked(<<step>>) /\ <<step>>[1] = step /\ <<step>>[Len(<<step>>)] = step
         /\ \A x : Has(<<step>>, x) <=> x = step
         /\ Ordered(<<step>>)
<1> DEFINE p == <<step>>
<1>1. p \in Seq(ModelSteps) /\ Len(p) = 1 /\ p[1] = step /\ DOMAIN p = 1..1 /\ p # <<>>
  OBVIOUS
<1> HIDE DEF p
<1>2. \A x : Has(p, x) <=> x = step
  BY <1>1 DEF Has
<1>3. Linked(p)
  BY <1>1 DEF Linked, Chained
<1>4. Ordered(p)
  BY <1>1 DEF Ordered
<1> QED
  BY <1>1, <1>2, <1>3, <1>4 DEF p

Marking4 == <<"list", "clear", "flag", "key">>
Creation3 == <<"write", "list", "enlist">>
Deletion3 == <<"erase", "list", "delist">>

LEMMA SwapIsChained ==
  /\ Linked(Swap) /\ Swap[1] = "swap" /\ Swap[Len(Swap)] = "unlock"
  /\ \A x : Has(Swap, x) => x \in {"swap", "provider", "model", "base", "unlock"}
<1>1. QED
  <2>1. Len(Swap) = 5 /\ Swap \in Seq(ModelSteps) /\ Swap # <<>> /\ DOMAIN Swap = 1..5
    BY DEF Swap, ModelSteps
  <2>2. Swap[1] = "swap" /\ Swap[2] = "provider" /\ Swap[3] = "model" /\ Swap[4] = "base" /\ Swap[5] = "unlock"
    BY DEF Swap
  <2> HIDE DEF Swap
  <2>3. \A k \in 1..4 : <<Swap[k], Swap[k + 1]>> \in ModelPairs
    <3> SUFFICES ASSUME NEW k \in 1..4 PROVE <<Swap[k], Swap[k + 1]>> \in ModelPairs
      OBVIOUS
    <3>1. CASE k = 1
      <4>1. Swap[k] = "swap" /\ Swap[k + 1] = "provider"
        BY <2>2, <3>1
      <4> QED
        BY <4>1 DEF ModelPairs
    <3>2. CASE k = 2
      <4>1. Swap[k] = "provider" /\ Swap[k + 1] = "model"
        BY <2>2, <3>2
      <4> QED
        BY <4>1 DEF ModelPairs
    <3>3. CASE k = 3
      <4>1. Swap[k] = "model" /\ Swap[k + 1] = "base"
        BY <2>2, <3>3
      <4> QED
        BY <4>1 DEF ModelPairs
    <3>4. CASE k = 4
      <4>1. Swap[k] = "base" /\ Swap[k + 1] = "unlock"
        BY <2>2, <3>4
      <4> QED
        BY <4>1 DEF ModelPairs
    <3> QED
      BY <3>1, <3>2, <3>3, <3>4
  <2>4. \A x : Has(Swap, x) => x \in {"swap", "provider", "model", "base", "unlock"}
    <3> SUFFICES ASSUME NEW x, NEW k \in 1..5, Swap[k] = x PROVE x \in {"swap", "provider", "model", "base", "unlock"}
      BY <2>1 DEF Has
    <3>1. k = 1 \/ k = 2 \/ k = 3 \/ k = 4 \/ k = 5
      OBVIOUS
    <3> QED
      BY <2>2, <3>1
  <2> QED
    <3>1. Len(Swap) - 1 = 4 /\ Swap[Len(Swap)] = "unlock" /\ "unlock" \in ModelSteps
      BY <2>1, <2>2 DEF ModelSteps
    <3>2. Linked(Swap)
      BY <2>1, <2>3, <3>1 DEF Linked, Chained
    <3> QED
      BY <2>1, <2>2, <2>3, <2>4, <3>1, <3>2

LEMMA MarkingIsChained ==
  /\ Linked(Marking4) /\ Marking4[1] = "list" /\ Marking4[Len(Marking4)] = "key"
  /\ \A x : Has(Marking4, x) => x \in {"list", "clear", "flag", "key"}
<1>1. QED
  <2>1. Len(Marking4) = 4 /\ Marking4 \in Seq(ModelSteps) /\ Marking4 # <<>> /\ DOMAIN Marking4 = 1..4
    BY DEF Marking4, ModelSteps
  <2>2. Marking4[1] = "list" /\ Marking4[2] = "clear" /\ Marking4[3] = "flag" /\ Marking4[4] = "key"
    BY DEF Marking4
  <2> HIDE DEF Marking4
  <2>3. \A k \in 1..3 : <<Marking4[k], Marking4[k + 1]>> \in ModelPairs
    <3> SUFFICES ASSUME NEW k \in 1..3 PROVE <<Marking4[k], Marking4[k + 1]>> \in ModelPairs
      OBVIOUS
    <3>1. CASE k = 1
      <4>1. Marking4[k] = "list" /\ Marking4[k + 1] = "clear"
        BY <2>2, <3>1
      <4> QED
        BY <4>1 DEF ModelPairs
    <3>2. CASE k = 2
      <4>1. Marking4[k] = "clear" /\ Marking4[k + 1] = "flag"
        BY <2>2, <3>2
      <4> QED
        BY <4>1 DEF ModelPairs
    <3>3. CASE k = 3
      <4>1. Marking4[k] = "flag" /\ Marking4[k + 1] = "key"
        BY <2>2, <3>3
      <4> QED
        BY <4>1 DEF ModelPairs
    <3> QED
      BY <3>1, <3>2, <3>3
  <2>4. \A x : Has(Marking4, x) => x \in {"list", "clear", "flag", "key"}
    <3> SUFFICES ASSUME NEW x, NEW k \in 1..4, Marking4[k] = x PROVE x \in {"list", "clear", "flag", "key"}
      BY <2>1 DEF Has
    <3>1. k = 1 \/ k = 2 \/ k = 3 \/ k = 4
      OBVIOUS
    <3> QED
      BY <2>2, <3>1
  <2> QED
    <3>1. Len(Marking4) - 1 = 3 /\ Marking4[Len(Marking4)] = "key" /\ "key" \in ModelSteps
      BY <2>1, <2>2 DEF ModelSteps
    <3>2. Linked(Marking4)
      BY <2>1, <2>3, <3>1 DEF Linked, Chained
    <3> QED
      BY <2>1, <2>2, <2>3, <2>4, <3>1, <3>2

LEMMA CreationIsChained ==
  /\ Linked(Creation3) /\ Creation3[1] = "write"
  /\ Creation3[Len(Creation3)] = "enlist" /\ Has(Creation3, "enlist") /\ Ordered(Creation3)
  /\ \A x : Has(Creation3, x) => x \in {"write", "list", "enlist"}
<1>1. QED
  <2>1. Len(Creation3) = 3 /\ Creation3 \in Seq(ModelSteps) /\ Creation3 # <<>> /\ DOMAIN Creation3 = 1..3
    BY DEF Creation3, ModelSteps
  <2>2. Creation3[1] = "write" /\ Creation3[2] = "list" /\ Creation3[3] = "enlist"
    BY DEF Creation3
  <2> HIDE DEF Creation3
  <2>3. \A k \in 1..2 : <<Creation3[k], Creation3[k + 1]>> \in ModelPairs
    <3> SUFFICES ASSUME NEW k \in 1..2 PROVE <<Creation3[k], Creation3[k + 1]>> \in ModelPairs
      OBVIOUS
    <3>1. CASE k = 1
      <4>1. Creation3[k] = "write" /\ Creation3[k + 1] = "list"
        BY <2>2, <3>1
      <4> QED
        BY <4>1 DEF ModelPairs
    <3>2. CASE k = 2
      <4>1. Creation3[k] = "list" /\ Creation3[k + 1] = "enlist"
        BY <2>2, <3>2
      <4> QED
        BY <4>1 DEF ModelPairs
    <3> QED
      BY <3>1, <3>2
  <2>4. \A x : Has(Creation3, x) => x \in {"write", "list", "enlist"}
    <3> SUFFICES ASSUME NEW x, NEW k \in 1..3, Creation3[k] = x PROVE x \in {"write", "list", "enlist"}
      BY <2>1 DEF Has
    <3>1. k = 1 \/ k = 2 \/ k = 3
      OBVIOUS
    <3> QED
      BY <2>2, <3>1
  <2>5. Ordered(Creation3)
    <3> SUFFICES ASSUME NEW j \in 1..3, NEW k \in 1..3, j < k PROVE MayPrecede(Creation3[j], Creation3[k])
      BY <2>1 DEF Ordered
    <3>1. Creation3[j] \in {"write", "list"} /\ Creation3[k] \in {"list", "enlist"}
      BY <2>2
    <3> QED
      BY <3>1 DEF MayPrecede
  <2>6. Has(Creation3, "enlist")
    BY <2>1, <2>2 DEF Has
  <2> QED
    <3>1. Len(Creation3) - 1 = 2 /\ Creation3[Len(Creation3)] = "enlist" /\ "enlist" \in ModelSteps
      BY <2>1, <2>2 DEF ModelSteps
    <3>2. Linked(Creation3)
      BY <2>1, <2>3, <3>1 DEF Linked, Chained
    <3> QED
      BY <2>1, <2>2, <2>3, <2>4, <2>5, <2>6, <3>1, <3>2

LEMMA DeletionIsChained ==
  /\ Linked(Deletion3) /\ Deletion3[1] = "erase"
  /\ Deletion3[Len(Deletion3)] = "delist" /\ Has(Deletion3, "erase") /\ Ordered(Deletion3)
  /\ \A x : Has(Deletion3, x) => x \in {"erase", "list", "delist"}
<1>1. QED
  <2>1. Len(Deletion3) = 3 /\ Deletion3 \in Seq(ModelSteps) /\ Deletion3 # <<>> /\ DOMAIN Deletion3 = 1..3
    BY DEF Deletion3, ModelSteps
  <2>2. Deletion3[1] = "erase" /\ Deletion3[2] = "list" /\ Deletion3[3] = "delist"
    BY DEF Deletion3
  <2> HIDE DEF Deletion3
  <2>3. \A k \in 1..2 : <<Deletion3[k], Deletion3[k + 1]>> \in ModelPairs
    <3> SUFFICES ASSUME NEW k \in 1..2 PROVE <<Deletion3[k], Deletion3[k + 1]>> \in ModelPairs
      OBVIOUS
    <3>1. CASE k = 1
      <4>1. Deletion3[k] = "erase" /\ Deletion3[k + 1] = "list"
        BY <2>2, <3>1
      <4> QED
        BY <4>1 DEF ModelPairs
    <3>2. CASE k = 2
      <4>1. Deletion3[k] = "list" /\ Deletion3[k + 1] = "delist"
        BY <2>2, <3>2
      <4> QED
        BY <4>1 DEF ModelPairs
    <3> QED
      BY <3>1, <3>2
  <2>4. \A x : Has(Deletion3, x) => x \in {"erase", "list", "delist"}
    <3> SUFFICES ASSUME NEW x, NEW k \in 1..3, Deletion3[k] = x PROVE x \in {"erase", "list", "delist"}
      BY <2>1 DEF Has
    <3>1. k = 1 \/ k = 2 \/ k = 3
      OBVIOUS
    <3> QED
      BY <2>2, <3>1
  <2>5. Ordered(Deletion3)
    <3> SUFFICES ASSUME NEW j \in 1..3, NEW k \in 1..3, j < k PROVE MayPrecede(Deletion3[j], Deletion3[k])
      BY <2>1 DEF Ordered
    <3>1. Deletion3[j] \in {"erase", "list"} /\ Deletion3[k] \in {"list", "delist"}
      BY <2>2
    <3> QED
      BY <3>1 DEF MayPrecede, Removing
  <2>6. Has(Deletion3, "erase")
    BY <2>1, <2>2 DEF Has
  <2> QED
    <3>1. Len(Deletion3) - 1 = 2 /\ Deletion3[Len(Deletion3)] = "delist" /\ "delist" \in ModelSteps
      BY <2>1, <2>2 DEF ModelSteps
    <3>2. Linked(Deletion3)
      BY <2>1, <2>3, <3>1 DEF Linked, Chained
    <3> QED
      BY <2>1, <2>2, <2>3, <2>4, <2>5, <2>6, <3>1, <3>2

ActivationSteps ==
  {"check", "swap", "provider", "model", "base", "unlock", "list", "clear", "flag", "key"}

LEMMA ActivationIsProgram ==
  /\ Linked(Activation) /\ Ordered(Activation) /\ ~Flags(Activation)
  /\ Activation[1] = "check" /\ Activation[Len(Activation)] = "key"
  /\ \A x : Has(Activation, x) => x \in ActivationSteps
<1>1. /\ Linked(<<"check">>) /\ <<"check">>[1] = "check"
      /\ <<"check">>[Len(<<"check">>)] = "check" /\ \A x : Has(<<"check">>, x) <=> x = "check"
  BY SingleStep DEF ModelSteps
<1>2. <<"check", "swap">> \in ModelPairs /\ <<"unlock", "list">> \in ModelPairs
  BY DEF ModelPairs
<1> DEFINE p == <<"check">> \o Swap
<1>3. /\ Linked(p) /\ p[1] = "check" /\ p[Len(p)] = "unlock"
      /\ \A x : Has(p, x) => x \in ActivationSteps
  <2>1. <<<<"check">>[Len(<<"check">>)], Swap[1]>> \in ModelPairs
    BY <1>1, <1>2, SwapIsChained
  <2>2. /\ Linked(p) /\ p[1] = <<"check">>[1] /\ p[Len(p)] = Swap[Len(Swap)]
        /\ \A x : Has(p, x) <=> Has(<<"check">>, x) \/ Has(Swap, x)
    BY <1>1, <2>1, SwapIsChained, LinkedConcat
  <2> QED
    BY <1>1, <2>2, SwapIsChained DEF ActivationSteps
<1> HIDE DEF p
<1>4. Activation = p \o Marking4
  BY DEF Activation, p, Marking4
<1>5. /\ Linked(Activation) /\ Activation[1] = "check"
      /\ Activation[Len(Activation)] = "key"
      /\ \A x : Has(Activation, x) => x \in ActivationSteps
  <2>1. <<p[Len(p)], Marking4[1]>> \in ModelPairs
    BY <1>2, <1>3, MarkingIsChained
  <2>2. /\ Linked(Activation) /\ Activation[1] = p[1]
        /\ Activation[Len(Activation)] = Marking4[Len(Marking4)]
        /\ \A x : Has(Activation, x) <=> Has(p, x) \/ Has(Marking4, x)
    <3>1. Linked(p)
      BY <1>3
    <3>2. Linked(Marking4)
      BY MarkingIsChained
    <3>3. /\ Linked(p \o Marking4) /\ (p \o Marking4)[1] = p[1]
          /\ (p \o Marking4)[Len(p \o Marking4)] = Marking4[Len(Marking4)]
          /\ \A x : Has(p \o Marking4, x) <=> Has(p, x) \/ Has(Marking4, x)
      BY <2>1, <3>1, <3>2, LinkedConcat
    <3> QED
      BY <1>4, <3>3
  <2> QED
    BY <1>3, <2>2, MarkingIsChained DEF ActivationSteps
<1>6. Ordered(Activation)
  BY <1>5, PlainIsOrdered DEF ActivationSteps
<1>7. ~Flags(Activation)
  BY <1>5, FlagIsRead DEF Linked, Chained
<1> QED
  BY <1>5, <1>6, <1>7

------------------------------------------------------------------------------
(* The choice of a model: swaps *)

Jobs ==
  [todo : Seq(ModelSteps), id : Presets \cup {Unset}, uses : Settings \cup {Unset},
   mine : Record \cup {NoPreset}, seen : Record \cup {NoPreset}, ids : SUBSET Presets,
   next : {Unset} \cup (Presets \X Record)]

Histories == [count : Nat, met : BOOLEAN, missed : BOOLEAN, crossed : BOOLEAN]
Savings == [file : Pairs, provider : Settings, model : Settings, base : WithBase \cup {Unset}]
ChoiceTyped ==
  /\ preset \in [Presets -> Record \cup {NoPreset}] /\ shelf \subseteq Presets
  /\ key \in Presets \cup {Unset} /\ serving \in Pairs /\ endpoint \in Settings \cup {Unset}
  /\ saved \in Savings
  /\ holder \in Askers \cup {Unheld} /\ history \in Histories
ModelTyped == ChoiceTyped /\ ask \in [Askers -> Jobs \cup {NoRequest}]

\* What a request has still to do is the rest of a program, and it has what that needs.
OfPreset == {"check", "flag", "key", "write", "enlist", "erase", "delist", "unkey"}
Equipped(a) ==
  LET job == ask[a] IN
  Asking(a) =>
    /\ Chained(job.todo, ModelSteps, ModelPairs, ModelEnds) /\ Ordered(job.todo)
    /\ Has(job.todo, "base") => job.uses \in Settings
    /\ Has(job.todo, "write") => job.mine \in Record
    /\ Flags(job.todo) => job.seen \in Record
    /\ \A step \in OfPreset : Has(job.todo, step) => job.id \in Presets

\* A swap under way has the lock, and so many of its writes are done.
Saves(a) ==
  ~history.missed =>
    /\ Step(a) = "model" => saved.provider = ask[a].uses
    /\ Step(a) \in {"base", "unlock"} => saved.provider = saved.model
Swapping(a) == (Step(a) \in InSwap <=> holder = a) /\ Saves(a)

TableTogether == holder = Unheld /\ ~history.missed => saved.provider = saved.model

ModelInv == ModelTyped /\ (\A a \in Askers : Equipped(a) /\ Swapping(a)) /\ TableTogether

\* What a request is when its next step is done.
Leaves(a, job) ==
  \/ /\ ask'[a] = NoRequest /\ ~Asking(a)' /\ Step(a)' = "none"
     /\ Head(job.todo) \in ModelEnds /\ \A x : Has(job.todo, x) => x = Head(job.todo)
  \/ /\ ask'[a] \in Jobs /\ Asking(a)' /\ Step(a)' = Head(ask'[a].todo)
     /\ Chained(ask'[a].todo, ModelSteps, ModelPairs, ModelEnds) /\ Ordered(ask'[a].todo)
     /\ <<Head(job.todo), Step(a)'>> \in ModelPairs
     /\ ask'[a].id = job.id /\ ask'[a].next = job.next
     /\ Has(ask'[a].todo, "write") => ask'[a].mine = job.mine
     /\ Has(ask'[a].todo, "base") => ask'[a].uses = job.uses
     /\ Flags(ask'[a].todo) => ask'[a].seen = job.seen /\ (Head(job.todo) = "check" \/ Flags(job.todo))
     /\ Step(a)' \in {"clear", "enlist", "delist"} => ask'[a].ids = job.ids
     /\ \A x : Has(job.todo, x) <=> x = Head(job.todo) \/ Has(ask'[a].todo, x)
     /\ \A x : Has(ask'[a].todo, x) => MayPrecede(Head(job.todo), x)

LEMMA RestIs ==
  ASSUME NEW a \in Askers, NEW job \in Jobs, ask \in [Askers -> Jobs \cup {NoRequest}],
         Chained(job.todo, ModelSteps, ModelPairs, ModelEnds), Ordered(job.todo), Rest(a, job)
  PROVE  /\ ask' \in [Askers -> Jobs \cup {NoRequest}] /\ \A b \in Askers \ {a} : ask'[b] = ask[b]
         /\ Leaves(a, job)
<1> DEFINE prog == job.todo
           todo == Tail(prog)
<1>1. /\ Head(prog) \in ModelSteps /\ Len(prog) \in Nat \ {0}
      /\ Len(prog) = 1 => Head(prog) \in ModelEnds
      /\ Len(prog) # 1 => /\ Chained(todo, ModelSteps, ModelPairs, ModelEnds)
                         /\ <<Head(prog), Head(todo)>> \in ModelPairs
      /\ \A x : Has(prog, x) <=> Head(prog) = x \/ (Len(prog) # 1 /\ Has(todo, x))
  BY ChainedRest
<1>2. prog \in Seq(ModelSteps) /\ prog # <<>>
  BY DEF Chained
<1>3. todo \in Seq(ModelSteps) /\ Len(todo) = Len(prog) - 1 /\ (todo = <<>> <=> Len(prog) = 1)
  <2>1. todo \in Seq(ModelSteps) /\ Len(todo) = Len(prog) - 1
    BY <1>2, HeadTailProperties
  <2>2. todo = <<>> <=> Len(todo) = 0
    BY <2>1, EmptySeq
  <2> QED
    BY <1>1, <2>1, <2>2
<1>4. /\ Ordered(todo) /\ \A x : Has(todo, x) => MayPrecede(Head(prog), x)
      /\ Flags(todo) => Has(todo, "flag") /\ (Head(prog) = "check" \/ Flags(prog))
  BY <1>2, OrderedRest, FlagsRest
<1> DEFINE left == [todo |-> todo, id |-> job.id, next |-> job.next,
                    mine |-> IF Has(todo, "write") THEN job.mine ELSE NoPreset,
                    seen |-> IF Has(todo, "flag") THEN job.seen ELSE NoPreset,
                    uses |-> IF Has(todo, "base") THEN job.uses ELSE Unset,
                    ids |-> IF todo # <<>> /\ Head(todo) \in {"clear", "enlist", "delist"}
                              THEN job.ids ELSE {}]
<1>5. ask' = [ask EXCEPT ![a] = IF todo = <<>> THEN NoRequest ELSE left]
  BY DEF Rest, Has
<1>6. left \in Jobs
  BY <1>3 DEF Jobs
<1>7. left.todo = todo /\ left.id = job.id /\ left.next = job.next
      /\ (Has(todo, "write") => left.mine = job.mine) /\ (Has(todo, "flag") => left.seen = job.seen)
      /\ (Has(todo, "base") => left.uses = job.uses)
      /\ (todo # <<>> /\ Head(todo) \in {"clear", "enlist", "delist"} => left.ids = job.ids)
  OBVIOUS
<1> HIDE DEF left, todo, prog
<1>8. CASE Len(prog) = 1
  <2>1. ask' = [ask EXCEPT ![a] = NoRequest]
    BY <1>3, <1>5, <1>8
  <2>2. ask'[a] = NoRequest /\ ask' \in [Askers -> Jobs \cup {NoRequest}]
        /\ \A b \in Askers \ {a} : ask'[b] = ask[b]
    BY <2>1
  <2>3. ~Asking(a)' /\ Step(a)' = "none"
    BY <2>2 DEF Asking, Step
  <2>4. Head(prog) \in ModelEnds /\ \A x : Has(prog, x) => x = Head(prog)
    BY <1>1, <1>8
  <2> QED
    BY <2>2, <2>3, <2>4 DEF Leaves, prog
<1>9. CASE Len(prog) # 1
  <2>1. ask' = [ask EXCEPT ![a] = left] /\ todo # <<>>
    BY <1>3, <1>5, <1>9
  <2>2. ask'[a] = left /\ ask' \in [Askers -> Jobs \cup {NoRequest}]
        /\ \A b \in Askers \ {a} : ask'[b] = ask[b]
    BY <2>1, <1>6
  <2>3. Asking(a)' /\ Step(a)' = Head(todo) /\ ask'[a].todo = todo
    BY <2>1, <2>2, <1>7 DEF Asking, Step, NoRequest
  <2>4. /\ ask'[a].id = job.id /\ ask'[a].next = job.next
        /\ Has(todo, "write") => ask'[a].mine = job.mine
        /\ Has(todo, "base") => ask'[a].uses = job.uses
        /\ Flags(todo) => ask'[a].seen = job.seen
        /\ Head(todo) \in {"clear", "enlist", "delist"} => ask'[a].ids = job.ids
    BY <1>4, <1>7, <2>1, <2>2
  <2>5. \A x : Has(prog, x) <=> x = Head(prog) \/ Has(todo, x)
    BY <1>1, <1>9
  <2>6. ask'[a] \in Jobs
    BY <1>6, <2>2
  <2> QED
    BY <1>1, <1>4, <1>9, <2>2, <2>3, <2>4, <2>5, <2>6 DEF Leaves, prog
<1> QED
  BY <1>8, <1>9

LEMMA SwapHasBase ==
  ASSUME NEW prog, Chained(prog, ModelSteps, ModelPairs, ModelEnds),
         Head(prog) \in {"swap", "provider", "model", "base"}
  PROVE  Has(prog, "base")
<1>1. ASSUME NEW p, Chained(p, ModelSteps, ModelPairs, ModelEnds), Head(p) \in {"swap", "provider", "model"}
      PROVE  /\ Chained(Tail(p), ModelSteps, ModelPairs, ModelEnds)
             /\ <<Head(p), Head(Tail(p))>> \in ModelPairs
             /\ Has(Tail(p), "base") => Has(p, "base")
  <2>1. /\ Len(p) = 1 => Head(p) \in ModelEnds
        /\ Len(p) # 1 => /\ Chained(Tail(p), ModelSteps, ModelPairs, ModelEnds)
                        /\ <<Head(p), Head(Tail(p))>> \in ModelPairs
        /\ \A x : Has(p, x) <=> Head(p) = x \/ (Len(p) # 1 /\ Has(Tail(p), x))
    BY <1>1, ChainedRest
  <2>2. Len(p) # 1
    BY <1>1, <2>1 DEF ModelEnds
  <2> QED
    BY <2>1, <2>2
<1>2. ASSUME NEW p, Chained(p, ModelSteps, ModelPairs, ModelEnds), Head(p) = "base"
      PROVE  Has(p, "base")
  BY <1>2, ChainedRest
<1>3. ASSUME NEW p, Chained(p, ModelSteps, ModelPairs, ModelEnds), Head(p) = "model"
      PROVE  Has(p, "base")
  <2>1. Head(Tail(p)) = "base"
    BY <1>1, <1>3 DEF ModelPairs
  <2> QED
    BY <1>1, <1>2, <1>3, <2>1
<1>4. ASSUME NEW p, Chained(p, ModelSteps, ModelPairs, ModelEnds), Head(p) = "provider"
      PROVE  Has(p, "base")
  <2>1. Head(Tail(p)) = "model"
    BY <1>1, <1>4 DEF ModelPairs
  <2> QED
    BY <1>1, <1>3, <1>4, <2>1
<1>5. ASSUME NEW p, Chained(p, ModelSteps, ModelPairs, ModelEnds), Head(p) = "swap"
      PROVE  Has(p, "base")
  <2>1. Head(Tail(p)) = "provider"
    BY <1>1, <1>5 DEF ModelPairs
  <2> QED
    BY <1>1, <1>4, <1>5, <2>1
<1> QED
  BY <1>2, <1>3, <1>4, <1>5

LEMMA AskingIs ==
  ASSUME ModelInv, NEW a \in Askers, Step(a) # "none"
  PROVE  /\ Asking(a) /\ ask[a] \in Jobs /\ Step(a) = Head(ask[a].todo) /\ Step(a) \in ModelSteps
         /\ Chained(ask[a].todo, ModelSteps, ModelPairs, ModelEnds) /\ Ordered(ask[a].todo)
         /\ ask[a].todo \in Seq(ModelSteps) /\ ask[a].todo # <<>>
         /\ Has(ask[a].todo, Step(a)) /\ (Step(a) = "flag" => Flags(ask[a].todo))
         /\ Step(a) \in OfPreset => ask[a].id \in Presets
         /\ Step(a) \in {"swap", "provider", "model", "base"} => ask[a].uses \in Settings
<1>1. Asking(a) /\ Step(a) = Head(ask[a].todo)
  BY DEF Step
<1>2. ask[a] \in Jobs /\ Equipped(a)
  BY <1>1 DEF ModelInv, ModelTyped, Asking
<1>3. /\ Chained(ask[a].todo, ModelSteps, ModelPairs, ModelEnds) /\ Ordered(ask[a].todo)
      /\ ask[a].todo \in Seq(ModelSteps) /\ ask[a].todo # <<>>
  BY <1>1, <1>2 DEF Equipped, Chained
<1>4. Head(ask[a].todo) \in ModelSteps /\ Has(ask[a].todo, Head(ask[a].todo))
  BY <1>3, ChainedRest
<1>5. Head(ask[a].todo) = "flag" => Flags(ask[a].todo)
  BY <1>3, FlagsRest
<1>6. Step(a) \in {"swap", "provider", "model", "base"} => ask[a].uses \in Settings
  BY <1>1, <1>2, <1>3, SwapHasBase DEF Equipped
<1>7. Step(a) \in OfPreset => ask[a].id \in Presets
  BY <1>1, <1>2, <1>4 DEF Equipped
<1> QED
  BY <1>1, <1>2, <1>3, <1>4, <1>5, <1>6, <1>7

\* A request does its next step.
LEMMA ModelGoesOn ==
  ASSUME ModelInv, NEW a \in Askers, NEW job \in Jobs, Step(a) # "none", Rest(a, job), ChoiceTyped',
         job.todo = ask[a].todo, job.id = ask[a].id,
         Has(job.todo, "base") => job.uses \in Settings,
         Has(job.todo, "write") => job.mine \in Record,
         Flags(job.todo) \/ Step(a) = "check" => job.seen \in Record,
         \/ holder' = holder /\ Step(a) \notin {"swap", "unlock"}
         \/ holder = Unheld /\ holder' = a /\ Step(a) = "swap"
         \/ holder' = Unheld /\ Step(a) = "unlock",
         ~history'.missed => ~history.missed,
         saved' = saved \/ Step(a) \in {"swap", "provider", "model", "base"},
         Step(a) \in {"swap", "provider", "model", "base"} /\ Leaves(a, job) => Saves(a)'
  PROVE  ModelInv' /\ Leaves(a, job) /\ \A b \in Askers \ {a} : ask'[b] = ask[b]
<1>1. /\ Asking(a) /\ ask[a] \in Jobs /\ Step(a) = Head(job.todo) /\ Step(a) \in ModelSteps
      /\ Chained(job.todo, ModelSteps, ModelPairs, ModelEnds) /\ Ordered(job.todo)
  BY AskingIs
<1>2. /\ ModelTyped /\ ChoiceTyped /\ (\A b \in Askers : Equipped(b) /\ Swapping(b)) /\ TableTogether
      /\ ask \in [Askers -> Jobs \cup {NoRequest}] /\ holder \in Askers \cup {Unheld} /\ Unheld \notin Askers
  BY ModelAssumption DEF ModelInv, ModelTyped, ChoiceTyped, ModelAssumption
<1>3. /\ ask' \in [Askers -> Jobs \cup {NoRequest}] /\ \A b \in Askers \ {a} : ask'[b] = ask[b]
      /\ Leaves(a, job)
  BY <1>1, <1>2, RestIs
<1>4. \A b \in Askers \ {a} : Step(b)' = Step(b) /\ (Asking(b)' <=> Asking(b))
  BY <1>3 DEF Step, Asking
<1>5. ASSUME NEW b \in Askers \ {a} PROVE Equipped(b)'
  <2>1. Equipped(b)
    BY <1>2
  <2> QED
    BY <2>1, <1>3, <1>4, <1>5 DEF Equipped
<1>6. Equipped(a)'
  <2> SUFFICES ASSUME Asking(a)'
               PROVE  /\ Chained(ask'[a].todo, ModelSteps, ModelPairs, ModelEnds) /\ Ordered(ask'[a].todo)
                      /\ Has(ask'[a].todo, "base") => ask'[a].uses \in Settings
                      /\ Has(ask'[a].todo, "write") => ask'[a].mine \in Record
                      /\ Flags(ask'[a].todo) => ask'[a].seen \in Record
                      /\ \A step \in OfPreset : Has(ask'[a].todo, step) => ask'[a].id \in Presets
    BY DEF Equipped
  <2>1. /\ Chained(ask'[a].todo, ModelSteps, ModelPairs, ModelEnds) /\ Ordered(ask'[a].todo)
        /\ ask'[a].id = job.id
        /\ Has(ask'[a].todo, "write") => ask'[a].mine = job.mine
        /\ Has(ask'[a].todo, "base") => ask'[a].uses = job.uses
        /\ Flags(ask'[a].todo) => ask'[a].seen = job.seen /\ (Step(a) = "check" \/ Flags(job.todo))
        /\ \A x : Has(ask'[a].todo, x) => Has(job.todo, x)
    BY <1>1, <1>3 DEF Leaves
  <2>2. \A step \in OfPreset : Has(job.todo, step) => job.id \in Presets
    BY <1>1, <1>2 DEF Equipped
  <2> QED
    BY <2>1, <2>2
<1>7. ASSUME NEW b \in Askers \ {a} PROVE Swapping(b)'
  <2>1. Swapping(b)
    BY <1>2
  <2>2. holder' = b <=> holder = b
    BY <1>1, <1>2 DEF Swapping, InSwap
  <2>3. Step(b) \in InSwap => saved' = saved
    BY <1>1, <1>2, <2>1 DEF Swapping, InSwap
  <2>4. Saves(b)'
    <3>1. Step(b) \notin InSwap => Saves(b)'
      BY <1>4 DEF Saves, InSwap
    <3>2. Step(b) \in InSwap => Saves(b)'
      BY <1>3, <1>4, <2>1, <2>3 DEF Saves, Swapping
    <3> QED
      BY <3>1, <3>2
  <2> QED
    BY <2>1, <2>2, <2>4, <1>4 DEF Swapping
<1>8. Step(a)' \in InSwap <=> Step(a) \in {"swap", "provider", "model", "base"}
  <2>1. CASE ~Asking(a)'
    <3>1. Step(a)' = "none" /\ Step(a) \in ModelEnds
      BY <1>1, <1>3, <2>1 DEF Leaves
    <3> QED
      BY <3>1 DEF InSwap, ModelEnds
  <2>2. CASE Asking(a)'
    <3>1. <<Step(a), Step(a)'>> \in ModelPairs
      BY <1>1, <1>3, <2>2 DEF Leaves
    <3> QED
      BY <3>1 DEF InSwap, ModelPairs
  <2> QED
    BY <2>1, <2>2
<1>9. holder' = a <=> Step(a) \in {"swap", "provider", "model", "base"}
  BY <1>2 DEF Swapping, InSwap
<1>10. Saves(a)'
  <2>1. CASE Step(a) \in {"swap", "provider", "model", "base"}
    BY <1>3, <2>1
  <2>2. CASE Step(a) \notin {"swap", "provider", "model", "base"}
    BY <1>8, <2>2 DEF Saves, InSwap
  <2> QED
    BY <2>1, <2>2
<1>11. Swapping(a)'
  BY <1>8, <1>9, <1>10 DEF Swapping
<1>12. TableTogether'
  <2> SUFFICES ASSUME holder' = Unheld, ~history'.missed
               PROVE  saved'.provider = saved'.model
    BY DEF TableTogether
  <2>1. saved' = saved /\ ~history.missed
    BY <1>2, <1>9
  <2>2. CASE holder = Unheld
    BY <1>2, <2>1, <2>2 DEF TableTogether
  <2>3. CASE Step(a) = "unlock"
    BY <1>2, <2>1, <2>3 DEF Swapping, Saves
  <2> QED
    BY <2>1, <2>2, <2>3
<1>13. ModelTyped'
  BY <1>3 DEF ModelTyped
<1> QED
  BY <1>3, <1>5, <1>6, <1>7, <1>11, <1>12, <1>13 DEF ModelInv

LEMMA ModelStarts == ModelInit => ModelInv
<1> SUFFICES ASSUME ModelInit PROVE ModelInv
  OBVIOUS
<1>1. \A a \in Askers : ~Asking(a) /\ Step(a) = "none"
  BY DEF ModelInit, Asking, Step
<1>2. ModelTyped
  BY ModelAssumption DEF ModelInit, ModelTyped, ChoiceTyped, Record, Pair, Pairs, Savings, Histories,
                         ModelAssumption
<1>3. \A a \in Askers : holder # a
  BY ModelAssumption DEF ModelInit, ModelAssumption
<1>4. TableTogether
  BY DEF ModelInit, TableTogether
<1> QED
  BY <1>1, <1>2, <1>3, <1>4 DEF ModelInv, Equipped, Swapping, Saves, InSwap

\* A step that is no swap's and reads nothing anew.
LEMMA OwnJobGoesOn ==
  ASSUME ModelInv, NEW a \in Askers, Step(a) \notin {"none", "check", "swap", "provider", "model", "base"},
         Rest(a, ask[a]), ChoiceTyped', UNCHANGED <<saved, history>>,
         holder' = IF Step(a) = "unlock" THEN Unheld ELSE holder
  PROVE  ModelInv' /\ Leaves(a, ask[a]) /\ \A b \in Askers \ {a} : ask'[b] = ask[b]
<1>1. Asking(a) /\ ask[a] \in Jobs /\ Equipped(a)
  BY AskingIs DEF ModelInv
<1>2. /\ Has(ask[a].todo, "base") => ask[a].uses \in Settings
      /\ Has(ask[a].todo, "write") => ask[a].mine \in Record
      /\ Flags(ask[a].todo) => ask[a].seen \in Record
  BY <1>1 DEF Equipped
<1> QED
  BY <1>1, <1>2, ModelGoesOn

LEMMA RecordsEndpointGoesOn ==
  ASSUME ModelInv, NEW a \in Askers, RecordsEndpoint(a)
  PROVE  ModelInv' /\ Leaves(a, ask[a]) /\ \A b \in Askers \ {a} : ask'[b] = ask[b]
<1>1. /\ Step(a) = "endpoint" /\ endpoint' = ask[a].uses /\ Rest(a, ask[a])
      /\ UNCHANGED <<preset, shelf, key, serving, saved, holder, history>>
  BY DEF RecordsEndpoint, Keeps
<1>2. ask[a].uses \in Settings \cup {Unset}
  BY <1>1, AskingIs DEF Jobs
<1>3. ChoiceTyped'
  BY <1>1, <1>2 DEF ModelInv, ModelTyped, ChoiceTyped
<1> QED
  BY <1>1, <1>3, OwnJobGoesOn

LEMMA UnlocksGoesOn ==
  ASSUME ModelInv, NEW a \in Askers, Unlocks(a)
  PROVE  ModelInv' /\ Leaves(a, ask[a]) /\ \A b \in Askers \ {a} : ask'[b] = ask[b]
<1>1. /\ Step(a) = "unlock" /\ holder' = Unheld /\ Rest(a, ask[a])
      /\ UNCHANGED <<preset, shelf, key, serving, saved, endpoint, history>>
  BY DEF Unlocks, Keeps
<1>2. ChoiceTyped'
  BY <1>1 DEF ModelInv, ModelTyped, ChoiceTyped
<1> QED
  BY <1>1, <1>2, OwnJobGoesOn

LEMMA WritesGoesOn ==
  ASSUME ModelInv, NEW a \in Askers, Writes(a)
  PROVE  /\ ModelInv' /\ Leaves(a, ask[a]) /\ \A b \in Askers \ {a} : ask'[b] = ask[b]
         /\ ask[a].id \in Presets
         /\ \A p \in Presets \ {ask[a].id} : preset'[p] = preset[p]
         /\ Step(a) = "write" => ask[a].mine \in Record /\ preset'[ask[a].id] = ask[a].mine
         /\ Step(a) = "flag" => preset'[ask[a].id] \in Record /\ preset'[ask[a].id].active
         /\ Step(a) = "erase" => preset'[ask[a].id] = NoPreset
<1>1. /\ Step(a) \in {"write", "flag", "erase"} /\ Rest(a, ask[a])
      /\ preset' = [preset EXCEPT ![ask[a].id] =
           CASE Step(a) = "write" -> ask[a].mine
             [] Step(a) = "flag" -> [ask[a].seen EXCEPT !.active = TRUE]
             [] OTHER -> NoPreset]
      /\ UNCHANGED <<shelf, key, serving, saved, endpoint, holder, history>>
  BY DEF Writes, Keeps
<1>2. /\ Asking(a) /\ ask[a] \in Jobs /\ Equipped(a) /\ Has(ask[a].todo, Step(a))
      /\ (Step(a) = "flag" => Flags(ask[a].todo)) /\ ask[a].id \in Presets
  BY <1>1, AskingIs DEF ModelInv, OfPreset
<1>3. preset \in [Presets -> Record \cup {NoPreset}] /\ ChoiceTyped
  BY DEF ModelInv, ModelTyped, ChoiceTyped
<1>4. PICK new : preset' = [preset EXCEPT ![ask[a].id] = new]
                 /\ new = CASE Step(a) = "write" -> ask[a].mine
                            [] Step(a) = "flag" -> [ask[a].seen EXCEPT !.active = TRUE]
                            [] OTHER -> NoPreset
  BY <1>1
<1>5. CASE Step(a) = "write"
  <2>1. new = ask[a].mine /\ ask[a].mine \in Record
    BY <1>2, <1>4, <1>5 DEF Equipped
  <2>2. preset' \in [Presets -> Record \cup {NoPreset}]
    BY <1>3, <1>4, <2>1
  <2>3. ChoiceTyped'
    BY <1>1, <1>3, <2>2 DEF ChoiceTyped
  <2> QED
    BY <1>1, <1>2, <1>3, <1>4, <1>5, <2>1, <2>3, OwnJobGoesOn
<1>6. CASE Step(a) = "flag"
  <2>1. new = [ask[a].seen EXCEPT !.active = TRUE] /\ ask[a].seen \in Record
    BY <1>2, <1>4, <1>6 DEF Equipped
  <2>2. new \in Record /\ new.active
    BY <2>1 DEF Record
  <2>3. preset' \in [Presets -> Record \cup {NoPreset}]
    BY <1>3, <1>4, <2>2
  <2>4. ChoiceTyped'
    BY <1>1, <1>3, <2>3 DEF ChoiceTyped
  <2> QED
    BY <1>1, <1>2, <1>3, <1>4, <1>6, <2>2, <2>4, OwnJobGoesOn
<1>7. CASE Step(a) = "erase"
  <2>1. new = NoPreset
    BY <1>4, <1>7
  <2>2. preset' \in [Presets -> Record \cup {NoPreset}]
    BY <1>3, <1>4, <2>1
  <2>3. ChoiceTyped'
    BY <1>1, <1>3, <2>2 DEF ChoiceTyped
  <2> QED
    BY <1>1, <1>2, <1>3, <1>4, <1>7, <2>1, <2>3, OwnJobGoesOn
<1> QED
  BY <1>1, <1>5, <1>6, <1>7

LEMMA SavesShelfGoesOn ==
  ASSUME ModelInv, NEW a \in Askers, SavesShelf(a)
  PROVE  ModelInv' /\ Leaves(a, ask[a]) /\ (\A b \in Askers \ {a} : ask'[b] = ask[b])
         /\ ask[a].id \in Presets
<1>1. /\ Step(a) \in {"enlist", "delist"} /\ Rest(a, ask[a])
      /\ shelf' = IF Step(a) = "enlist" THEN ask[a].ids \cup {ask[a].id}
                  ELSE IF ask[a].id \in ask[a].ids THEN ask[a].ids \ {ask[a].id} ELSE shelf
      /\ UNCHANGED <<preset, key, serving, saved, endpoint, holder, history>>
  BY DEF SavesShelf, Keeps
<1>2. ask[a].ids \subseteq Presets /\ ask[a].id \in Presets
  BY <1>1, AskingIs DEF Jobs, OfPreset
<1>3. ChoiceTyped'
  BY <1>1, <1>2 DEF ModelInv, ModelTyped, ChoiceTyped
<1> QED
  BY <1>1, <1>2, <1>3, OwnJobGoesOn

LEMMA SavesKeyGoesOn ==
  ASSUME ModelInv, NEW a \in Askers, SavesKey(a)
  PROVE  ModelInv' /\ Leaves(a, ask[a]) /\ (\A b \in Askers \ {a} : ask'[b] = ask[b])
         /\ ask[a].id \in Presets
<1>1. /\ Step(a) \in {"key", "unkey"} /\ Rest(a, ask[a])
      /\ key' = IF Step(a) = "key" THEN ask[a].id ELSE Unset
      /\ UNCHANGED <<preset, shelf, serving, saved, endpoint, holder, history>>
  BY DEF SavesKey, Keeps
<1>2. ask[a].id \in Presets
  BY <1>1, AskingIs DEF OfPreset
<1>3. ChoiceTyped'
  BY <1>1, <1>2 DEF ModelInv, ModelTyped, ChoiceTyped
<1> QED
  BY <1>1, <1>2, <1>3, OwnJobGoesOn

LEMMA StartedGoesOn ==
  ASSUME ModelInv, NEW a \in Askers, Started(a)
  PROVE  ModelInv' /\ Leaves(a, ask[a]) /\ \A b \in Askers \ {a} : ask'[b] = ask[b]
<1>1. /\ Step(a) = "started" /\ Rest(a, ask[a]) /\ (serving' = serving \/ (endpoint # Unset /\ serving' = Pair(endpoint)))
      /\ UNCHANGED <<preset, shelf, key, saved, endpoint, holder, history>>
  BY DEF Started, Keeps
<1>2. ChoiceTyped'
  BY <1>1 DEF ModelInv, ModelTyped, ChoiceTyped, Pair, Pairs
<1> QED
  BY <1>1, <1>2, OwnJobGoesOn

LEMMA ListsGoesOn ==
  ASSUME ModelInv, NEW a \in Askers, Lists(a)
  PROVE  /\ ModelInv' /\ Leaves(a, [ask[a] EXCEPT !.ids = shelf])
         /\ (\A b \in Askers \ {a} : ask'[b] = ask[b])
<1> DEFINE job == [ask[a] EXCEPT !.ids = shelf]
<1>1. /\ Step(a) = "list" /\ Rest(a, job)
      /\ UNCHANGED <<preset, shelf, key, serving, saved, endpoint, holder, history>>
  BY DEF Lists, Keeps
<1>2. Asking(a) /\ ask[a] \in Jobs /\ Equipped(a) /\ shelf \subseteq Presets
  BY <1>1, AskingIs DEF ModelInv, ModelTyped, ChoiceTyped
<1>3. /\ job \in Jobs /\ job.todo = ask[a].todo /\ job.id = ask[a].id /\ job.uses = ask[a].uses
      /\ job.mine = ask[a].mine /\ job.seen = ask[a].seen
  BY <1>2 DEF Jobs
<1>4. ChoiceTyped'
  BY <1>1 DEF ModelInv, ModelTyped, ChoiceTyped
<1> HIDE DEF job
<1>5. /\ Has(job.todo, "base") => job.uses \in Settings
      /\ Has(job.todo, "write") => job.mine \in Record
      /\ Flags(job.todo) => job.seen \in Record
  BY <1>2, <1>3 DEF Equipped
<1>6. ModelInv' /\ Leaves(a, job) /\ \A b \in Askers \ {a} : ask'[b] = ask[b]
  BY <1>1, <1>3, <1>4, <1>5, ModelGoesOn
<1> QED
  BY <1>6 DEF job

\* The record is read, for what it uses and to be marked.
LEMMA FoundGoesOn ==
  ASSUME ModelInv, NEW a \in Askers, Looks(a), preset[ask[a].id] # NoPreset
  PROVE  /\ ModelInv' /\ (\A b \in Askers \ {a} : ask'[b] = ask[b])
         /\ Leaves(a, [ask[a] EXCEPT !.seen = preset[ask[a].id], !.uses = preset[ask[a].id].uses])
<1> DEFINE job == [ask[a] EXCEPT !.seen = preset[ask[a].id], !.uses = preset[ask[a].id].uses]
<1>1. /\ Step(a) = "check" /\ Rest(a, job)
      /\ UNCHANGED <<preset, shelf, key, serving, saved, endpoint, holder, history>>
  BY DEF Looks, Keeps
<1>2. /\ Asking(a) /\ ask[a] \in Jobs /\ Equipped(a) /\ ask[a].id \in Presets
      /\ preset \in [Presets -> Record \cup {NoPreset}]
  BY <1>1, AskingIs DEF ModelInv, ModelTyped, ChoiceTyped, OfPreset
<1>3. preset[ask[a].id] \in Record /\ preset[ask[a].id].uses \in Settings
  BY <1>2 DEF Record
<1>4. /\ job \in Jobs /\ job.todo = ask[a].todo /\ job.id = ask[a].id /\ job.uses \in Settings
      /\ job.mine = ask[a].mine /\ job.seen \in Record
  BY <1>2, <1>3 DEF Jobs
<1>5. ChoiceTyped'
  BY <1>1 DEF ModelInv, ModelTyped, ChoiceTyped
<1> HIDE DEF job
<1>6. Has(job.todo, "write") => job.mine \in Record
  BY <1>2, <1>4 DEF Equipped
<1>7. ModelInv' /\ Leaves(a, job) /\ \A b \in Askers \ {a} : ask'[b] = ask[b]
  BY <1>1, <1>4, <1>5, <1>6, ModelGoesOn
<1> QED
  BY <1>7 DEF job

LEMMA SwapLeaves ==
  ASSUME NEW a, NEW job, Leaves(a, job)
  PROVE  /\ Head(job.todo) = "swap" => Step(a)' = "provider" /\ ask'[a].uses = job.uses
         /\ Head(job.todo) = "provider" => Step(a)' = "model" /\ ask'[a].uses = job.uses
         /\ Head(job.todo) = "model" => Step(a)' = "base"
         /\ Head(job.todo) = "base" => Step(a)' = "unlock"
<1> SUFFICES ASSUME Head(job.todo) \in {"swap", "provider", "model", "base"}
             PROVE  /\ Head(job.todo) = "swap" => Step(a)' = "provider" /\ ask'[a].uses = job.uses
                    /\ Head(job.todo) = "provider" => Step(a)' = "model" /\ ask'[a].uses = job.uses
                    /\ Head(job.todo) = "model" => Step(a)' = "base"
                    /\ Head(job.todo) = "base" => Step(a)' = "unlock"
  OBVIOUS
<1>1. /\ Step(a)' = Head(ask'[a].todo) /\ <<Head(job.todo), Step(a)'>> \in ModelPairs
      /\ Chained(ask'[a].todo, ModelSteps, ModelPairs, ModelEnds)
      /\ Has(ask'[a].todo, "base") => ask'[a].uses = job.uses
  BY DEF Leaves, ModelEnds
<1>2. /\ Head(job.todo) = "swap" => Step(a)' = "provider"
      /\ Head(job.todo) = "provider" => Step(a)' = "model"
      /\ Head(job.todo) = "model" => Step(a)' = "base"
      /\ Head(job.todo) = "base" => Step(a)' = "unlock"
  BY <1>1 DEF ModelPairs
<1>3. Step(a)' \in {"provider", "model"} => ask'[a].uses = job.uses
  BY <1>1, SwapHasBase
<1> QED
  BY <1>2, <1>3

LEMMA StoresIs ==
  ASSUME ModelInv, NEW a \in Askers, NEW field \in {"provider", "model"}, NEW uses \in Settings,
         Stores(a, field, uses)
  PROVE  /\ Rest(a, ask[a]) /\ history' \in Histories
         /\ saved' \in Savings
         /\ ~history'.missed =>
              /\ ~history.missed
              /\ field = "provider" => saved'.provider = uses /\ saved'.file = saved.file
              /\ field = "model" => /\ saved'.model = uses /\ saved'.file = saved.file
                                    /\ saved'.provider = saved.provider
              /\ history'.crossed = history.crossed
<1>1. /\ saved \in Savings
      /\ history \in Histories
  BY DEF ModelInv, ModelTyped, ChoiceTyped
<1>2. CASE saved' = [saved EXCEPT ![field] = uses] /\ UNCHANGED history
  <2>2. CASE field = "provider"
    <3>1. saved' = [saved EXCEPT !["provider"] = uses]
      BY <1>2, <2>2
    <3> QED
      BY <1>1, <1>2, <2>2, <3>1 DEF Stores, Savings, Histories
  <2>3. CASE field = "model"
    <3>1. saved' = [saved EXCEPT !["model"] = uses]
      BY <1>2, <2>3
    <3> QED
      BY <1>1, <1>2, <2>3, <3>1 DEF Stores, Savings, Histories
  <2> QED
    BY <2>2, <2>3
<1>3. CASE UNCHANGED saved /\ history' = [history EXCEPT !.missed = TRUE]
  <2>1. history'.missed /\ history' \in Histories
    BY <1>1, <1>3 DEF Histories
  <2> QED
    BY <1>1, <1>3, <2>1 DEF Stores
<1> QED
  BY <1>2, <1>3 DEF Stores

LEMMA StoresFileIs ==
  ASSUME ModelInv, NEW a \in Askers, NEW uses \in Settings, Stores(a, "file", Pair(uses))
  PROVE  /\ Rest(a, ask[a]) /\ history' \in Histories /\ saved' \in Savings
         /\ ~history'.missed => ~history.missed /\ saved'.file = Pair(uses)
                               /\ history'.crossed = history.crossed
<1>1. saved \in Savings /\ history \in Histories /\ Pair(uses) \in Pairs
  BY DEF ModelInv, ModelTyped, ChoiceTyped, Pair, Pairs
<1> DEFINE file == Pair(uses)
<1>2. CASE saved' = [saved EXCEPT !["file"] = file] /\ UNCHANGED history
  <2> HIDE DEF file
  <2>1. file \in Pairs
    BY <1>1 DEF file
  <2>2. saved' \in Savings /\ saved'.file = file
    BY <1>1, <1>2, <2>1 DEF Savings
  <2> QED
    BY <1>1, <1>2, <2>2 DEF Stores, file
<1>3. CASE UNCHANGED saved /\ history' = [history EXCEPT !.missed = TRUE]
  <2>1. history'.missed /\ history' \in Histories
    BY <1>1, <1>3 DEF Histories
  <2> QED
    BY <1>1, <1>3, <2>1 DEF Stores
<1> QED
  BY <1>2, <1>3 DEF Stores

LEMMA SwapsGoesOn ==
  ASSUME ModelInv, NEW a \in Askers, Swaps(a)
  PROVE  ModelInv' /\ Leaves(a, ask[a]) /\ \A b \in Askers \ {a} : ask'[b] = ask[b]
<1>1. /\ Step(a) = "swap" /\ holder = Unheld /\ holder' = a /\ serving' = Pair(ask[a].uses)
      /\ Stores(a, "file", Pair(ask[a].uses)) /\ UNCHANGED <<preset, shelf, key, endpoint>>
  BY DEF Swaps
<1>2. /\ Asking(a) /\ ask[a] \in Jobs /\ ask[a].uses \in Settings /\ Equipped(a)
      /\ Step(a) = Head(ask[a].todo)
  BY <1>1, AskingIs DEF ModelInv
<1>3. /\ Rest(a, ask[a]) /\ history' \in Histories
      /\ saved' \in Savings
      /\ ~history'.missed => ~history.missed
  BY <1>1, <1>2, StoresFileIs
<1>4. ChoiceTyped'
  BY <1>1, <1>2, <1>3 DEF ModelInv, ModelTyped, ChoiceTyped, Pair, Pairs
<1>5. /\ Has(ask[a].todo, "base") => ask[a].uses \in Settings
      /\ Has(ask[a].todo, "write") => ask[a].mine \in Record
      /\ Flags(ask[a].todo) => ask[a].seen \in Record
  BY <1>2 DEF Equipped
<1>6. ASSUME Leaves(a, ask[a]) PROVE Saves(a)'
  <2>1. Step(a)' = "provider" /\ ask'[a].uses = ask[a].uses
    BY <1>1, <1>2, <1>6, SwapLeaves
  <2> QED
    BY <1>3, <2>1 DEF Saves
<1> QED
  BY <1>1, <1>2, <1>3, <1>4, <1>5, <1>6, ModelGoesOn

LEMMA StoresFieldGoesOn ==
  ASSUME ModelInv, NEW a \in Askers, StoresField(a)
  PROVE  ModelInv' /\ Leaves(a, ask[a]) /\ \A b \in Askers \ {a} : ask'[b] = ask[b]
<1>1. /\ Step(a) \in {"provider", "model", "base"}
      /\ UNCHANGED <<preset, shelf, key, serving, endpoint, holder>>
  BY DEF StoresField
<1>2. /\ Asking(a) /\ ask[a] \in Jobs /\ ask[a].uses \in Settings /\ Equipped(a)
      /\ Step(a) = Head(ask[a].todo) /\ Swapping(a)
  BY <1>1, AskingIs DEF ModelInv
<1>3. /\ Has(ask[a].todo, "base") => ask[a].uses \in Settings
      /\ Has(ask[a].todo, "write") => ask[a].mine \in Record
      /\ Flags(ask[a].todo) => ask[a].seen \in Record
  BY <1>2 DEF Equipped
<1>4. ChoiceTyped
  BY DEF ModelInv, ModelTyped
<1>5. CASE Step(a) = "provider"
  <2>1. Stores(a, "provider", ask[a].uses)
    BY <1>5 DEF StoresField
  <2>2. /\ Rest(a, ask[a]) /\ history' \in Histories
        /\ saved' \in Savings
        /\ ~history'.missed => ~history.missed /\ saved'.provider = ask[a].uses
    BY <1>2, <2>1, StoresIs
  <2>3. ChoiceTyped'
    BY <1>1, <1>4, <2>2 DEF ChoiceTyped
  <2>4. ASSUME Leaves(a, ask[a]) PROVE Saves(a)'
    <3>1. Step(a)' = "model" /\ ask'[a].uses = ask[a].uses
      BY <1>2, <1>5, <2>4, SwapLeaves
    <3> QED
      BY <1>2, <1>5, <2>2, <3>1 DEF Saves, Swapping
  <2> QED
    BY <1>1, <1>2, <1>3, <1>5, <2>2, <2>3, <2>4, ModelGoesOn
<1>6. CASE Step(a) = "model"
  <2>1. Stores(a, "model", ask[a].uses)
    BY <1>6 DEF StoresField
  <2>2. /\ Rest(a, ask[a]) /\ history' \in Histories
        /\ saved' \in Savings
        /\ ~history'.missed => /\ ~history.missed /\ saved'.model = ask[a].uses
                              /\ saved'.provider = saved.provider
    BY <1>2, <2>1, StoresIs
  <2>3. ChoiceTyped'
    BY <1>1, <1>4, <2>2 DEF ChoiceTyped
  <2>4. ASSUME Leaves(a, ask[a]) PROVE Saves(a)'
    <3>1. Step(a)' = "base"
      BY <1>2, <1>6, <2>4, SwapLeaves
    <3> QED
      BY <1>2, <1>6, <2>2, <3>1 DEF Saves, Swapping
  <2> QED
    BY <1>1, <1>2, <1>3, <1>6, <2>2, <2>3, <2>4, ModelGoesOn
<1>7. CASE Step(a) = "base"
  <2>1. /\ Rest(a, ask[a]) /\ history' \in Histories
        /\ saved' \in Savings
        /\ saved'.file = saved.file /\ saved'.provider = saved.provider /\ saved'.model = saved.model
        /\ ~history'.missed => ~history.missed
    <3>1. CASE ask[a].uses \notin WithBase
      <4>1. Rest(a, ask[a]) /\ UNCHANGED <<saved, history>>
        BY <1>7, <3>1 DEF StoresField
      <4> QED
        BY <1>4, <4>1 DEF ChoiceTyped
    <3>2. CASE ask[a].uses \in WithBase
      <4>1. Stores(a, "base", ask[a].uses)
        BY <1>7, <3>2 DEF StoresField
      <4>2. CASE saved' = [saved EXCEPT !["base"] = ask[a].uses] /\ UNCHANGED history
        BY <1>4, <3>2, <4>1, <4>2 DEF ChoiceTyped, Savings, Stores
      <4>3. CASE UNCHANGED saved /\ history' = [history EXCEPT !.missed = TRUE]
        <5>1. history'.missed /\ history' \in Histories
          BY <1>4, <4>3 DEF ChoiceTyped, Histories
        <5> QED
          BY <1>4, <4>1, <4>3, <5>1 DEF ChoiceTyped, Stores
      <4> QED
        BY <4>1, <4>2, <4>3 DEF Stores
    <3> QED
      BY <3>1, <3>2
  <2>2. ChoiceTyped'
    BY <1>1, <1>4, <2>1 DEF ChoiceTyped
  <2>3. ASSUME Leaves(a, ask[a]) PROVE Saves(a)'
    <3>1. Step(a)' = "unlock"
      BY <1>2, <1>7, <2>3, SwapLeaves
    <3> QED
      BY <1>2, <1>7, <2>1, <3>1 DEF Saves, Swapping
  <2> QED
    BY <1>1, <1>2, <1>3, <1>7, <2>1, <2>2, <2>3, ModelGoesOn
<1> QED
  BY <1>1, <1>5, <1>6, <1>7

\* A request notes something and goes on with the same program.
LEMMA NotesGoesOn ==
  ASSUME ModelInv, NEW a \in Askers, Step(a) # "none", NEW job \in Jobs,
         ask' = [ask EXCEPT ![a] = job],
         job.todo = ask[a].todo, job.id = ask[a].id, job.uses = ask[a].uses,
         job.mine = ask[a].mine, job.seen = ask[a].seen,
         ChoiceTyped', UNCHANGED <<saved, holder, history>>
  PROVE  /\ ModelInv' /\ ask'[a] = job /\ Asking(a)' /\ Step(a)' = Step(a)
         /\ \A b \in Askers \ {a} : ask'[b] = ask[b]
<1>1. /\ Asking(a) /\ ask[a] \in Jobs /\ Equipped(a) /\ Swapping(a) /\ ask[a].todo # <<>>
      /\ ask \in [Askers -> Jobs \cup {NoRequest}] /\ TableTogether
  BY AskingIs DEF ModelInv, ModelTyped
<1>2. /\ ask' \in [Askers -> Jobs \cup {NoRequest}] /\ ask'[a] = job
      /\ \A b \in Askers \ {a} : ask'[b] = ask[b]
  BY <1>1
<1>3. Asking(a)' /\ Step(a)' = Step(a)
  BY <1>1, <1>2 DEF Asking, Step, NoRequest
<1>4. Equipped(a)' /\ Swapping(a)'
  <2>1. Equipped(a)'
    BY <1>1, <1>2 DEF Equipped
  <2>2. Swapping(a)'
    BY <1>1, <1>2, <1>3 DEF Swapping, Saves
  <2> QED
    BY <2>1, <2>2
<1>5. ASSUME NEW b \in Askers \ {a} PROVE Equipped(b)' /\ Swapping(b)'
  <2>1. Equipped(b) /\ Swapping(b) /\ ask'[b] = ask[b]
    BY <1>2 DEF ModelInv
  <2>2. Step(b)' = Step(b) /\ (Asking(b)' <=> Asking(b))
    BY <2>1 DEF Step, Asking
  <2>3. Equipped(b)'
    BY <2>1, <2>2 DEF Equipped
  <2>4. Swapping(b)'
    BY <2>1, <2>2 DEF Swapping, Saves
  <2> QED
    BY <2>3, <2>4
<1>6. TableTogether'
  BY <1>1 DEF TableTogether
<1> QED
  BY <1>2, <1>3, <1>4, <1>5, <1>6 DEF ModelInv, ModelTyped

\* What a step of the clearing does.
WritesCleared(a) ==
  /\ ask[a].next # Unset /\ ask[a].next \in Presets \X Record
  /\ preset' = [preset EXCEPT ![ask[a].next[1]] = ask[a].next[2]]
  /\ ask'[a] = [ask[a] EXCEPT !.next = Unset] /\ Asking(a)' /\ Step(a)' = "clear"
Cleared(a) ==
  ask[a].next = Unset /\ ask[a].ids = {} /\ Leaves(a, ask[a]) /\ UNCHANGED preset
ReadsToClear(a, p) ==
  /\ ask[a].next = Unset /\ p \in ask[a].ids /\ UNCHANGED preset
  /\ ask'[a] = [ask[a] EXCEPT !.ids = ask[a].ids \ {p},
                  !.next = IF preset[p] # NoPreset /\ preset[p].active
                           THEN <<p, [preset[p] EXCEPT !.active = FALSE]>> ELSE Unset]
  /\ Asking(a)' /\ Step(a)' = "clear"

LEMMA ClearsGoesOn ==
  ASSUME ModelInv, NEW a \in Askers, Clears1(a)
  PROVE  /\ ModelInv' /\ \A b \in Askers \ {a} : ask'[b] = ask[b]
         /\ WritesCleared(a) \/ Cleared(a) \/ \E p \in Presets : ReadsToClear(a, p)
<1> DEFINE job == ask[a]
<1>1. Step(a) = "clear" /\ UNCHANGED <<shelf, key, serving, saved, endpoint, holder, history>>
  BY DEF Clears1, Keeps
<1>2. job \in Jobs /\ ChoiceTyped
  BY <1>1, AskingIs DEF ModelInv, ModelTyped
<1>3. CASE job.next # Unset
  <2>1. /\ preset' = [preset EXCEPT ![job.next[1]] = job.next[2]]
        /\ ask' = [ask EXCEPT ![a] = [job EXCEPT !.next = Unset]]
    BY <1>3 DEF Clears1
  <2>2. job.next \in Presets \X Record
    BY <1>2, <1>3 DEF Jobs
  <2>3. preset' \in [Presets -> Record \cup {NoPreset}]
    BY <1>2, <2>1, <2>2 DEF ChoiceTyped
  <2>4. ChoiceTyped'
    BY <1>1, <1>2, <2>3 DEF ChoiceTyped
  <2> DEFINE new == [job EXCEPT !.next = Unset]
  <2>5. /\ new \in Jobs /\ new.todo = job.todo /\ new.id = job.id /\ new.uses = job.uses
        /\ new.mine = job.mine /\ new.seen = job.seen
    BY <1>2 DEF Jobs
  <2> HIDE DEF new
  <2>6. ask' = [ask EXCEPT ![a] = new]
    BY <2>1 DEF new
  <2>7. /\ ModelInv' /\ ask'[a] = new /\ Asking(a)' /\ Step(a)' = Step(a)
        /\ \A b \in Askers \ {a} : ask'[b] = ask[b]
    BY <1>1, <2>4, <2>5, <2>6, NotesGoesOn
  <2>8. WritesCleared(a)
    BY <1>1, <1>3, <2>1, <2>2, <2>7 DEF WritesCleared, new
  <2> QED
    BY <2>7, <2>8
<1>4. CASE job.next = Unset /\ job.ids = {}
  <2>1. UNCHANGED preset /\ Rest(a, job)
    BY <1>4 DEF Clears1
  <2>2. ChoiceTyped'
    BY <1>1, <1>2, <2>1 DEF ChoiceTyped
  <2>3. ModelInv' /\ Leaves(a, ask[a]) /\ \A b \in Askers \ {a} : ask'[b] = ask[b]
    BY <1>1, <2>1, <2>2, OwnJobGoesOn
  <2> QED
    BY <1>4, <2>1, <2>3 DEF Cleared
<1>5. CASE job.next = Unset /\ job.ids # {}
  <2>1. PICK p \in job.ids :
          ask' = [ask EXCEPT ![a] = [job EXCEPT
            !.ids = @ \ {p},
            !.next = IF preset[p] # NoPreset /\ preset[p].active
                     THEN <<p, [preset[p] EXCEPT !.active = FALSE]>> ELSE Unset]]
    BY <1>5 DEF Clears1
  <2>2. UNCHANGED preset
    BY <1>5 DEF Clears1
  <2>3. p \in Presets /\ job.ids \ {p} \in SUBSET Presets
    BY <1>2 DEF Jobs
  <2> DEFINE next == IF preset[p] # NoPreset /\ preset[p].active
                     THEN <<p, [preset[p] EXCEPT !.active = FALSE]>> ELSE Unset
             new == [job EXCEPT !.ids = job.ids \ {p}, !.next = next]
  <2>4. next \in {Unset} \cup (Presets \X Record)
    <3>1. CASE preset[p] # NoPreset
      <4>1. preset[p] \in Record
        BY <1>2, <2>3, <3>1 DEF ChoiceTyped
      <4>2. [preset[p] EXCEPT !.active = FALSE] \in Record
        BY <4>1 DEF Record
      <4> QED
        BY <2>3, <4>2
    <3>2. CASE preset[p] = NoPreset
      BY <3>2
    <3> QED
      BY <3>1, <3>2
  <2>5. ask' = [ask EXCEPT ![a] = new]
    BY <2>1
  <2> HIDE DEF next
  <2>6. /\ new \in Jobs /\ new.todo = job.todo /\ new.id = job.id /\ new.uses = job.uses
        /\ new.mine = job.mine /\ new.seen = job.seen
    BY <1>2, <2>3, <2>4 DEF Jobs
  <2> HIDE DEF new
  <2>7. ChoiceTyped'
    BY <1>1, <1>2, <2>2 DEF ChoiceTyped
  <2>8. /\ ModelInv' /\ ask'[a] = new /\ Asking(a)' /\ Step(a)' = Step(a)
        /\ \A b \in Askers \ {a} : ask'[b] = ask[b]
    BY <1>1, <2>5, <2>6, <2>7, NotesGoesOn
  <2>9. ReadsToClear(a, p)
    BY <1>1, <1>5, <2>2, <2>8 DEF ReadsToClear, new, next
  <2> QED
    BY <2>3, <2>8, <2>9
<1> QED
  BY <1>3, <1>4, <1>5

\* A request ends before its time.
LEMMA DropsGoesOn ==
  ASSUME ModelInv, NEW a \in Askers, Step(a) # "none", Step(a) \notin InSwap, Drops(a),
         ChoiceTyped', UNCHANGED <<saved, holder>>, ~history'.missed => ~history.missed
  PROVE  /\ ModelInv' /\ \A b \in Askers \ {a} : ask'[b] = ask[b]
         /\ \/ ask'[a] = NoRequest /\ ~Asking(a)' /\ Step(a)' = "none"
            \/ /\ Asking(a)' /\ Step(a)' = "started" /\ ask'[a].id = ask[a].id
               /\ \A x : Has(ask'[a].todo, x) <=> x = "started"
<1>1. /\ Asking(a) /\ ask[a] \in Jobs /\ holder # a
      /\ ask \in [Askers -> Jobs \cup {NoRequest}] /\ TableTogether
  BY AskingIs DEF ModelInv, ModelTyped, Swapping
<1>2. /\ Linked(<<"started">>) /\ Ordered(<<"started">>)
      /\ \A x : Has(<<"started">>, x) <=> x = "started"
  BY SingleStep DEF ModelSteps
<1>3. <<"started">> \in Seq(ModelSteps) /\ <<"started">> # <<>> /\ Head(<<"started">>) = "started"
  BY DEF ModelSteps
<1>4. Chained(<<"started">>, ModelSteps, ModelPairs, ModelEnds)
  <2>1. Len(<<"started">>) = 1 /\ <<"started">>[1] = "started"
    OBVIOUS
  <2> QED
    BY <1>2, <1>3, <2>1 DEF Linked, Chained, ModelEnds
<1> DEFINE left == [ask[a] EXCEPT !.todo = <<"started">>]
<1>5. left \in Jobs /\ left.todo = <<"started">> /\ left.id = ask[a].id
  BY <1>1, <1>3 DEF Jobs
<1>6. ask' = [ask EXCEPT ![a] = left] \/ ask' = [ask EXCEPT ![a] = NoRequest]
  BY DEF Drops
<1> HIDE DEF left
<1>7. /\ ask' \in [Askers -> Jobs \cup {NoRequest}] /\ \A b \in Askers \ {a} : ask'[b] = ask[b]
      /\ ask'[a] \in {left, NoRequest}
  BY <1>1, <1>5, <1>6
<1>8. \/ ask'[a] = NoRequest /\ ~Asking(a)' /\ Step(a)' = "none"
      \/ /\ Asking(a)' /\ Step(a)' = "started" /\ ask'[a] = left
  <2>1. CASE ask'[a] = NoRequest
    BY <2>1 DEF Asking, Step
  <2>2. CASE ask'[a] = left
    BY <1>3, <1>5, <2>2 DEF Asking, Step, NoRequest
  <2> QED
    BY <1>7, <2>1, <2>2
<1>9. Equipped(a)'
  <2>1. CASE ~Asking(a)'
    BY <2>1 DEF Equipped
  <2>2. CASE Asking(a)'
    <3>1. ask'[a].todo = <<"started">>
      BY <1>5, <1>8, <2>2
    <3>2. /\ ~Has(<<"started">>, "base") /\ ~Has(<<"started">>, "write") /\ ~Has(<<"started">>, "flag")
          /\ \A step \in OfPreset : ~Has(<<"started">>, step)
      BY <1>2 DEF OfPreset
    <3>3. ~Flags(<<"started">>)
      BY <3>2 DEF Flags, Has
    <3> QED
      BY <1>2, <1>4, <3>1, <3>2, <3>3 DEF Equipped
  <2> QED
    BY <2>1, <2>2
<1>10. Swapping(a)'
  BY <1>1, <1>8 DEF Swapping, Saves, InSwap
<1>11. ASSUME NEW b \in Askers \ {a} PROVE Equipped(b)' /\ Swapping(b)'
  <2>1. Equipped(b) /\ Swapping(b) /\ ask'[b] = ask[b]
    BY <1>7 DEF ModelInv
  <2>2. Step(b)' = Step(b) /\ (Asking(b)' <=> Asking(b))
    BY <2>1 DEF Step, Asking
  <2>3. Equipped(b)'
    BY <2>1, <2>2 DEF Equipped
  <2>4. Swapping(b)'
    BY <2>1, <2>2 DEF Swapping, Saves
  <2> QED
    BY <2>3, <2>4
<1>12. TableTogether'
  BY <1>1 DEF TableTogether
<1> QED
  BY <1>2, <1>5, <1>7, <1>8, <1>9, <1>10, <1>11, <1>12 DEF ModelInv, ModelTyped

LEMMA LooksGoesOn ==
  ASSUME ModelInv, NEW a \in Askers, Looks(a), preset[ask[a].id] = NoPreset
  PROVE  /\ ModelInv' /\ \A b \in Askers \ {a} : ask'[b] = ask[b]
         /\ UNCHANGED <<preset, shelf, key, serving, saved, endpoint, holder, history>>
         /\ \/ ask'[a] = NoRequest /\ ~Asking(a)' /\ Step(a)' = "none"
            \/ /\ Asking(a)' /\ Step(a)' = "started" /\ ask'[a].id = ask[a].id
               /\ \A x : Has(ask'[a].todo, x) <=> x = "started"
<1>1. /\ Step(a) = "check" /\ Drops(a)
      /\ UNCHANGED <<preset, shelf, key, serving, saved, endpoint, holder, history>>
  BY DEF Looks, Keeps
<1>2. ChoiceTyped'
  BY <1>1 DEF ModelInv, ModelTyped, ChoiceTyped
<1>3. Step(a) \notin InSwap
  BY <1>1 DEF InSwap
<1> QED
  BY <1>1, <1>2, <1>3, DropsGoesOn

LEMMA FailsGoesOn ==
  ASSUME ModelInv, NEW a \in Askers, PresetRequestFails(a)
  PROVE  /\ ModelInv' /\ \A b \in Askers \ {a} : ask'[b] = ask[b]
         /\ history'.missed /\ history'.met = history.met
         /\ UNCHANGED <<shelf, key, serving, saved, endpoint, holder>>
         /\ preset' = preset \/ \E p \in Presets : preset' = [preset EXCEPT ![p] = NoPreset]
         /\ \/ ask'[a] = NoRequest /\ ~Asking(a)' /\ Step(a)' = "none"
            \/ /\ Asking(a)' /\ Step(a)' = "started" /\ ask'[a].id = ask[a].id
               /\ \A x : Has(ask'[a].todo, x) <=> x = "started"
<1>1. /\ Asking(a) /\ Drops(a) /\ UNCHANGED <<shelf, key, serving, saved, endpoint, holder>>
      /\ preset' = IF ask[a].id = Unset \/ Told(ask[a].id) THEN preset
                   ELSE [preset EXCEPT ![ask[a].id] = NoPreset]
      /\ history' = [history EXCEPT !.missed = TRUE]
  BY DEF PresetRequestFails
<1>2. Step(a) \notin InSwap
  BY DEF PresetRequestFails, InSwap
<1>3. /\ ask[a] \in Jobs /\ Equipped(a) /\ ChoiceTyped
      /\ history \in Histories
      /\ preset \in [Presets -> Record \cup {NoPreset}]
  BY <1>1 DEF ModelInv, ModelTyped, ChoiceTyped, Asking
<1>4. Step(a) # "none"
  <2>1. ask[a].todo # <<>> /\ Chained(ask[a].todo, ModelSteps, ModelPairs, ModelEnds)
    BY <1>1, <1>3 DEF Equipped, Chained
  <2>2. Head(ask[a].todo) \in ModelSteps
    BY <2>1, ChainedRest
  <2> QED
    BY <1>1, <2>2 DEF Step, ModelSteps
<1>5. ask[a].id \in Presets \cup {Unset}
  BY <1>3 DEF Jobs
<1>6. preset' = preset \/ \E p \in Presets : preset' = [preset EXCEPT ![p] = NoPreset]
  BY <1>1, <1>5
<1>7. /\ preset' \in [Presets -> Record \cup {NoPreset}]
      /\ history' \in Histories
      /\ history'.missed /\ history'.met = history.met
  BY <1>1, <1>3, <1>6 DEF Histories
<1>8. ChoiceTyped'
  BY <1>1, <1>3, <1>7 DEF ChoiceTyped
<1> QED
  BY <1>1, <1>2, <1>4, <1>6, <1>7, <1>8, DropsGoesOn

\* A request as it begins: its program, with what it needs and what it was told from.
Fresh(job) ==
  /\ job \in Jobs /\ Program(job.todo) /\ job.next = Unset
  /\ Head(job.todo) \in {"check", "write", "erase", "swap", "endpoint", "started"}
  /\ Has(job.todo, "base") => job.uses \in Settings
  /\ Has(job.todo, "write") => job.mine \in Record
  /\ \A step \in OfPreset : Has(job.todo, step) => job.id \in Presets
  /\ Has(job.todo, "enlist") => Has(job.todo, "write") /\ ~job.mine.active
  /\ ~Has(job.todo, "enlist") =>
       /\ Has(job.todo, "write") => preset[job.id] # NoPreset /\ (job.mine.active => preset[job.id].active)
       /\ Has(job.todo, "flag") => preset[job.id] # NoPreset
  /\ Has(job.todo, "delist") => Has(job.todo, "erase")
  /\ Has(job.todo, "unkey") =>
       Has(job.todo, "erase") /\ preset[job.id] # NoPreset /\ preset[job.id].active

LEMMA FreshIsReady ==
  ASSUME NEW job, Fresh(job)
  PROVE  /\ job # NoRequest /\ Chained(job.todo, ModelSteps, ModelPairs, ModelEnds) /\ Ordered(job.todo)
         /\ ~Flags(job.todo) /\ Head(job.todo) \notin InSwap
<1>1. /\ Chained(job.todo, ModelSteps, ModelPairs, ModelEnds) /\ Ordered(job.todo) /\ ~Flags(job.todo)
      /\ Head(job.todo) \in {"check", "write", "erase", "swap", "endpoint", "started"}
  BY DEF Fresh, Program
<1>2. job.todo # <<>>
  BY <1>1 DEF Chained
<1> QED
  BY <1>1, <1>2 DEF NoRequest, InSwap

LEMMA BeginsGoesOn ==
  ASSUME ModelInv, NEW a \in Askers, NEW job, Fresh(job), Begins(a, job)
  PROVE  /\ ModelInv' /\ ask'[a] = job /\ Asking(a)' /\ Step(a)' = Head(job.todo)
         /\ \A b \in Askers \ {a} : ask'[b] = ask[b]
         /\ UNCHANGED <<preset, shelf, key, serving, saved, endpoint, holder>>
         /\ history'.missed = history.missed
         /\ ~history'.met => ~history.met /\ \A b \in Askers : ~Asking(b)
<1>1. /\ ~Asking(a) /\ ask' = [ask EXCEPT ![a] = job]
      /\ UNCHANGED <<preset, shelf, key, serving, saved, endpoint, holder>>
  BY DEF Begins
<1>2. /\ ModelTyped /\ ChoiceTyped /\ TableTogether /\ ask \in [Askers -> Jobs \cup {NoRequest}]
      /\ history \in Histories
  BY DEF ModelInv, ModelTyped, ChoiceTyped
<1>3. /\ history' \in Histories
      /\ history'.missed = history.missed
      /\ ~history'.met => ~history.met /\ \A b \in Askers : ~Asking(b)
  <2>1. PICK met \in BOOLEAN : met = (history.met \/ \E b \in Askers : Asking(b))
    OBVIOUS
  <2>5. PICK crossed \in BOOLEAN : crossed = (history.crossed \/ \E b \in Askers : Rereading(b))
    OBVIOUS
  <2>2. history' = [history EXCEPT !.count = history.count + 1, !.met = met, !.crossed = crossed]
    BY <2>1, <2>5 DEF Begins
  <2>3. /\ history' \in Histories
        /\ history'.missed = history.missed /\ history'.met = met
    <3>1. met \in BOOLEAN /\ crossed \in BOOLEAN
      BY <2>1, <2>5
    <3>2. history' = [count |-> history.count + 1, met |-> met, missed |-> history.missed,
                      crossed |-> crossed]
      BY <1>2, <2>2, <3>1 DEF Histories
    <3> QED
      BY <1>2, <3>1, <3>2 DEF Histories
  <2>4. ~met => ~history.met /\ \A b \in Askers : ~Asking(b)
    BY <2>1
  <2> QED
    BY <2>3, <2>4
<1>4. /\ job \in Jobs /\ job # NoRequest /\ Chained(job.todo, ModelSteps, ModelPairs, ModelEnds)
      /\ Ordered(job.todo) /\ ~Flags(job.todo) /\ Head(job.todo) \notin InSwap
  BY FreshIsReady DEF Fresh
<1>5. /\ ask' \in [Askers -> Jobs \cup {NoRequest}] /\ ask'[a] = job
      /\ \A b \in Askers \ {a} : ask'[b] = ask[b]
  BY <1>1, <1>2, <1>4
<1>6. Asking(a)' /\ Step(a)' = Head(job.todo) /\ Step(a) = "none"
  BY <1>1, <1>4, <1>5 DEF Asking, Step
<1>7. Equipped(a)'
  BY <1>4, <1>5 DEF Equipped, Fresh
<1>8. Swapping(a)'
  <2>1. Swapping(a) /\ holder' = holder
    BY <1>1 DEF ModelInv
  <2> QED
    BY <1>4, <1>6, <2>1 DEF Swapping, Saves, InSwap
<1>9. ASSUME NEW b \in Askers \ {a} PROVE Equipped(b)' /\ Swapping(b)'
  <2>1. Equipped(b) /\ Swapping(b) /\ ask'[b] = ask[b]
    BY <1>5 DEF ModelInv
  <2>2. Step(b)' = Step(b) /\ (Asking(b)' <=> Asking(b))
    BY <2>1 DEF Step, Asking
  <2>3. Equipped(b)'
    BY <2>1, <2>2 DEF Equipped
  <2>4. Swapping(b)'
    BY <1>1, <1>3, <2>1, <2>2 DEF Swapping, Saves
  <2> QED
    BY <2>3, <2>4
<1>10. TableTogether'
  BY <1>1, <1>2, <1>3 DEF TableTogether
<1>11. ModelTyped'
  BY <1>1, <1>2, <1>3, <1>5 DEF ModelTyped, ChoiceTyped
<1> QED
  BY <1>1, <1>3, <1>5, <1>6, <1>7, <1>8, <1>9, <1>10, <1>11 DEF ModelInv

\* Two parts make a program when what the second is asked to do may follow the first.
LEMMA ProgramConcat ==
  ASSUME NEW p, NEW q, Linked(p), Linked(q), <<p[Len(p)], q[1]>> \in ModelPairs, q[Len(q)] \in ModelEnds,
         Ordered(p), Ordered(q), ~Flags(p), ~Flags(q),
         \A x, y : Has(p, x) /\ Has(q, y) => MayPrecede(x, y)
  PROVE  /\ Program(p \o q) /\ Head(p \o q) = p[1]
         /\ \A x : Has(p \o q, x) <=> Has(p, x) \/ Has(q, x)
<1>1. /\ Linked(p \o q) /\ (p \o q)[1] = p[1] /\ (p \o q)[Len(p \o q)] = q[Len(q)]
      /\ \A x : Has(p \o q, x) <=> Has(p, x) \/ Has(q, x)
  BY LinkedConcat
<1>2. p \in Seq(ModelSteps) /\ q \in Seq(ModelSteps)
  BY DEF Linked, Chained
<1>3. Ordered(p \o q)
  BY <1>2, OrderedConcat
<1>4. ~Flags(p \o q)
  BY <1>2, FlagsConcat
<1> DEFINE r == p \o q
<1>5. Linked(r) /\ r[1] = p[1] /\ r[Len(r)] = q[Len(q)] /\ Ordered(r) /\ ~Flags(r)
  BY <1>1, <1>3, <1>4
<1> HIDE DEF r
<1>6. Chained(r, ModelSteps, ModelPairs, ModelEnds)
  BY <1>5 DEF Linked, Chained
<1>7. Head(r) = p[1]
  BY <1>5, <1>6, ChainedRest
<1> QED
  BY <1>1, <1>5, <1>6, <1>7 DEF Program, r

LEMMA LinkedIsProgram ==
  ASSUME NEW p, Linked(p), p[Len(p)] \in ModelEnds, Ordered(p), ~Flags(p)
  PROVE  Program(p) /\ Head(p) = p[1]
<1>1. Chained(p, ModelSteps, ModelPairs, ModelEnds)
  BY DEF Linked, Chained
<1> QED
  BY <1>1, ChainedRest DEF Program

LEMMA NoFlags ==
  ASSUME NEW p, ~Has(p, "flag")
  PROVE  ~Flags(p)
BY DEF Flags, Has

LEMMA PlainPrecedes ==
  ASSUME NEW p, NEW q, ~Has(p, "delist"), ~Has(p, "enlist") \/ ~Has(q, "write"),
         \A y : Has(q, y) => y \notin {"enlist", "erase", "delist", "unkey"}
  PROVE  \A x, y : Has(p, x) /\ Has(q, y) => MayPrecede(x, y)
BY DEF MayPrecede

\* What follows a creation, an update or the start itself, or nothing.
LEMMA CreationIsProgram ==
  ASSUME NEW activate \in BOOLEAN, NEW prog,
         prog = Creation3 \o IF activate THEN Activation ELSE <<>>
  PROVE  /\ Program(prog) /\ Head(prog) = "write" /\ Has(prog, "write") /\ Has(prog, "enlist")
         /\ \A x : Has(prog, x) => x \in {"write", "list", "enlist"} \cup ActivationSteps
<1>1. ~Flags(Creation3) /\ Creation3 \in Seq(ModelSteps)
  BY CreationIsChained, NoFlags DEF Linked, Chained
<1>w. Has(Creation3, "write")
  <2>1. Chained(Creation3, ModelSteps, ModelPairs, ModelSteps) /\ Creation3[1] = "write"
    BY CreationIsChained DEF Linked
  <2>2. Head(Creation3) = Creation3[1] /\ Has(Creation3, Head(Creation3))
    BY <2>1, ChainedRest
  <2> QED
    BY <2>1, <2>2
<1>2. CASE activate
  <2>1. <<"enlist", "check">> \in ModelPairs /\ "key" \in ModelEnds
    BY DEF ModelPairs, ModelEnds
  <2>2. <<Creation3[Len(Creation3)], Activation[1]>> \in ModelPairs
        /\ Activation[Len(Activation)] \in ModelEnds
    BY <2>1, CreationIsChained, ActivationIsProgram
  <2>3. \A x, y : Has(Creation3, x) /\ Has(Activation, y) => MayPrecede(x, y)
    <3>1. ~Has(Creation3, "delist")
      BY CreationIsChained
    <3>2. /\ \A y : Has(Activation, y) => y \notin {"enlist", "erase", "delist", "unkey"}
          /\ ~Has(Activation, "write")
      <4>1. \A y : Has(Activation, y) => y \in ActivationSteps
        BY ActivationIsProgram
      <4>2. "write" \notin ActivationSteps
        BY DEF ActivationSteps
      <4>3. \A y : Has(Activation, y) => y \notin {"enlist", "erase", "delist", "unkey"}
        BY <4>1 DEF ActivationSteps
      <4> QED
        BY <4>1, <4>2, <4>3
    <3> QED
      BY <3>1, <3>2, PlainPrecedes
  <2>4. /\ Program(Creation3 \o Activation) /\ Head(Creation3 \o Activation) = Creation3[1]
        /\ \A x : Has(Creation3 \o Activation, x) <=> Has(Creation3, x) \/ Has(Activation, x)
    <3>1. Linked(Creation3) /\ Ordered(Creation3)
      BY CreationIsChained
    <3>2. Linked(Activation) /\ Ordered(Activation) /\ ~Flags(Activation)
      BY ActivationIsProgram
    <3> QED
      BY <1>1, <2>2, <2>3, <3>1, <3>2, ProgramConcat
  <2>5. prog = Creation3 \o Activation
    BY <1>2
  <2> QED
    BY <1>w, <2>4, <2>5, CreationIsChained, ActivationIsProgram
<1>3. CASE ~activate
  <2>1. prog = Creation3
    BY <1>1, <1>3, ConcatEmptySeq
  <2>2. Program(Creation3) /\ Head(Creation3) = "write"
    BY <1>1, CreationIsChained, LinkedIsProgram DEF ModelEnds
  <2> QED
    BY <1>w, <2>1, <2>2, CreationIsChained
<1> QED
  BY <1>2, <1>3

LEMMA DeletionIsProgram ==
  ASSUME NEW marked \in BOOLEAN, NEW prog,
         prog = Deletion3 \o IF marked THEN <<"unkey">> ELSE <<>>
  PROVE  /\ Program(prog) /\ Head(prog) = "erase" /\ Has(prog, "erase")
         /\ Has(prog, "unkey") => marked
         /\ \A x : Has(prog, x) => x \in {"erase", "list", "delist", "unkey"}
<1>1. ~Flags(Deletion3) /\ Deletion3 \in Seq(ModelSteps)
  BY DeletionIsChained, NoFlags DEF Linked, Chained
<1>2. CASE marked
  <2>1. <<"delist", "unkey">> \in ModelPairs /\ "unkey" \in ModelEnds /\ "unkey" \in ModelSteps
    BY DEF ModelPairs, ModelEnds, ModelSteps
  <2> DEFINE last == <<"unkey">>
  <2>2. /\ Linked(last) /\ last[1] = "unkey" /\ last[Len(last)] = "unkey"
        /\ (\A x : Has(last, x) <=> x = "unkey") /\ Ordered(last)
    BY <2>1, SingleStep
  <2>3. prog = Deletion3 \o last
    BY <1>2
  <2> HIDE DEF last
  <2>4. ~Flags(last)
    BY <2>2, NoFlags
  <2>5. \A x, y : Has(Deletion3, x) /\ Has(last, y) => MayPrecede(x, y)
    BY <2>2, DeletionIsChained DEF MayPrecede, Removing
  <2>6. /\ Program(Deletion3 \o last) /\ Head(Deletion3 \o last) = Deletion3[1]
        /\ \A x : Has(Deletion3 \o last, x) <=> Has(Deletion3, x) \/ Has(last, x)
    <3>1. Linked(Deletion3) /\ Ordered(Deletion3) /\ Deletion3[Len(Deletion3)] = "delist"
      BY DeletionIsChained
    <3> QED
      BY <1>1, <2>1, <2>2, <2>4, <2>5, <3>1, ProgramConcat
  <2> QED
    BY <1>2, <2>2, <2>3, <2>6, DeletionIsChained
<1>3. CASE ~marked
  <2>1. prog = Deletion3
    BY <1>1, <1>3, ConcatEmptySeq
  <2>2. Program(Deletion3) /\ Head(Deletion3) = "erase"
    BY <1>1, DeletionIsChained, LinkedIsProgram DEF ModelEnds
  <2>3. Has(prog, "erase") /\ \A x : Has(prog, x) => x \in {"erase", "list", "delist"}
    BY <2>1, DeletionIsChained
  <2>4. ~Has(prog, "unkey")
    BY <2>3
  <2> QED
    BY <2>1, <2>2, <2>3, <2>4
<1> QED
  BY <1>2, <1>3

LEMMA UpdateIsProgram ==
  ASSUME NEW first \in BOOLEAN, NEW last \in BOOLEAN, NEW prog,
         prog = (IF first THEN Activation ELSE <<>>) \o <<"write">>
                  \o (IF last THEN Activation ELSE <<>>)
  PROVE  /\ Program(prog) /\ Head(prog) \in {"check", "write"}
         /\ \A x : Has(prog, x) => x \in {"write"} \cup ActivationSteps
<1> DEFINE mid == <<"write">>
           part == (IF first THEN Activation ELSE <<>>) \o mid
<1>1. /\ Linked(mid) /\ mid[1] = "write" /\ mid[Len(mid)] = "write"
      /\ (\A x : Has(mid, x) <=> x = "write") /\ Ordered(mid) /\ mid \in Seq(ModelSteps)
  BY SingleStep DEF ModelSteps, Linked, Chained
<1>2. /\ <<"key", "write">> \in ModelPairs /\ <<"write", "check">> \in ModelPairs
      /\ "write" \in ModelEnds /\ "key" \in ModelEnds
  BY DEF ModelPairs, ModelEnds
<1>3. prog = part \o (IF last THEN Activation ELSE <<>>)
  OBVIOUS
<1> HIDE DEF mid
<1>4. ~Flags(mid)
  BY <1>1, NoFlags
<1>5. \A y : Has(Activation, y) => y \notin {"enlist", "erase", "delist", "unkey"}
  BY ActivationIsProgram DEF ActivationSteps
<1>6. /\ Linked(part) /\ part[Len(part)] = "write" /\ part[1] \in {"check", "write"}
      /\ Ordered(part) /\ ~Flags(part) /\ part \in Seq(ModelSteps)
      /\ \A x : Has(part, x) => x \in {"write"} \cup ActivationSteps
  <2>1. CASE first
    <3>1. part = Activation \o mid
      BY <2>1
    <3>2. <<Activation[Len(Activation)], mid[1]>> \in ModelPairs
      BY <1>1, <1>2, ActivationIsProgram
    <3>3. /\ Linked(Activation \o mid) /\ (Activation \o mid)[1] = Activation[1]
          /\ (Activation \o mid)[Len(Activation \o mid)] = mid[Len(mid)]
          /\ \A x : Has(Activation \o mid, x) <=> Has(Activation, x) \/ Has(mid, x)
      BY <1>1, <3>2, ActivationIsProgram, LinkedConcat
    <3>4. Activation \in Seq(ModelSteps)
      BY ActivationIsProgram DEF Linked, Chained
    <3>5. ~Flags(Activation \o mid)
      BY <1>1, <1>4, <3>4, ActivationIsProgram, FlagsConcat
    <3>6. \A x : Has(Activation \o mid, x) => x \in {"write"} \cup ActivationSteps
      BY <1>1, <3>3, ActivationIsProgram
    <3>7. Ordered(Activation \o mid)
      BY <3>6, PlainIsOrdered DEF ActivationSteps
    <3> QED
      BY <1>1, <3>1, <3>3, <3>5, <3>6, <3>7, ActivationIsProgram DEF Linked, Chained
  <2>2. CASE ~first
    <3>1. part = mid
      BY <1>1, <2>2, ConcatEmptySeq
    <3> QED
      BY <1>1, <1>4, <3>1
  <2> QED
    BY <2>1, <2>2
<1> HIDE DEF part
<1>7. CASE last
  <2>1. prog = part \o Activation
    BY <1>3, <1>7
  <2>2. \A x, y : Has(part, x) /\ Has(Activation, y) => MayPrecede(x, y)
    <3>1. ~Has(part, "delist") /\ ~Has(part, "enlist")
      BY <1>6 DEF ActivationSteps
    <3> QED
      BY <1>5, <3>1, PlainPrecedes
  <2>3. /\ Program(part \o Activation) /\ Head(part \o Activation) = part[1]
        /\ \A x : Has(part \o Activation, x) <=> Has(part, x) \/ Has(Activation, x)
    <3>1. Linked(Activation) /\ Ordered(Activation) /\ ~Flags(Activation)
          /\ Activation[1] = "check" /\ Activation[Len(Activation)] = "key"
      BY ActivationIsProgram
    <3> QED
      BY <1>2, <1>6, <2>2, <3>1, ProgramConcat
  <2> QED
    BY <1>6, <2>1, <2>3, ActivationIsProgram
<1>8. CASE ~last
  <2>1. prog = part
    BY <1>3, <1>6, <1>8, ConcatEmptySeq
  <2>2. Program(part) /\ Head(part) = part[1]
    BY <1>2, <1>6, LinkedIsProgram
  <2> QED
    BY <1>6, <2>1, <2>2
<1> QED
  BY <1>7, <1>8

LEMMA StartIsProgram ==
  ASSUME NEW restores \in BOOLEAN, NEW prog,
         prog = (IF restores THEN Activation ELSE <<>>) \o <<"started">>
  PROVE  /\ Program(prog) /\ Head(prog) \in {"check", "started"}
         /\ \A x : Has(prog, x) => x = "started" \/ (restores /\ x \in ActivationSteps)
<1> DEFINE last == <<"started">>
<1>1. /\ Linked(last) /\ last[1] = "started" /\ last[Len(last)] = "started"
      /\ (\A x : Has(last, x) <=> x = "started") /\ Ordered(last) /\ last \in Seq(ModelSteps)
  BY SingleStep DEF ModelSteps, Linked, Chained
<1>2. <<"key", "started">> \in ModelPairs /\ "started" \in ModelEnds
  BY DEF ModelPairs, ModelEnds
<1>3. prog = (IF restores THEN Activation ELSE <<>>) \o last
  OBVIOUS
<1> HIDE DEF last
<1>4. ~Flags(last)
  BY <1>1, NoFlags
<1>5. CASE restores
  <2>1. prog = Activation \o last
    BY <1>3, <1>5
  <2>2. \A x, y : Has(Activation, x) /\ Has(last, y) => MayPrecede(x, y)
    BY <1>1, PlainPrecedes, ActivationIsProgram DEF ActivationSteps
  <2>3. /\ Program(Activation \o last) /\ Head(Activation \o last) = Activation[1]
        /\ \A x : Has(Activation \o last, x) <=> Has(Activation, x) \/ Has(last, x)
    <3>1. Linked(Activation) /\ Ordered(Activation) /\ ~Flags(Activation)
          /\ Activation[1] = "check" /\ Activation[Len(Activation)] = "key"
      BY ActivationIsProgram
    <3> QED
      BY <1>1, <1>2, <1>4, <2>2, <3>1, ProgramConcat
  <2> QED
    BY <1>1, <1>5, <2>1, <2>3, ActivationIsProgram
<1>6. CASE ~restores
  <2>1. prog = last
    BY <1>1, <1>3, <1>6, ConcatEmptySeq
  <2>2. Program(last) /\ Head(last) = "started"
    BY <1>1, <1>2, <1>4, LinkedIsProgram
  <2> QED
    BY <1>1, <2>1, <2>2
<1> QED
  BY <1>5, <1>6

LEMMA SwapIsProgram ==
  ASSUME NEW prog, prog = Swap \/ prog = <<"endpoint">> \o Swap
  PROVE  /\ Program(prog) /\ Head(prog) \in {"swap", "endpoint"}
         /\ \A x : Has(prog, x) =>
              x \in {"endpoint", "swap", "provider", "model", "base", "unlock"}
<1>1. Ordered(Swap) /\ ~Flags(Swap) /\ Swap[Len(Swap)] \in ModelEnds
  BY SwapIsChained, PlainIsOrdered, NoFlags DEF ModelEnds
<1>2. CASE prog = Swap
  BY <1>1, <1>2, SwapIsChained, LinkedIsProgram
<1>3. CASE prog = <<"endpoint">> \o Swap
  <2> DEFINE first == <<"endpoint">>
  <2>1. /\ Linked(first) /\ first[1] = "endpoint" /\ first[Len(first)] = "endpoint"
        /\ (\A x : Has(first, x) <=> x = "endpoint") /\ Ordered(first)
    BY SingleStep DEF ModelSteps
  <2>2. prog = first \o Swap
    BY <1>3
  <2> HIDE DEF first
  <2>3. <<"endpoint", "swap">> \in ModelPairs
    BY DEF ModelPairs
  <2>4. ~Flags(first)
    BY <2>1, NoFlags
  <2>5. \A x, y : Has(first, x) /\ Has(Swap, y) => MayPrecede(x, y)
    BY <2>1, PlainPrecedes, SwapIsChained
  <2>6. /\ Program(first \o Swap) /\ Head(first \o Swap) = first[1]
        /\ \A x : Has(first \o Swap, x) <=> Has(first, x) \/ Has(Swap, x)
    <3>1. Linked(Swap) /\ Swap[1] = "swap"
      BY SwapIsChained
    <3> QED
      BY <1>1, <2>1, <2>3, <2>4, <2>5, <3>1, ProgramConcat
  <2> QED
    BY <2>1, <2>2, <2>6, SwapIsChained
<1> QED
  BY <1>2, <1>3

LEMMA JobIs ==
  ASSUME NEW todo \in Seq(ModelSteps), NEW id \in Presets \cup {Unset}, NEW uses \in Settings,
         NEW mine \in Record \cup {NoPreset}, NEW job,
         job = [todo |-> todo, id |-> id, uses |-> uses, mine |-> mine, seen |-> NoPreset,
                ids |-> {}, next |-> Unset]
  PROVE  /\ job \in Jobs /\ job.todo = todo /\ job.id = id /\ job.uses = uses /\ job.mine = mine
         /\ job.next = Unset
BY DEF Jobs

LEMMA PlainJobIs ==
  ASSUME NEW todo \in Seq(ModelSteps), NEW id \in Presets \cup {Unset}, NEW uses \in Settings, NEW job,
         job = Job(todo, id, uses)
  PROVE  /\ job \in Jobs /\ job.todo = todo /\ job.id = id /\ job.uses = uses /\ job.next = Unset
<1>1. job = [todo |-> todo, id |-> id, uses |-> uses, mine |-> NoPreset, seen |-> NoPreset,
             ids |-> {}, next |-> Unset]
  BY DEF Job
<1> QED
  BY <1>1 DEF Jobs

LEMMA ProgramIsSeq == \A prog : Program(prog) => prog \in Seq(ModelSteps)
BY DEF Program, Chained

LEMMA CreatesFresh ==
  ASSUME ModelInv, NEW a \in Askers, NEW p \in Presets, NEW uses \in Settings, NEW activate \in BOOLEAN,
         CreatePreset(a, p, uses, activate)
  PROVE  \E job : Fresh(job) /\ Begins(a, job)
<1> DEFINE prog == Creation3 \o IF activate THEN Activation ELSE <<>>
           mine == [uses |-> uses, active |-> FALSE]
           job == [Job(prog, p, uses) EXCEPT !.mine = mine]
<1>1. Begins(a, job)
  BY DEF CreatePreset, Creation3
<1>2. /\ Program(prog) /\ Head(prog) = "write" /\ Has(prog, "write") /\ Has(prog, "enlist")
      /\ \A x : Has(prog, x) => x \in {"write", "list", "enlist"} \cup ActivationSteps
  BY CreationIsProgram
<1>3. prog \in Seq(ModelSteps)
  BY <1>2, ProgramIsSeq
<1> HIDE DEF prog
<1>4. mine \in Record /\ ~mine.active
  BY DEF Record
<1> HIDE DEF mine
<1>5. /\ job \in Jobs /\ job.todo = prog /\ job.id = p /\ job.uses = uses /\ job.mine = mine
      /\ job.next = Unset
  <2>1. job = [todo |-> prog, id |-> p, uses |-> uses, mine |-> mine, seen |-> NoPreset,
               ids |-> {}, next |-> Unset]
    BY DEF Job
  <2> HIDE DEF job
  <2> QED
    BY <1>3, <1>4, <2>1, JobIs
<1> HIDE DEF job
<1>6. ~Has(prog, "delist") /\ ~Has(prog, "unkey")
  BY <1>2 DEF ActivationSteps
<1>7. Fresh(job)
  BY <1>2, <1>4, <1>5, <1>6 DEF Fresh
<1> QED
  BY <1>1, <1>7

LEMMA UpdatesFresh ==
  ASSUME ModelInv, NEW a \in Askers, NEW p \in Presets, NEW uses \in Settings, NEW patch,
         UpdatePreset(a, p, uses, patch)
  PROVE  \E job : Fresh(job) /\ Begins(a, job)
<1>1. preset[p] \in Record
  BY DEF ModelInv, ModelTyped, ChoiceTyped, UpdatePreset, Told
<1>2. PICK mark \in BOOLEAN : mark = (patch # "unset" /\ preset[p].active)
  OBVIOUS
<1> DEFINE prog == (IF patch = "set" THEN Activation ELSE <<>>) \o <<"write">>
                     \o (IF mark THEN Activation ELSE <<>>)
           mine == [uses |-> uses, active |-> mark]
           job == [Job(prog, p, uses) EXCEPT !.mine = mine]
<1>3. Begins(a, job)
  <2>1. mine = [uses |-> uses, active |-> patch # "unset" /\ preset[p].active]
    BY <1>2
  <2>2. mine.active = mark
    OBVIOUS
  <2> QED
    BY <1>2, <2>1 DEF UpdatePreset
<1>4. /\ Program(prog) /\ Head(prog) \in {"check", "write"}
      /\ \A x : Has(prog, x) => x \in {"write"} \cup ActivationSteps
  <2>1. PICK first \in BOOLEAN : first = (patch = "set")
    OBVIOUS
  <2>2. prog = (IF first THEN Activation ELSE <<>>) \o <<"write">>
                 \o (IF mark THEN Activation ELSE <<>>)
    BY <2>1
  <2> QED
    BY <1>2, <2>1, <2>2, UpdateIsProgram
<1>5. prog \in Seq(ModelSteps)
  BY <1>4, ProgramIsSeq
<1> HIDE DEF prog
<1>6. mine \in Record /\ (mine.active => preset[p].active)
  BY <1>2 DEF Record
<1> HIDE DEF mine
<1>7. /\ job \in Jobs /\ job.todo = prog /\ job.id = p /\ job.uses = uses /\ job.mine = mine
      /\ job.next = Unset
  <2>1. job = [todo |-> prog, id |-> p, uses |-> uses, mine |-> mine, seen |-> NoPreset,
               ids |-> {}, next |-> Unset]
    BY DEF Job
  <2> HIDE DEF job
  <2> QED
    BY <1>5, <1>6, <2>1, JobIs
<1> HIDE DEF job
<1>8. /\ ~Has(prog, "delist") /\ ~Has(prog, "unkey") /\ ~Has(prog, "enlist")
      /\ preset[p] # NoPreset
  BY <1>4 DEF ActivationSteps, UpdatePreset, Told
<1>9. Fresh(job)
  BY <1>4, <1>6, <1>7, <1>8 DEF Fresh
<1> QED
  BY <1>3, <1>9

LEMMA ActivatesFresh ==
  ASSUME ModelInv, NEW a \in Askers, NEW p \in Presets, ActivatePreset(a, p)
  PROVE  \E job : Fresh(job) /\ Begins(a, job)
<1>1. preset[p] \in Record /\ preset[p].uses \in Settings /\ preset[p] # NoPreset
  <2>1. preset[p] \in Record /\ preset[p] # NoPreset
    BY DEF ModelInv, ModelTyped, ChoiceTyped, ActivatePreset, Told
  <2> QED
    BY <2>1 DEF Record
<1> DEFINE job == Job(Activation, p, preset[p].uses)
<1>2. Begins(a, job)
  BY DEF ActivatePreset
<1>3. /\ Program(Activation) /\ Head(Activation) = "check" /\ Activation \in Seq(ModelSteps)
      /\ \A x : Has(Activation, x) => x \in ActivationSteps
  BY ActivationIsProgram, LinkedIsProgram DEF ModelEnds, Linked, Chained
<1>4. /\ job \in Jobs /\ job.todo = Activation /\ job.id = p /\ job.uses \in Settings
      /\ job.next = Unset
  BY <1>1, <1>3, PlainJobIs
<1> HIDE DEF job
<1>5. /\ ~Has(Activation, "delist") /\ ~Has(Activation, "unkey") /\ ~Has(Activation, "enlist")
      /\ ~Has(Activation, "write")
  BY <1>3 DEF ActivationSteps
<1>6. Fresh(job)
  BY <1>1, <1>3, <1>4, <1>5 DEF Fresh
<1> QED
  BY <1>2, <1>6

LEMMA DeletesFresh ==
  ASSUME ModelInv, NEW a \in Askers, NEW p \in Presets, DeletePreset(a, p)
  PROVE  \E job : Fresh(job) /\ Begins(a, job)
<1>1. preset[p] \in Record /\ preset[p].uses \in Settings /\ preset[p] # NoPreset
      /\ preset[p].active \in BOOLEAN
  <2>1. preset[p] \in Record /\ preset[p] # NoPreset
    BY DEF ModelInv, ModelTyped, ChoiceTyped, DeletePreset, Told
  <2> QED
    BY <2>1 DEF Record
<1> DEFINE prog == Deletion3 \o IF preset[p].active THEN <<"unkey">> ELSE <<>>
           job == Job(prog, p, preset[p].uses)
<1>2. Begins(a, job)
  BY DEF DeletePreset, Deletion3
<1>3. /\ Program(prog) /\ Head(prog) = "erase" /\ Has(prog, "erase")
      /\ Has(prog, "unkey") => preset[p].active
      /\ \A x : Has(prog, x) => x \in {"erase", "list", "delist", "unkey"}
  BY <1>1, DeletionIsProgram
<1>4. prog \in Seq(ModelSteps)
  BY <1>3, ProgramIsSeq
<1> HIDE DEF prog
<1>5. /\ job \in Jobs /\ job.todo = prog /\ job.id = p /\ job.uses \in Settings
      /\ job.next = Unset
  BY <1>1, <1>4, PlainJobIs
<1> HIDE DEF job
<1>6. ~Has(prog, "flag") /\ ~Has(prog, "write") /\ ~Has(prog, "enlist")
  BY <1>3
<1>7. Fresh(job)
  BY <1>1, <1>3, <1>5, <1>6 DEF Fresh
<1> QED
  BY <1>2, <1>7

LEMMA SwapsFresh ==
  ASSUME ModelInv, NEW a \in Askers, NEW uses \in Settings, SwapModel(a, uses) \/ SwapEndpoint(a, uses)
  PROVE  \E job : Fresh(job) /\ Begins(a, job)
<1>1. PICK prog : /\ prog = Swap \/ prog = <<"endpoint">> \o Swap
                  /\ Begins(a, Job(prog, Unset, uses))
  BY DEF SwapModel, SwapEndpoint
<1> DEFINE job == Job(prog, Unset, uses)
<1>2. /\ Program(prog) /\ Head(prog) \in {"swap", "endpoint"}
      /\ \A x : Has(prog, x) =>
           x \in {"endpoint", "swap", "provider", "model", "base", "unlock"}
  BY <1>1, SwapIsProgram
<1>3. prog \in Seq(ModelSteps)
  BY <1>2, ProgramIsSeq
<1>4. /\ job \in Jobs /\ job.todo = prog /\ job.uses \in Settings /\ job.next = Unset
  BY <1>3, PlainJobIs
<1>5. Begins(a, job)
  BY <1>1
<1> HIDE DEF job
<1>6. ~Has(prog, "flag") /\ ~Has(prog, "write") /\ ~Has(prog, "enlist") /\ ~Has(prog, "delist")
      /\ ~Has(prog, "unkey") /\ \A step \in OfPreset : ~Has(prog, step)
  BY <1>2 DEF OfPreset
<1>7. Fresh(job)
  BY <1>2, <1>4, <1>6 DEF Fresh
<1> QED
  BY <1>5, <1>7

LEMMA BeginsFresh ==
  ASSUME ModelInv, NEW a \in Askers, PresetBegins(a)
  PROVE  \E job : Fresh(job) /\ Begins(a, job)
<1>1. CASE \E p \in Presets, uses \in Settings, active \in BOOLEAN : CreatePreset(a, p, uses, active)
  BY <1>1, CreatesFresh
<1>2. CASE \E p \in Presets, uses \in Settings : \E patch \in {"none", "set", "unset"} :
             UpdatePreset(a, p, uses, patch)
  <2>1. PICK p \in Presets, uses \in Settings, patch \in {"none", "set", "unset"} :
          UpdatePreset(a, p, uses, patch)
    BY <1>2
  <2> QED
    BY <2>1, UpdatesFresh
<1>3. CASE \E p \in Presets : ActivatePreset(a, p)
  BY <1>3, ActivatesFresh
<1>4. CASE \E p \in Presets : DeletePreset(a, p)
  BY <1>4, DeletesFresh
<1>5. CASE \E uses \in Settings : SwapModel(a, uses) \/ SwapEndpoint(a, uses)
  BY <1>5, SwapsFresh
<1> QED
  BY <1>1, <1>2, <1>3, <1>4, <1>5 DEF PresetBegins

LEMMA RestartGoesOn ==
  ASSUME ModelInv, NEW a \in Askers, ModelRestarts(a)
  PROVE  /\ ModelInv' /\ (\A b \in Askers \ {a} : ask'[b] = NoRequest)
         /\ Fresh(ask'[a]) /\ ~Has(ask'[a].todo, "write") /\ Asking(a)' /\ Step(a)' = Head(ask'[a].todo)
         /\ \A x : Has(ask'[a].todo, x) => x \in {"started"} \cup ActivationSteps
         /\ UNCHANGED <<preset, shelf, key, saved, endpoint>>
         /\ history'.met = history.met
         /\ ~history'.missed => ~history.missed /\ \A b \in Askers : ~Asking(b)
<1>1. UNCHANGED <<preset, shelf, key, saved, endpoint>> /\ holder' = Unheld /\ serving' = saved.file
  BY DEF ModelRestarts
<1>2. /\ ChoiceTyped /\ TableTogether /\ saved.provider \in Settings /\ holder \in Askers \cup {Unheld}
      /\ history \in Histories
      /\ preset \in [Presets -> Record \cup {NoPreset}] /\ key \in Presets \cup {Unset}
      /\ \A b \in Askers : Swapping(b)
  BY DEF ModelInv, ModelTyped, ChoiceTyped, Savings
<1>3. /\ history' \in Histories
      /\ history'.met = history.met
      /\ ~history'.missed => ~history.missed /\ \A b \in Askers : ~Asking(b)
  <2>1. PICK missed \in BOOLEAN : missed = (history.missed \/ \E b \in Askers : Asking(b))
    OBVIOUS
  <2>2. history' = [history EXCEPT !.count = history.count + 1, !.missed = missed]
    BY <2>1 DEF ModelRestarts
  <2>3. /\ history' \in Histories
        /\ history'.met = history.met /\ history'.missed = missed
    <3>1. missed \in BOOLEAN
      BY <2>1
    <3>2. history' = [count |-> history.count + 1, met |-> history.met, missed |-> missed,
                      crossed |-> history.crossed]
      BY <1>2, <2>2, <3>1 DEF Histories
    <3> QED
      BY <1>2, <3>1, <3>2 DEF Histories
  <2>4. ~missed => ~history.missed /\ \A b \in Askers : ~Asking(b)
    BY <2>1
  <2> QED
    BY <2>3, <2>4
<1>4. PICK restores \in BOOLEAN : restores = (Current # NoPreset)
  OBVIOUS
<1> DEFINE prog == (IF restores THEN Activation ELSE <<>>) \o <<"started">>
           uses == saved.provider
           job == Job(prog, key, uses)
<1>5. /\ Program(prog) /\ Head(prog) \in {"check", "started"}
      /\ \A x : Has(prog, x) => x = "started" \/ (restores /\ x \in ActivationSteps)
  BY <1>4, StartIsProgram
<1>6. prog \in Seq(ModelSteps)
  BY <1>5, ProgramIsSeq
<1>7. ask' = [b \in Askers |-> IF b # a THEN NoRequest ELSE job]
  <2>1. prog = (IF Current = NoPreset THEN <<>> ELSE Activation) \o <<"started">>
    BY <1>4
  <2> HIDE DEF prog
  <2> QED
    BY <2>1 DEF ModelRestarts
<1> HIDE DEF prog
<1>8. /\ job \in Jobs /\ job.todo = prog /\ job.id = key /\ job.uses \in Settings /\ job.next = Unset
  <2>1. uses \in Settings /\ key \in Presets \cup {Unset}
    BY <1>2
  <2> HIDE DEF uses
  <2>2. job = Job(prog, key, uses)
    OBVIOUS
  <2> HIDE DEF job
  <2> QED
    BY <1>6, <2>1, <2>2, PlainJobIs
<1> HIDE DEF job
<1>9. restores => key \in Presets /\ preset[key] # NoPreset
  BY <1>2, <1>4 DEF Current
<1>10. /\ ~Has(prog, "write") /\ ~Has(prog, "enlist") /\ ~Has(prog, "delist") /\ ~Has(prog, "unkey")
       /\ Has(prog, "flag") => restores
       /\ \A step \in OfPreset : Has(prog, step) => restores
  BY <1>5 DEF ActivationSteps, OfPreset
<1>11. Fresh(job)
  BY <1>5, <1>8, <1>9, <1>10 DEF Fresh
<1>12. job \in Jobs /\ job # NoRequest /\ Chained(job.todo, ModelSteps, ModelPairs, ModelEnds)
       /\ Ordered(job.todo) /\ ~Flags(job.todo) /\ Head(job.todo) \notin InSwap
  BY <1>8, <1>11, FreshIsReady
<1>14. /\ ask' \in [Askers -> Jobs \cup {NoRequest}] /\ ask'[a] = job
       /\ \A b \in Askers \ {a} : ask'[b] = NoRequest
  BY <1>7, <1>12
<1>15. Asking(a)' /\ Step(a)' = Head(job.todo)
  BY <1>12, <1>14 DEF Asking, Step
<1>16. \A b \in Askers \ {a} : ~Asking(b)' /\ Step(b)' = "none"
  BY <1>14 DEF Asking, Step
<1>17. Equipped(a)'
  BY <1>12, <1>14, <1>11 DEF Equipped, Fresh
<1>18. \A b \in Askers : Swapping(b)'
  <2>1. \A b \in Askers : holder' # b
    BY <1>1, ModelAssumption DEF ModelAssumption
  <2>2. \A b \in Askers : Step(b)' \notin InSwap
    BY <1>12, <1>15, <1>16 DEF InSwap
  <2> QED
    BY <2>1, <2>2 DEF Swapping, Saves, InSwap
<1>19. \A b \in Askers \ {a} : Equipped(b)'
  BY <1>16 DEF Equipped
<1>20. TableTogether'
  <2> SUFFICES ASSUME ~history'.missed PROVE saved'.provider = saved'.model
    BY DEF TableTogether
  <2>1. ~history.missed /\ \A b \in Askers : ~Asking(b)
    BY <1>3
  <2>2. \A b \in Askers : Step(b) \notin InSwap
    BY <2>1 DEF Step, InSwap
  <2>3. holder = Unheld
    BY <1>2, <2>2 DEF Swapping
  <2> QED
    BY <1>1, <1>2, <2>1, <2>3 DEF TableTogether
<1>21. ModelTyped'
  BY <1>1, <1>2, <1>3, <1>14 DEF ModelTyped, ChoiceTyped, Savings
<1>22. \A x : Has(ask'[a].todo, x) => x \in {"started"} \cup ActivationSteps
  BY <1>5, <1>8, <1>14
<1>23. ModelInv'
  BY <1>17, <1>18, <1>19, <1>20, <1>21 DEF ModelInv
<1>24. Fresh(ask'[a]) /\ ~Has(ask'[a].todo, "write")
  BY <1>8, <1>10, <1>11, <1>14
<1> QED
  BY <1>1, <1>3, <1>8, <1>14, <1>15, <1>22, <1>23, <1>24

\* Between two requests, and as long as no reload met another request and nothing
\* failed, what is in memory is what is in config.yaml and in the table; and each
\* write of a swap is of the pair it wrote to config.yaml.
Files(a) ==
  /\ Step(a) \in {"provider", "model"} => saved.file = Pair(ask[a].uses)
  /\ Step(a) \in {"base", "unlock"} => saved.file = InTable
Untroubled == ~history.missed /\ ~history.crossed
InFile ==
  /\ mem = saved.file /\ (holder = Unheld => saved.file = InTable)
  /\ \A a \in Askers : Files(a)
  /\ \A a \in Askers : Rereading(a) => reading[a] = InTable /\ \A b \in Askers : ~Asking(b)
MemTyped == mem \in Pairs /\ reading \in [Askers -> Pairs \cup {Unset}]
MemInv == MemTyped /\ (Untroubled => InFile)

LEMMA InTableTyped == ModelInv => InTable \in Pairs /\ Unset \notin Pairs
BY ModelAssumption DEF ModelInv, ModelTyped, ChoiceTyped, Savings, InTable, Pairs, ModelAssumption

\* No swap is under way when the lock is free.
LEMMA NoSwapUnheld ==
  ASSUME ModelInv, holder = Unheld
  PROVE  \A a \in Askers : Step(a) \notin InSwap
BY ModelAssumption DEF ModelInv, Swapping, ModelAssumption
LEMMA NobodyHolds ==
  ASSUME ModelInv, \A a \in Askers : ~Asking(a)
  PROVE  holder = Unheld
<1>1. \A a \in Askers : Step(a) \notin InSwap
  BY DEF Step, InSwap
<1> QED
  BY <1>1 DEF ModelInv, ModelTyped, ChoiceTyped, Swapping

\* A step that touches neither file, table nor memory, of a request that is in no
\* swap or is about to leave it.
LEMMA QuietKeepsFile ==
  ASSUME ModelInv, ModelInv', MemInv, NEW a \in Askers,
         Step(a) \notin {"swap", "provider", "model", "base"},
         UNCHANGED <<saved, mem, reading>>,
         holder' = IF Step(a) = "unlock" THEN Unheld ELSE holder,
         \A b \in Askers \ {a} : ask'[b] = ask[b],
         Untroubled' => Untroubled /\ \A r \in Askers : ~Rereading(r)
  PROVE  MemInv'
<1>1. MemTyped' /\ InTable' = InTable
  BY DEF MemInv, MemTyped, InTable
<1> SUFFICES ASSUME Untroubled' PROVE InFile'
  BY <1>1 DEF MemInv
<1>2. Untroubled /\ InFile /\ \A r \in Askers : ~Rereading(r)
  BY DEF MemInv
<1>3. mem' = saved'.file /\ \A r \in Askers : ~Rereading(r)'
  BY <1>2 DEF InFile, Rereading
<1>4. holder' = Unheld => saved'.file = InTable'
  BY <1>1, <1>2 DEF InFile, Files
<1>5. ASSUME NEW b \in Askers \ {a} PROVE Files(b)'
  <2>1. Step(b)' = Step(b) /\ ask'[b] = ask[b]
    BY DEF Step, Asking
  <2> QED
    BY <1>1, <1>2, <2>1 DEF InFile, Files
<1>6. Files(a)'
  <2>1. Step(a)' \in InSwap => holder' = a /\ holder' # Unheld
    BY ModelAssumption DEF ModelInv, Swapping, ModelAssumption
  <2>2. holder = a => Step(a) \in InSwap
    BY DEF ModelInv, Swapping
  <2>3. Step(a)' \notin InSwap
    BY <2>1, <2>2 DEF InSwap
  <2> QED
    BY <2>3 DEF Files, InSwap
<1> QED
  BY <1>3, <1>4, <1>5, <1>6 DEF InFile

LEMMA SwapKeepsFile ==
  ASSUME ModelInv, ModelInv', MemInv, NEW a \in Askers, Swaps(a)
  PROVE  MemInv'
<1>1. /\ Step(a) = "swap" /\ holder = Unheld /\ holder' = a /\ mem' = Pair(ask[a].uses)
      /\ Stores(a, "file", Pair(ask[a].uses)) /\ UNCHANGED reading
  BY DEF Swaps
<1>2. ask[a].uses \in Settings /\ Asking(a) /\ Head(ask[a].todo) = "swap"
  BY <1>1, AskingIs
<1>3. ~history'.missed => ~history.missed /\ saved'.file = Pair(ask[a].uses)
                          /\ history'.crossed = history.crossed
  BY <1>1, <1>2, StoresFileIs
<1>4. Leaves(a, ask[a]) /\ \A b \in Askers \ {a} : ask'[b] = ask[b]
  BY SwapsGoesOn
<1>5. Step(a)' = "provider" /\ ask'[a].uses = ask[a].uses
  BY <1>2, <1>4, SwapLeaves
<1>6. MemTyped'
  BY <1>1, <1>2 DEF MemInv, MemTyped, Pair, Pairs
<1> SUFFICES ASSUME Untroubled' PROVE InFile'
  BY <1>6 DEF MemInv
<1>7. InFile /\ \A r \in Askers : ~Rereading(r)'
  BY <1>1, <1>2, <1>3 DEF MemInv, Untroubled, InFile, Rereading
<1>8. holder' # Unheld
  BY <1>1, ModelAssumption DEF ModelAssumption
<1>9. Files(a)' /\ mem' = saved'.file
  BY <1>1, <1>3, <1>5 DEF Files, Untroubled
<1>10. ASSUME NEW b \in Askers \ {a} PROVE Files(b)'
  <2>1. Step(b)' = Step(b)
    BY <1>4 DEF Step, Asking
  <2>2. Step(b) \notin InSwap
    BY <1>1, NoSwapUnheld
  <2> QED
    BY <2>1, <2>2 DEF Files, InSwap
<1> QED
  BY <1>7, <1>8, <1>9, <1>10 DEF InFile

LEMMA FieldKeepsFile ==
  ASSUME ModelInv, ModelInv', MemInv, NEW a \in Askers, StoresField(a)
  PROVE  MemInv'
<1>1. Step(a) \in {"provider", "model", "base"} /\ UNCHANGED <<mem, reading, holder>>
  BY DEF StoresField
<1>2. /\ Asking(a) /\ ask[a].uses \in Settings /\ Head(ask[a].todo) = Step(a) /\ Swapping(a)
  BY <1>1, AskingIs DEF ModelInv
<1>3. Leaves(a, ask[a]) /\ \A b \in Askers \ {a} : ask'[b] = ask[b]
  BY StoresFieldGoesOn
<1>4. holder = a /\ holder' # Unheld
  BY <1>1, <1>2, ModelAssumption DEF Swapping, InSwap, ModelAssumption
<1>5. saved \in Savings /\ history \in Histories
  BY DEF ModelInv, ModelTyped, ChoiceTyped
<1>6. MemTyped'
  BY <1>1 DEF MemInv, MemTyped
<1> SUFFICES ASSUME Untroubled' PROVE InFile'
  BY <1>6 DEF MemInv
<1>7. /\ ~history.missed /\ ~history.crossed /\ saved'.file = saved.file
      /\ Step(a) = "model" => saved'.provider = saved.provider /\ saved'.model = ask[a].uses
      /\ Step(a) = "base" => saved'.provider = saved.provider /\ saved'.model = saved.model
  <2>1. CASE Step(a) \in {"provider", "model"}
    <3>1. Stores(a, Step(a), ask[a].uses)
      BY <2>1 DEF StoresField
    <3>2. CASE Step(a) = "provider"
      <4>1. Stores(a, "provider", ask[a].uses)
        BY <3>1, <3>2
      <4> QED
        BY <1>2, <3>2, <4>1, StoresIs DEF Untroubled
    <3>3. CASE Step(a) = "model"
      <4>1. Stores(a, "model", ask[a].uses)
        BY <3>1, <3>3
      <4> QED
        BY <1>2, <3>3, <4>1, StoresIs DEF Untroubled
    <3> QED
      BY <2>1, <3>2, <3>3
  <2>2. CASE Step(a) = "base"
    <3>1. \/ saved' = [saved EXCEPT !["base"] = ask[a].uses] /\ UNCHANGED history
          \/ UNCHANGED <<saved, history>>
          \/ history' = [history EXCEPT !.missed = TRUE]
      BY <2>2 DEF StoresField, Stores
    <3>2. history' # [history EXCEPT !.missed = TRUE]
      BY <1>5 DEF Untroubled, Histories
    <3> QED
      BY <1>5, <2>2, <3>1, <3>2 DEF Untroubled, Savings
  <2> QED
    BY <1>1, <2>1, <2>2
<1>8. InFile /\ Saves(a) /\ \A r \in Askers : ~Rereading(r)'
  BY <1>1, <1>2, <1>7 DEF MemInv, Untroubled, InFile, Rereading, Swapping
<1>9. Files(a)'
  <2>1. CASE Step(a) = "provider"
    <3>1. Step(a)' = "model" /\ ask'[a].uses = ask[a].uses
      BY <1>2, <1>3, <2>1, SwapLeaves
    <3> QED
      BY <1>7, <1>8, <2>1, <3>1 DEF Files, InFile
  <2>2. CASE Step(a) = "model"
    <3>1. Step(a)' = "base"
      BY <1>2, <1>3, <2>2, SwapLeaves
    <3>2. saved'.file = Pair(ask[a].uses) /\ saved'.provider = ask[a].uses
      BY <1>7, <1>8, <2>2 DEF Files, InFile, Saves
    <3> QED
      BY <1>7, <2>2, <3>1, <3>2 DEF Files, Pair, InTable
  <2>3. CASE Step(a) = "base"
    <3>1. Step(a)' = "unlock"
      BY <1>2, <1>3, <2>3, SwapLeaves
    <3> QED
      BY <1>7, <1>8, <2>3, <3>1 DEF Files, InFile, InTable
  <2> QED
    BY <1>1, <2>1, <2>2, <2>3
<1>10. ASSUME NEW b \in Askers \ {a} PROVE Files(b)'
  <2>1. Step(b)' = Step(b)
    BY <1>3 DEF Step, Asking
  <2>2. Step(b) \notin InSwap
    BY <1>4 DEF ModelInv, Swapping
  <2> QED
    BY <2>1, <2>2 DEF Files, InSwap
<1> QED
  BY <1>1, <1>4, <1>7, <1>8, <1>9, <1>10 DEF InFile

LEMMA RestartKeepsFile ==
  ASSUME ModelInv, ModelInv', MemInv, NEW a \in Askers, ModelRestarts(a)
  PROVE  MemInv'
<1>1. /\ holder' = Unheld /\ mem' = InTable /\ reading' = [b \in Askers |-> Unset] /\ UNCHANGED saved
      /\ history' = [history EXCEPT !.count = @ + 1, !.missed = @ \/ \E b \in Askers : Asking(b)]
  BY DEF ModelRestarts
<1>2. MemTyped' /\ InTable' = InTable
  BY <1>1, InTableTyped DEF MemTyped, InTable
<1> SUFFICES ASSUME Untroubled' PROVE InFile'
  BY <1>2 DEF MemInv
<1>3. ~history.missed /\ (\A b \in Askers : ~Asking(b)) /\ ~history.crossed
  <2>1. history \in Histories
    BY DEF ModelInv, ModelTyped, ChoiceTyped
  <2>2. ~history.missed /\ \A b \in Askers : ~Asking(b)
    BY RestartGoesOn DEF Untroubled
  <2>3. history'.crossed = history.crossed
    BY <1>1, <2>1 DEF Histories
  <2> QED
    BY <2>2, <2>3 DEF Untroubled
<1>4. saved.file = InTable
  BY <1>3, NobodyHolds DEF MemInv, Untroubled, InFile
<1>5. \A b \in Askers : ~Rereading(b)'
  BY <1>1 DEF Rereading
<1>6. \A b \in Askers : Step(b)' \notin InSwap
  BY <1>1, ModelAssumption DEF ModelInv, Swapping, ModelAssumption
<1>7. \A b \in Askers : Files(b)'
  BY <1>6 DEF Files, InSwap
<1> QED
  BY <1>1, <1>2, <1>4, <1>5, <1>7 DEF InFile

\* The steps of a reload, and the write of a channel swap, leave requests alone.
LEMMA AsideGoesOn ==
  ASSUME ModelInv, UNCHANGED <<preset, shelf, key, serving, endpoint, holder, ask>>,
         saved' \in Savings, saved'.provider = saved.provider, saved'.model = saved.model,
         history' \in Histories, history'.missed = history.missed
  PROVE  ModelInv'
<1>1. \A a \in Askers : (Asking(a)' <=> Asking(a)) /\ Step(a)' = Step(a)
  BY DEF Asking, Step
<1>2. \A a \in Askers : Equipped(a)' /\ Swapping(a)'
  BY <1>1 DEF ModelInv, Equipped, Swapping, Saves
<1> QED
  BY <1>2 DEF ModelInv, ModelTyped, ChoiceTyped, TableTogether

LEMMA RereadsIs ==
  ASSUME ModelInv, NEW a \in Askers, Rereads(a)
  PROVE  /\ ModelInv' /\ history' \in Histories /\ history'.missed = history.missed
         /\ history'.met = history.met
         /\ ~history'.crossed => ~history.crossed /\ \A b \in Askers : ~Asking(b) /\ ~Rereading(b)
<1>1. history \in Histories /\ saved \in Savings
  BY DEF ModelInv, ModelTyped, ChoiceTyped
<1>2. PICK crossed \in BOOLEAN :
        crossed = (history.crossed \/ \E b \in Askers : Asking(b) \/ Rereading(b))
  OBVIOUS
<1>3. history' = [history EXCEPT !.count = history.count + 1, !.crossed = crossed]
  BY <1>2 DEF Rereads
<1>4. ~crossed => ~history.crossed /\ \A b \in Askers : ~Asking(b) /\ ~Rereading(b)
  BY <1>2
<1>5. /\ history' \in Histories /\ history'.missed = history.missed /\ history'.met = history.met
      /\ history'.crossed = crossed
  <2>1. crossed \in BOOLEAN
    BY <1>2
  <2>2. history' = [count |-> history.count + 1, met |-> history.met, missed |-> history.missed,
                    crossed |-> crossed]
    BY <1>1, <1>3, <2>1 DEF Histories
  <2> QED
    BY <1>1, <2>1, <2>2 DEF Histories
<1>6. UNCHANGED <<preset, shelf, key, serving, saved, endpoint, holder, ask>>
  BY DEF Rereads
<1>7. ModelInv'
  BY <1>1, <1>5, <1>6, AsideGoesOn
<1> QED
  BY <1>4, <1>5, <1>7

LEMMA RereadsKeepsFile ==
  ASSUME ModelInv, MemInv, NEW a \in Askers, Rereads(a)
  PROVE  MemInv'
<1>1. /\ reading' = [reading EXCEPT ![a] = InTable]
      /\ UNCHANGED <<saved, mem, holder, ask>>
  BY DEF Rereads
<1>2. MemTyped' /\ InTable' = InTable /\ reading \in [Askers -> Pairs \cup {Unset}]
  BY <1>1, InTableTyped DEF MemInv, MemTyped, InTable
<1> SUFFICES ASSUME Untroubled' PROVE InFile'
  BY <1>2 DEF MemInv
<1>3. Untroubled /\ \A b \in Askers : ~Asking(b)
  BY RereadsIs DEF Untroubled
<1>4. \A b \in Askers : ~Asking(b)' /\ Step(b)' = Step(b)
  BY <1>1, <1>3 DEF Asking, Step
<1>5. \A b \in Askers : reading'[b] = InTable \/ reading'[b] = reading[b]
  BY <1>1, <1>2
<1>6. \A b \in Askers : Rereading(b)' => reading'[b] = InTable
  BY <1>3, <1>5 DEF MemInv, InFile, Rereading
<1>7. \A b \in Askers : Files(b)'
  BY <1>1, <1>2, <1>3, <1>4 DEF MemInv, InFile, Files
<1> QED
  BY <1>1, <1>2, <1>3, <1>4, <1>6, <1>7 DEF MemInv, InFile

LEMMA LaysOverKeeps ==
  ASSUME ModelInv, MemInv, NEW a \in Askers, LaysOver(a)
  PROVE  ModelInv' /\ MemInv'
<1>1. /\ Rereading(a) /\ mem' = reading[a] /\ reading' = [reading EXCEPT ![a] = Unset]
      /\ UNCHANGED <<preset, shelf, key, serving, saved, endpoint, holder, ask, history>>
  BY DEF LaysOver
<1>2. saved \in Savings /\ history \in Histories
  BY DEF ModelInv, ModelTyped, ChoiceTyped
<1>3. ModelInv'
  BY <1>1, <1>2, AsideGoesOn
<1>4. MemTyped' /\ InTable' = InTable
  BY <1>1 DEF MemInv, MemTyped, Rereading, InTable
<1>5. ASSUME Untroubled' PROVE InFile'
  <2>1. InFile /\ reading[a] = InTable /\ \A b \in Askers : ~Asking(b)
    BY <1>1, <1>5 DEF MemInv, Untroubled, InFile
  <2>2. saved.file = InTable
    BY <2>1, NobodyHolds DEF InFile
  <2>3. \A b \in Askers : ~Asking(b)' /\ Step(b)' = Step(b) /\ ask'[b] = ask[b]
    BY <1>1, <2>1 DEF Asking, Step
  <2>4. \A b \in Askers : reading'[b] = Unset \/ reading'[b] = reading[b]
    BY <1>1 DEF MemInv, MemTyped
  <2>5. \A b \in Askers : Rereading(b)' => reading'[b] = InTable'
    BY <1>4, <2>1, <2>4 DEF InFile, Rereading
  <2>6. \A b \in Askers : Files(b)'
    BY <1>1, <1>4, <2>1, <2>3 DEF InFile, Files
  <2> QED
    BY <1>1, <1>4, <2>1, <2>2, <2>3, <2>5, <2>6 DEF InFile
<1> QED
  BY <1>3, <1>4, <1>5 DEF MemInv

LEMMA PersistKeeps ==
  ASSUME ModelInv, MemInv, ChannelPersists
  PROVE  ModelInv' /\ MemInv'
<1>1. /\ saved' = [saved EXCEPT !.file = mem]
      /\ UNCHANGED <<preset, shelf, key, serving, mem, endpoint, holder, ask, reading, history>>
  BY DEF ChannelPersists
<1>2. saved \in Savings /\ history \in Histories /\ mem \in Pairs
  BY DEF ModelInv, ModelTyped, ChoiceTyped, MemInv, MemTyped
<1>3. /\ saved' \in Savings /\ saved'.file = mem
      /\ saved'.provider = saved.provider /\ saved'.model = saved.model
  BY <1>1, <1>2 DEF Savings
<1>4. ModelInv'
  BY <1>1, <1>2, <1>3, AsideGoesOn
<1>5. MemTyped' /\ InTable' = InTable
  BY <1>1, <1>3 DEF MemInv, MemTyped, InTable
<1>6. ASSUME Untroubled' PROVE InFile'
  <2>1. InFile /\ saved'.file = saved.file
    BY <1>1, <1>3, <1>6 DEF MemInv, Untroubled, InFile
  <2>2. \A b \in Askers : (Asking(b)' <=> Asking(b)) /\ Step(b)' = Step(b) /\ (Rereading(b)' <=> Rereading(b))
    BY <1>1 DEF Asking, Step, Rereading
  <2>3. \A b \in Askers : Files(b)'
    BY <1>1, <1>5, <2>1, <2>2 DEF InFile, Files
  <2> QED
    BY <1>1, <1>5, <2>1, <2>2, <2>3 DEF InFile
<1> QED
  BY <1>4, <1>5, <1>6 DEF MemInv

LEMMA BeginsKeepsFile ==
  ASSUME ModelInv, ModelInv', MemInv, NEW a \in Askers, NEW job, Fresh(job), Begins(a, job)
  PROVE  MemInv'
<1>1. /\ ~Asking(a) /\ UNCHANGED <<saved, mem, reading, holder>>
      /\ history' = [history EXCEPT !.count = @ + 1, !.met = @ \/ \E b \in Askers : Asking(b),
                                    !.crossed = @ \/ \E b \in Askers : Rereading(b)]
  BY DEF Begins
<1>2. Step(a) = "none" /\ \A b \in Askers \ {a} : ask'[b] = ask[b]
  BY <1>1, BeginsGoesOn DEF Step
<1>3. history \in Histories /\ history'.missed = history.missed
  BY BeginsGoesOn DEF ModelInv, ModelTyped, ChoiceTyped
<1>4. history'.crossed = (history.crossed \/ \E b \in Askers : Rereading(b))
  BY <1>1, <1>3 DEF Histories
<1>5. Untroubled' => Untroubled /\ \A r \in Askers : ~Rereading(r)
  BY <1>3, <1>4 DEF Untroubled
<1> QED
  BY <1>1, <1>2, <1>5, QuietKeepsFile

\* A step of a request that is under way, and touches neither file nor table.
LEMMA StepKeepsFile ==
  ASSUME ModelInv, ModelInv', MemInv, NEW a \in Askers,
         \/ Started(a) \/ Looks(a) \/ RecordsEndpoint(a) \/ Unlocks(a) \/ Lists(a) \/ Clears1(a)
         \/ Writes(a) \/ SavesShelf(a) \/ SavesKey(a)
  PROVE  MemInv'
<1>1. /\ Step(a) \notin {"none", "swap", "provider", "model", "base"}
      /\ UNCHANGED <<saved, mem, reading, history>>
      /\ holder' = IF Step(a) = "unlock" THEN Unheld ELSE holder
  BY DEF Started, Looks, RecordsEndpoint, Unlocks, Lists, Clears1, Writes, SavesShelf, SavesKey, Keeps
<1>2. \A b \in Askers \ {a} : ask'[b] = ask[b]
  BY StartedGoesOn, FoundGoesOn, LooksGoesOn, RecordsEndpointGoesOn, UnlocksGoesOn, ListsGoesOn,
     ClearsGoesOn, WritesGoesOn, SavesShelfGoesOn, SavesKeyGoesOn
<1>3. Asking(a)
  BY <1>1, AskingIs
<1>4. Untroubled' => Untroubled /\ \A r \in Askers : ~Rereading(r)
  BY <1>1, <1>3 DEF Untroubled, MemInv, InFile
<1> QED
  BY <1>1, <1>2, <1>4, QuietKeepsFile

LEMMA FailsKeepsFile ==
  ASSUME ModelInv, ModelInv', MemInv, NEW a \in Askers, PresetRequestFails(a)
  PROVE  MemInv'
<1>1. history'.missed /\ UNCHANGED <<mem, reading>>
  BY FailsGoesOn DEF PresetRequestFails
<1> QED
  BY <1>1 DEF MemInv, MemTyped, Untroubled

LEMMA ModelKeeps == ModelInv /\ MemInv /\ [ModelNext]_modelVars => ModelInv' /\ MemInv'
<1> SUFFICES ASSUME ModelInv, MemInv, [ModelNext]_modelVars PROVE ModelInv' /\ MemInv'
  OBVIOUS
<1>1. ASSUME NEW a \in Askers, PresetBegins(a) PROVE ModelInv' /\ MemInv'
  <2>1. PICK job : Fresh(job) /\ Begins(a, job)
    BY <1>1, BeginsFresh
  <2>2. ModelInv'
    BY <2>1, BeginsGoesOn
  <2> QED
    BY <2>1, <2>2, BeginsKeepsFile
<1>2. ASSUME NEW a \in Askers, PresetRequestFails(a) PROVE ModelInv' /\ MemInv'
  BY <1>2, FailsGoesOn, FailsKeepsFile
<1>3. ASSUME NEW a \in Askers, ModelRestarts(a) PROVE ModelInv' /\ MemInv'
  BY <1>3, RestartGoesOn, RestartKeepsFile
<1>4. ASSUME NEW a \in Askers, Swaps(a) \/ StoresField(a) PROVE ModelInv' /\ MemInv'
  BY <1>4, SwapsGoesOn, StoresFieldGoesOn, SwapKeepsFile, FieldKeepsFile
<1>5. ASSUME NEW a \in Askers,
             \/ Started(a) \/ Looks(a) \/ RecordsEndpoint(a) \/ Unlocks(a) \/ Lists(a) \/ Clears1(a)
             \/ Writes(a) \/ SavesShelf(a) \/ SavesKey(a)
      PROVE  ModelInv' /\ MemInv'
  <2>1. ModelInv'
    BY <1>5, StartedGoesOn, FoundGoesOn, LooksGoesOn, RecordsEndpointGoesOn, UnlocksGoesOn, ListsGoesOn,
       ClearsGoesOn, WritesGoesOn, SavesShelfGoesOn, SavesKeyGoesOn
  <2> QED
    BY <1>5, <2>1, StepKeepsFile
<1>6. ASSUME NEW a \in Askers, Rereads(a) \/ LaysOver(a) PROVE ModelInv' /\ MemInv'
  BY <1>6, RereadsIs, RereadsKeepsFile, LaysOverKeeps
<1>7. ASSUME ChannelPersists PROVE ModelInv' /\ MemInv'
  BY <1>7, PersistKeeps
<1>8. CASE UNCHANGED modelVars
  <2>1. \A a \in Askers : /\ Asking(a)' = Asking(a) /\ Step(a)' = Step(a)
                          /\ Rereading(a)' = Rereading(a)
    BY <1>8 DEF modelVars, Asking, Step, Rereading
  <2>2. \A a \in Askers : Equipped(a)' /\ Swapping(a)'
    BY <1>8, <2>1 DEF ModelInv, modelVars, Equipped, Swapping, Saves
  <2>3. ModelInv'
    BY <1>8, <2>2 DEF ModelInv, modelVars, ModelTyped, ChoiceTyped, TableTogether
  <2>4. UNCHANGED <<InTable, saved, mem, reading, holder, history, ask>>
    BY <1>8 DEF modelVars, InTable
  <2>5. \A a \in Askers : Files(a)' <=> Files(a)
    BY <2>1, <2>4 DEF Files
  <2>6. (InFile' <=> InFile) /\ (Untroubled' <=> Untroubled) /\ (MemTyped' <=> MemTyped)
    BY <2>1, <2>4, <2>5 DEF InFile, Untroubled, MemTyped
  <2> QED
    BY <2>3, <2>6 DEF MemInv
<1>9. ModelNext \/ UNCHANGED modelVars
  OBVIOUS
<1> QED
  BY <1>1, <1>2, <1>3, <1>4, <1>5, <1>6, <1>7, <1>8, <1>9 DEF ModelNext

LEMMA MemStarts == ModelInit => MemInv
<1> SUFFICES ASSUME ModelInit PROVE MemInv
  OBVIOUS
<1>1. \A a \in Askers : ~Asking(a) /\ Step(a) = "none" /\ ~Rereading(a)
  BY DEF ModelInit, Asking, Step, Rereading
<1>2. MemTyped
  BY ModelAssumption DEF ModelInit, MemTyped, Pair, Pairs, ModelAssumption
<1>3. mem = saved.file /\ saved.file = InTable
  BY DEF ModelInit, InTable, Pair
<1> QED
  BY <1>1, <1>2, <1>3 DEF MemInv, InFile, Files

\* Every state of the choice of a model satisfies its invariant: a request under way
\* has the rest of a program, the lock is held by the swap that is under way, the
\* writes of that swap are done up to the step it is at, and between requests the
\* memory, config.yaml and the table agree as long as nothing failed and no reload
\* met another request.
THEOREM ModelInvAlways == ModelSpec => [](ModelInv /\ MemInv)
<1>1. ModelInit => ModelInv /\ MemInv
  BY ModelStarts, MemStarts
<1>2. ModelInv /\ MemInv /\ [ModelNext]_modelVars => ModelInv' /\ MemInv'
  BY ModelKeeps
<1> QED
  BY <1>1, <1>2, PTL DEF ModelSpec

\* The variables of the choice of a model keep their types.
THEOREM ModelTypeCorrect == ModelSpec => []ModelTypeOK
<1>1. ModelInv /\ MemInv => ModelTypeOK
  BY DEF ModelInv, ModelTyped, ChoiceTyped, Savings, MemInv, MemTyped, ModelTypeOK
<1> QED
  BY <1>1, ModelInvAlways, PTL

\* Whenever no swap is under way and nothing failed, the table names the provider and
\* the model of one swap, and config.yaml the same, also when a channel swap writes it
\* from memory, unless a reload was under way together with another request (the lock
\* of the hot swap and the writes under it, the reload without it, runtime_manager.py).
THEOREM SavedTogetherHolds == ModelSpec => []SavedTogether
<1>1. ModelInv /\ MemInv => SavedTogether
  BY DEF ModelInv, TableTogether, MemInv, Untroubled, InFile, SavedTogether
<1> QED
  BY <1>1, ModelInvAlways, PTL

------------------------------------------------------------------------------
(* The choice of a model: marks, as long as requests come one by one *)

Marks == {p \in shelf : preset[p] # NoPreset /\ preset[p].active}
OnlyOne(a) == \A b \in Askers \ {a} : ~Asking(b)

\* Which presets may have the mark at each step of a request.
InOrder(a) ==
  LET job == ask[a]
      todo == ask[a].todo
  IN
  Asking(a) =>
    /\ Has(todo, "write") /\ job.mine.active /\ job.id \in shelf => Marks \subseteq {job.id}
    /\ Has(todo, "enlist") /\ Has(todo, "write") => ~job.mine.active
    /\ Has(todo, "enlist") /\ ~Has(todo, "write") =>
         preset[job.id] = NoPreset \/ ~preset[job.id].active
    /\ Step(a) \in {"enlist", "delist"} => job.ids = shelf
    /\ Has(todo, "clear") /\ Step(a) # "clear" => job.next = Unset
    /\ Step(a) = "clear" /\ job.next = Unset => Marks \subseteq job.ids
    /\ Step(a) = "clear" /\ job.next # Unset =>
         /\ Marks \subseteq job.ids \cup {job.next[1]}
         /\ preset[job.next[1]] # NoPreset /\ ~job.next[2].active
    /\ Step(a) = "flag" => Marks = {}
    /\ Step(a) = "key" => Marks \subseteq {job.id}

\* And, as long as nothing failed, what is listed and what a restart restores.
Unfailed(a) ==
  LET job == ask[a]
      todo == ask[a].todo
  IN
  Asking(a) =>
    /\ Has(todo, "write") /\ job.mine.active => key = job.id
    /\ (Has(todo, "write") \/ Has(todo, "flag")) /\ ~Has(todo, "enlist") => job.id \in shelf
    /\ Has(todo, "delist") /\ ~Has(todo, "erase") => preset[job.id] = NoPreset
    /\ Has(todo, "unkey") => Marks \subseteq {job.id}
    /\ Has(todo, "unkey") /\ ~Has(todo, "erase") => Marks = {}
Listed(a) ==
  \A p \in Presets : preset[p] # NoPreset =>
    p \in shelf \/ (Asking(a) /\ ask[a].id = p /\ Has(ask[a].todo, "enlist"))

AtMostOne == \A p, q \in Marks : p = q
PresetInv ==
  ~history.met =>
    /\ \A a, b \in Askers : Asking(a) /\ Asking(b) => a = b
    /\ AtMostOne
    /\ ~history.missed /\ (\A a \in Askers : Step(a) # "key") => Marks \subseteq {key}
    /\ \A a \in Askers : OnlyOne(a) => InOrder(a) /\ (~history.missed => Unfailed(a) /\ Listed(a))

\* The same of the one request that may be under way.
Order(a) ==
  /\ OnlyOne(a) /\ InOrder(a) /\ AtMostOne
  /\ ~history.missed => Unfailed(a) /\ Listed(a) /\ (Step(a) # "key" => Marks \subseteq {key})

LEMMA OrderIs ==
  ASSUME PresetInv, ~history.met, NEW a \in Askers, OnlyOne(a)
  PROVE  Order(a)
<1>1. ASSUME Step(a) # "key", NEW b \in Askers PROVE Step(b) # "key"
  BY <1>1 DEF OnlyOne, Step
<1> QED
  BY <1>1 DEF PresetInv, Order

LEMMA AskerIsOrdered ==
  ASSUME PresetInv, ~history.met, NEW a \in Askers, Asking(a)
  PROVE  Order(a)
<1>1. OnlyOne(a)
  BY DEF PresetInv, OnlyOne
<1> QED
  BY <1>1, OrderIs

LEMMA OrderSuffices ==
  ASSUME NEW a \in Askers, Order(a)'
  PROVE  PresetInv'
<1>1. /\ OnlyOne(a)' /\ InOrder(a)' /\ AtMostOne'
      /\ ~history'.missed => Unfailed(a)' /\ Listed(a)' /\ (Step(a)' # "key" => Marks' \subseteq {key'})
  BY DEF Order
<1>2. \A b \in Askers \ {a} : ~Asking(b)'
  BY <1>1 DEF OnlyOne
<1>3. ASSUME NEW b \in Askers, OnlyOne(b)'
      PROVE  InOrder(b)' /\ (~history'.missed => Unfailed(b)' /\ Listed(b)')
  <2>1. CASE b = a
    BY <1>1, <2>1
  <2>2. CASE b # a
    <3>1. ~Asking(a)' /\ ~Asking(b)'
      BY <1>2, <1>3, <2>2 DEF OnlyOne
    <3>2. InOrder(b)' /\ Unfailed(b)'
      BY <3>1 DEF InOrder, Unfailed
    <3>3. Listed(a)' => Listed(b)'
      BY <3>1 DEF Listed
    <3> QED
      BY <1>1, <3>2, <3>3
  <2> QED
    BY <2>1, <2>2
<1>4. \A b, c \in Askers : Asking(b)' /\ Asking(c)' => b = c
  BY <1>2
<1> QED
  BY <1>1, <1>3, <1>4 DEF PresetInv

\* A step that neither presets nor their index nor the key notice.
LEMMA QuietKeepsOrder ==
  ASSUME ModelInv, NEW a \in Askers, Order(a), NEW job, Leaves(a, job),
         job.todo = ask[a].todo, job.id = ask[a].id, job.mine = ask[a].mine, job.next = ask[a].next,
         Step(a) \in {"check", "endpoint", "swap", "provider", "model", "base", "unlock", "list", "started"},
         Step(a) = "list" => job.ids = shelf,
         \A b \in Askers \ {a} : ask'[b] = ask[b],
         UNCHANGED <<preset, shelf, key>>, ~history'.missed => ~history.missed
  PROVE  Order(a)'
<1>1. /\ Asking(a) /\ Step(a) = Head(job.todo) /\ shelf \subseteq Presets
  BY AskingIs DEF ModelInv, ModelTyped, ChoiceTyped
<1>2. OnlyOne(a)' /\ Marks' = Marks /\ AtMostOne'
  BY DEF Order, OnlyOne, Asking, Marks, AtMostOne
<1>3. CASE ~Asking(a)'
  <2>1. \A x : Has(ask[a].todo, x) => x = Step(a)
    BY <1>1, <1>3 DEF Leaves
  <2>2. ~Has(ask[a].todo, "enlist")
    BY <2>1
  <2>3. Listed(a) => Listed(a)'
    BY <2>2 DEF Listed
  <2>4. InOrder(a)' /\ Unfailed(a)'
    BY <1>3 DEF InOrder, Unfailed
  <2> QED
    BY <1>2, <2>3, <2>4 DEF Order
<1>4. CASE Asking(a)'
  <2>1. /\ <<Step(a), Step(a)'>> \in ModelPairs
        /\ ask'[a].id = ask[a].id /\ ask'[a].next = ask[a].next
        /\ Has(ask'[a].todo, "write") => ask'[a].mine = ask[a].mine
        /\ Step(a)' \in {"clear", "enlist", "delist"} => ask'[a].ids = job.ids
        /\ \A x : Has(ask[a].todo, x) <=> x = Step(a) \/ Has(ask'[a].todo, x)
    BY <1>1, <1>4 DEF Leaves
  <2>2. /\ Step(a)' \in {"clear", "enlist", "delist"} => Step(a) = "list"
        /\ Step(a)' \notin {"flag", "key"}
    BY <2>1 DEF ModelPairs
  <2>3. /\ Has(ask'[a].todo, "write") <=> Has(ask[a].todo, "write")
        /\ Has(ask'[a].todo, "flag") <=> Has(ask[a].todo, "flag")
        /\ Has(ask'[a].todo, "clear") <=> Has(ask[a].todo, "clear")
        /\ Has(ask'[a].todo, "enlist") <=> Has(ask[a].todo, "enlist")
        /\ Has(ask'[a].todo, "erase") <=> Has(ask[a].todo, "erase")
        /\ Has(ask'[a].todo, "delist") <=> Has(ask[a].todo, "delist")
        /\ Has(ask'[a].todo, "unkey") <=> Has(ask[a].todo, "unkey")
    BY <2>1
  <2>4. Step(a)' = "clear" => Has(ask'[a].todo, "clear")
    <3>1. Step(a)' = Head(ask'[a].todo) /\ Chained(ask'[a].todo, ModelSteps, ModelPairs, ModelEnds)
      BY <1>4 DEF Leaves
    <3> QED
      BY <3>1, ChainedRest
  <2>5. Marks \subseteq shelf
    BY DEF Marks
  <2>6. InOrder(a)'
    BY <1>1, <1>2, <2>1, <2>2, <2>3, <2>4, <2>5 DEF Order, InOrder
  <2>7. Unfailed(a) => Unfailed(a)'
    BY <1>1, <1>2, <2>1, <2>3 DEF Unfailed
  <2>8. Listed(a) => Listed(a)'
    BY <1>1, <1>4, <2>1, <2>3 DEF Listed
  <2> QED
    BY <1>2, <2>2, <2>6, <2>7, <2>8 DEF Order
<1> QED
  BY <1>3, <1>4

LEMMA HeadOrLater ==
  ASSUME NEW prog, Chained(prog, ModelSteps, ModelPairs, ModelEnds)
  PROVE  \A x : Has(prog, x) => Head(prog) = x \/ Has(Tail(prog), x)
BY ChainedRest

LEMMA DropKeepsOrder ==
  ASSUME ModelInv, NEW a \in Askers, Order(a), \A b \in Askers \ {a} : ask'[b] = ask[b],
         \/ ask'[a] = NoRequest /\ ~Asking(a)' /\ Step(a)' = "none"
         \/ /\ Asking(a)' /\ Step(a)' = "started" /\ ask'[a].id = ask[a].id
            /\ \A x : Has(ask'[a].todo, x) <=> x = "started",
         UNCHANGED <<shelf, key>>,
         preset' = preset \/ \E p \in Presets : preset' = [preset EXCEPT ![p] = NoPreset],
         ~history'.missed => ~history.missed /\ Step(a) = "check" /\ UNCHANGED preset
  PROVE  Order(a)'
<1>1. OnlyOne(a)'
  BY DEF Order, OnlyOne, Asking
<1>2. Marks' \subseteq Marks
  <2>1. preset \in [Presets -> Record \cup {NoPreset}] /\ shelf \subseteq Presets
    BY DEF ModelInv, ModelTyped, ChoiceTyped
  <2> QED
    BY <2>1 DEF Marks
<1>3. AtMostOne'
  BY <1>2 DEF Order, AtMostOne
<1>4. InOrder(a)' /\ Unfailed(a)'
  BY DEF InOrder, Unfailed
<1>5. ASSUME ~history'.missed PROVE Listed(a)' /\ (Step(a)' # "key" => Marks' \subseteq {key'})
  <2>1. ~history.missed /\ Step(a) = "check" /\ UNCHANGED <<preset, shelf, key>>
    BY <1>5
  <2>2. Listed(a) /\ Marks \subseteq {key}
    BY <2>1 DEF Order
  <2>3. ~Has(ask[a].todo, "enlist")
    <3>1. /\ ask[a].todo \in Seq(ModelSteps) /\ ask[a].todo # <<>> /\ Ordered(ask[a].todo)
          /\ Head(ask[a].todo) = "check" /\ Chained(ask[a].todo, ModelSteps, ModelPairs, ModelEnds)
      BY <2>1, AskingIs
    <3>2. Has(ask[a].todo, "enlist") => Has(Tail(ask[a].todo), "enlist")
      <4>1. \A x : Has(ask[a].todo, x) => Head(ask[a].todo) = x \/ Has(Tail(ask[a].todo), x)
        BY <3>1, HeadOrLater
      <4> QED
        BY <3>1, <4>1
    <3>3. ~MayPrecede("check", "enlist")
      BY DEF MayPrecede
    <3> QED
      BY <3>1, <3>2, <3>3, OrderedRest
  <2>4. Listed(a)'
    BY <2>1, <2>2, <2>3 DEF Listed
  <2> QED
    BY <1>2, <2>1, <2>2, <2>4
<1> QED
  BY <1>1, <1>3, <1>4, <1>5 DEF Order

\* What is left of a program when its head is done, told from the head.
LEMMA LeavesRest ==
  ASSUME NEW a, NEW job, Leaves(a, job), Asking(a)'
  PROVE  /\ ask'[a].id = job.id /\ ask'[a].next = job.next
         /\ Has(ask'[a].todo, "write") => ask'[a].mine = job.mine
         /\ <<Head(job.todo), Step(a)'>> \in ModelPairs
         /\ \A x : Has(job.todo, x) <=> x = Head(job.todo) \/ Has(ask'[a].todo, x)
         /\ \A x : Has(ask'[a].todo, x) => MayPrecede(Head(job.todo), x)
BY DEF Leaves

LEMMA WriteKeepsOrder ==
  ASSUME ModelInv, NEW a \in Askers, Order(a), Writes(a), Step(a) = "write"
  PROVE  Order(a)'
<1> DEFINE id == ask[a].id
           mine == ask[a].mine
<1>1. /\ Leaves(a, ask[a]) /\ (\A b \in Askers \ {a} : ask'[b] = ask[b])
      /\ id \in Presets /\ (\A p \in Presets \ {id} : preset'[p] = preset[p])
      /\ mine \in Record /\ preset'[id] = mine
  BY WritesGoesOn
<1>2. UNCHANGED <<shelf, key, history>> /\ shelf \subseteq Presets /\ Asking(a) /\ Step(a) = Head(ask[a].todo)
      /\ Has(ask[a].todo, "write")
  BY AskingIs DEF Writes, Keeps, ModelInv, ModelTyped, ChoiceTyped
<1>3. OnlyOne(a)'
  BY <1>1 DEF Order, OnlyOne, Asking
<1>4. InOrder(a) /\ AtMostOne /\ (~history.missed => Unfailed(a) /\ Listed(a) /\ Marks \subseteq {key})
  BY DEF Order
<1>5. /\ mine.active /\ id \in shelf => Marks' \subseteq {id} /\ Marks \subseteq {id}
      /\ ~(mine.active /\ id \in shelf) => Marks' \subseteq Marks
  <2>1. mine.active /\ id \in shelf => Marks \subseteq {id}
    BY <1>2, <1>4 DEF InOrder
  <2>2. \A p \in Marks' : p \in Marks \/ (p = id /\ mine.active /\ id \in shelf)
    BY <1>1, <1>2 DEF Marks
  <2> QED
    BY <2>1, <2>2
<1>6. AtMostOne'
  BY <1>4, <1>5 DEF AtMostOne
<1>7. InOrder(a)' /\ (~history.missed => Unfailed(a)')
  <2>1. CASE ~Asking(a)'
    BY <2>1 DEF InOrder, Unfailed
  <2>2. CASE Asking(a)'
    <3>1. /\ ask'[a].id = id /\ ask'[a].next = ask[a].next
          /\ Has(ask'[a].todo, "write") => ask'[a].mine = mine
          /\ <<"write", Step(a)'>> \in ModelPairs
          /\ \A x : Has(ask[a].todo, x) <=> x = "write" \/ Has(ask'[a].todo, x)
          /\ \A x : Has(ask'[a].todo, x) => MayPrecede("write", x)
      BY <1>1, <1>2, <2>2, LeavesRest
    <3>2. Step(a)' \in {"list", "check"}
      BY <3>1 DEF ModelPairs
    <3>3. /\ ~Has(ask'[a].todo, "delist") /\ ~Has(ask'[a].todo, "unkey")
          /\ Has(ask'[a].todo, "clear") => Has(ask[a].todo, "clear")
          /\ Has(ask'[a].todo, "enlist") <=> Has(ask[a].todo, "enlist")
          /\ Has(ask'[a].todo, "flag") => Has(ask[a].todo, "flag")
      BY <3>1 DEF MayPrecede, Removing
    <3>4. Has(ask'[a].todo, "enlist") => ~mine.active
      BY <1>2, <1>4, <3>3 DEF InOrder
    <3>5. Has(ask'[a].todo, "clear") => ask'[a].next = Unset
      BY <1>2, <1>4, <3>1, <3>3 DEF InOrder
    <3>6. InOrder(a)'
      BY <1>1, <1>2, <1>5, <3>1, <3>2, <3>4, <3>5 DEF InOrder
    <3>7. ~history.missed => Unfailed(a)'
      BY <1>2, <1>4, <3>1, <3>3 DEF Unfailed
    <3> QED
      BY <3>6, <3>7
  <2> QED
    BY <2>1, <2>2
<1>8. ASSUME ~history.missed PROVE Listed(a)' /\ Marks' \subseteq {key'}
  <2>1. Unfailed(a) /\ Listed(a) /\ Marks \subseteq {key}
    BY <1>4, <1>8
  <2>2. Marks' \subseteq {key'}
    BY <1>2, <1>5, <2>1 DEF Unfailed
  <2>3. id \in shelf \/ (Asking(a)' /\ ask'[a].id = id /\ Has(ask'[a].todo, "enlist"))
    <3>1. CASE Has(ask[a].todo, "enlist")
      <4>1. Asking(a)'
        BY <1>1, <1>2, <3>1 DEF Leaves
      <4>2. ask'[a].id = id /\ Has(ask'[a].todo, "enlist")
        BY <1>1, <1>2, <3>1, <4>1, LeavesRest
      <4> QED
        BY <4>1, <4>2
    <3>2. CASE ~Has(ask[a].todo, "enlist")
      BY <1>2, <2>1, <3>2 DEF Unfailed
    <3> QED
      BY <3>1, <3>2
  <2>4. Listed(a)'
    BY <1>1, <1>2, <2>1, <2>3 DEF Listed
  <2> QED
    BY <2>2, <2>4
<1> QED
  BY <1>2, <1>3, <1>6, <1>7, <1>8 DEF Order

LEMMA FlagKeepsOrder ==
  ASSUME ModelInv, NEW a \in Askers, Order(a), Writes(a), Step(a) = "flag"
  PROVE  Order(a)'
<1> DEFINE id == ask[a].id
<1>1. /\ Leaves(a, ask[a]) /\ (\A b \in Askers \ {a} : ask'[b] = ask[b])
      /\ id \in Presets /\ (\A p \in Presets \ {id} : preset'[p] = preset[p])
  BY WritesGoesOn
<1>2. UNCHANGED <<shelf, key, history>> /\ shelf \subseteq Presets /\ Asking(a) /\ Step(a) = Head(ask[a].todo)
      /\ Has(ask[a].todo, "flag")
  BY AskingIs DEF Writes, Keeps, ModelInv, ModelTyped, ChoiceTyped
<1>3. OnlyOne(a)'
  BY <1>1 DEF Order, OnlyOne, Asking
<1>4. InOrder(a) /\ Marks = {} /\ (~history.missed => Unfailed(a) /\ Listed(a))
  BY <1>2 DEF Order, InOrder
<1>5. Marks' \subseteq {id}
  BY <1>1, <1>2, <1>4 DEF Marks
<1>6. AtMostOne'
  BY <1>5 DEF AtMostOne
<1>7. Asking(a)'
  BY <1>1, <1>2 DEF Leaves, ModelEnds
<1>8. /\ ask'[a].id = id /\ ask'[a].next = ask[a].next
      /\ Has(ask'[a].todo, "write") => ask'[a].mine = ask[a].mine
      /\ <<"flag", Step(a)'>> \in ModelPairs
      /\ \A x : Has(ask[a].todo, x) <=> x = "flag" \/ Has(ask'[a].todo, x)
      /\ \A x : Has(ask'[a].todo, x) => MayPrecede("flag", x)
  BY <1>1, <1>2, <1>7, LeavesRest
<1>9. Step(a)' = "key"
  BY <1>8 DEF ModelPairs
<1>10. /\ ~Has(ask'[a].todo, "delist") /\ ~Has(ask'[a].todo, "unkey") /\ ~Has(ask'[a].todo, "enlist")
       /\ ~Has(ask[a].todo, "enlist")
       /\ Has(ask'[a].todo, "clear") => Has(ask[a].todo, "clear")
       /\ Has(ask'[a].todo, "write") => Has(ask[a].todo, "write")
  BY <1>8 DEF MayPrecede, Removing
<1>11. InOrder(a)'
  <2>1. Has(ask'[a].todo, "clear") => ask'[a].next = Unset
    BY <1>2, <1>4, <1>8, <1>10 DEF InOrder
  <2> QED
    BY <1>5, <1>8, <1>9, <1>10, <2>1 DEF InOrder
<1>12. ASSUME ~history.missed PROVE Unfailed(a)' /\ Listed(a)'
  <2>1. Unfailed(a) /\ Listed(a)
    BY <1>4, <1>12
  <2>2. id \in shelf
    BY <1>2, <1>10, <2>1 DEF Unfailed
  <2>3. Unfailed(a)'
    BY <1>2, <1>8, <1>10, <2>1, <2>2 DEF Unfailed
  <2>4. Listed(a)'
    BY <1>1, <1>2, <1>10, <2>1, <2>2 DEF Listed
  <2> QED
    BY <2>3, <2>4
<1> QED
  BY <1>2, <1>3, <1>6, <1>9, <1>11, <1>12 DEF Order

LEMMA EraseKeepsOrder ==
  ASSUME ModelInv, NEW a \in Askers, Order(a), Writes(a), Step(a) = "erase"
  PROVE  Order(a)'
<1> DEFINE id == ask[a].id
<1>1. /\ Leaves(a, ask[a]) /\ (\A b \in Askers \ {a} : ask'[b] = ask[b])
      /\ id \in Presets /\ (\A p \in Presets \ {id} : preset'[p] = preset[p])
      /\ preset'[id] = NoPreset
  BY WritesGoesOn
<1>2. UNCHANGED <<shelf, key, history>> /\ shelf \subseteq Presets /\ Asking(a) /\ Step(a) = Head(ask[a].todo)
  BY AskingIs DEF Writes, Keeps, ModelInv, ModelTyped, ChoiceTyped
<1>3. OnlyOne(a)'
  BY <1>1 DEF Order, OnlyOne, Asking
<1>4. InOrder(a) /\ AtMostOne /\ (~history.missed => Unfailed(a) /\ Listed(a) /\ Marks \subseteq {key})
  BY DEF Order
<1>5. Marks' \subseteq Marks /\ id \notin Marks'
  BY <1>1, <1>2 DEF Marks
<1>6. AtMostOne'
  BY <1>4, <1>5 DEF AtMostOne
<1>7. Asking(a)'
  BY <1>1, <1>2 DEF Leaves, ModelEnds
<1>8. /\ ask'[a].id = id /\ ask'[a].next = ask[a].next
      /\ Has(ask'[a].todo, "write") => ask'[a].mine = ask[a].mine
      /\ <<"erase", Step(a)'>> \in ModelPairs
      /\ \A x : Has(ask[a].todo, x) <=> x = "erase" \/ Has(ask'[a].todo, x)
      /\ \A x : Has(ask'[a].todo, x) => MayPrecede("erase", x)
  BY <1>1, <1>2, <1>7, LeavesRest
<1>9. Step(a)' = "list"
  BY <1>8 DEF ModelPairs
<1>10. /\ ~Has(ask'[a].todo, "enlist") /\ ~Has(ask[a].todo, "enlist")
       /\ Has(ask'[a].todo, "clear") => Has(ask[a].todo, "clear")
       /\ Has(ask'[a].todo, "write") => Has(ask[a].todo, "write")
       /\ Has(ask'[a].todo, "flag") => Has(ask[a].todo, "flag")
       /\ Has(ask'[a].todo, "unkey") => Has(ask[a].todo, "unkey")
  BY <1>8 DEF MayPrecede
<1>11. InOrder(a)'
  <2>1. Has(ask'[a].todo, "clear") => ask'[a].next = Unset
    BY <1>2, <1>4, <1>8, <1>10 DEF InOrder
  <2>2. Has(ask'[a].todo, "write") /\ ask'[a].mine.active /\ id \in shelf => Marks' \subseteq {id}
    BY <1>2, <1>4, <1>5, <1>8, <1>10 DEF InOrder
  <2> QED
    BY <1>2, <1>8, <1>9, <1>10, <2>1, <2>2 DEF InOrder
<1>12. ASSUME ~history.missed PROVE Unfailed(a)' /\ Listed(a)' /\ Marks' \subseteq {key'}
  <2>1. Unfailed(a) /\ Listed(a) /\ Marks \subseteq {key}
    BY <1>4, <1>12
  <2>2. Has(ask'[a].todo, "unkey") => Marks' = {}
    BY <1>2, <1>5, <1>10, <2>1 DEF Unfailed
  <2>3. Unfailed(a)'
    BY <1>1, <1>2, <1>8, <1>10, <2>1, <2>2 DEF Unfailed
  <2>4. Listed(a)'
    BY <1>1, <1>2, <1>10, <2>1 DEF Listed
  <2> QED
    BY <1>2, <1>5, <2>1, <2>3, <2>4
<1> QED
  BY <1>2, <1>3, <1>6, <1>11, <1>12 DEF Order

LEMMA EnlistKeepsOrder ==
  ASSUME ModelInv, NEW a \in Askers, Order(a), SavesShelf(a), Step(a) = "enlist"
  PROVE  Order(a)'
<1> DEFINE id == ask[a].id
<1>1. Leaves(a, ask[a]) /\ (\A b \in Askers \ {a} : ask'[b] = ask[b]) /\ id \in Presets
  BY SavesShelfGoesOn
<1>2. /\ UNCHANGED <<preset, key, history>> /\ Asking(a) /\ Step(a) = Head(ask[a].todo)
      /\ shelf' = ask[a].ids \cup {id} /\ Has(ask[a].todo, "enlist")
  BY AskingIs DEF SavesShelf, Keeps
<1>3. OnlyOne(a)'
  BY <1>1 DEF Order, OnlyOne, Asking
<1>4. InOrder(a) /\ AtMostOne /\ (~history.missed => Unfailed(a) /\ Listed(a) /\ Marks \subseteq {key})
  BY DEF Order
<1>5. shelf' = shelf \cup {id}
  BY <1>2, <1>4 DEF InOrder
<1>6. /\ Asking(a)' => <<"enlist", Step(a)'>> \in ModelPairs /\ ask'[a].id = id
                       /\ ask'[a].next = ask[a].next
      /\ Asking(a)' => \A x : Has(ask'[a].todo, x) => MayPrecede("enlist", x)
      /\ Asking(a)' => \A x : Has(ask[a].todo, x) <=> x = "enlist" \/ Has(ask'[a].todo, x)
      /\ ~Asking(a)' => \A x : Has(ask[a].todo, x) => x = "enlist"
  <2>1. CASE Asking(a)'
    BY SMTT(30), <1>1, <1>2, <2>1, LeavesRest
  <2>2. CASE ~Asking(a)'
    BY <1>1, <1>2, <2>2 DEF Leaves
  <2> QED
    BY <2>1, <2>2
<1>7. ~Has(ask[a].todo, "write")
  BY <1>6 DEF MayPrecede
<1>8. preset[id] = NoPreset \/ ~preset[id].active
  BY <1>2, <1>4, <1>7 DEF InOrder
<1>9. Marks' = Marks
  BY <1>2, <1>5, <1>8 DEF Marks
<1>10. AtMostOne'
  BY <1>4, <1>9 DEF AtMostOne
<1>11. InOrder(a)' /\ (~history.missed => Unfailed(a)')
  <2>1. CASE ~Asking(a)'
    BY <2>1 DEF InOrder, Unfailed
  <2>2. CASE Asking(a)'
    <3>1. Step(a)' = "check"
      BY <1>6, <2>2 DEF ModelPairs
    <3>2. /\ ~Has(ask'[a].todo, "enlist") /\ ~Has(ask'[a].todo, "write")
          /\ ~Has(ask'[a].todo, "delist") /\ ~Has(ask'[a].todo, "unkey")
          /\ Has(ask'[a].todo, "clear") => Has(ask[a].todo, "clear")
      BY <1>6, <2>2 DEF MayPrecede, Removing
    <3>3. Has(ask'[a].todo, "clear") => ask'[a].next = Unset
      BY <1>2, <1>4, <1>6, <2>2, <3>2 DEF InOrder
    <3>4. InOrder(a)'
      BY <3>1, <3>2, <3>3 DEF InOrder
    <3>5. Unfailed(a)'
      BY <1>5, <1>6, <2>2, <3>2 DEF Unfailed
    <3> QED
      BY <3>4, <3>5
  <2> QED
    BY <2>1, <2>2
<1>12. ASSUME ~history.missed PROVE Listed(a)' /\ Marks' \subseteq {key'}
  BY <1>2, <1>4, <1>5, <1>9, <1>12 DEF Listed
<1> QED
  BY <1>2, <1>3, <1>10, <1>11, <1>12 DEF Order

LEMMA DelistKeepsOrder ==
  ASSUME ModelInv, NEW a \in Askers, Order(a), SavesShelf(a), Step(a) = "delist"
  PROVE  Order(a)'
<1> DEFINE id == ask[a].id
<1>1. Leaves(a, ask[a]) /\ (\A b \in Askers \ {a} : ask'[b] = ask[b]) /\ id \in Presets
  BY SavesShelfGoesOn
<1>2. /\ UNCHANGED <<preset, key, history>> /\ Asking(a) /\ Step(a) = Head(ask[a].todo)
      /\ shelf' = (IF id \in ask[a].ids THEN ask[a].ids \ {id} ELSE shelf) /\ Has(ask[a].todo, "delist")
  BY AskingIs DEF SavesShelf, Keeps
<1>3. OnlyOne(a)'
  BY <1>1 DEF Order, OnlyOne, Asking
<1>4. InOrder(a) /\ AtMostOne /\ (~history.missed => Unfailed(a) /\ Listed(a) /\ Marks \subseteq {key})
  BY DEF Order
<1>5. shelf' = shelf \ {id}
  <2>1. ask[a].ids = shelf
    BY <1>2, <1>4 DEF InOrder
  <2> QED
    BY <1>2, <2>1
<1>6. Marks' \subseteq Marks
  BY <1>2, <1>5 DEF Marks
<1>7. AtMostOne'
  BY <1>4, <1>6 DEF AtMostOne
<1>8. /\ Asking(a)' => <<"delist", Step(a)'>> \in ModelPairs /\ ask'[a].id = id
      /\ Asking(a)' => \A x : Has(ask'[a].todo, x) => MayPrecede("delist", x)
      /\ Asking(a)' => \A x : Has(ask[a].todo, x) <=> x = "delist" \/ Has(ask'[a].todo, x)
      /\ ~Asking(a)' => \A x : Has(ask[a].todo, x) => x = "delist"
  <2>1. CASE Asking(a)'
    BY <1>1, <1>2, <2>1, LeavesRest
  <2>2. CASE ~Asking(a)'
    BY <1>1, <1>2, <2>2 DEF Leaves
  <2> QED
    BY <2>1, <2>2
<1>9. ~Has(ask[a].todo, "erase") /\ ~Has(ask[a].todo, "enlist")
  BY <1>8 DEF MayPrecede
<1>10. InOrder(a)' /\ (~history.missed => Unfailed(a)')
  <2>1. CASE ~Asking(a)'
    BY <2>1 DEF InOrder, Unfailed
  <2>2. CASE Asking(a)'
    <3>1. Step(a)' = "unkey"
      BY <1>8, <2>2 DEF ModelPairs
    <3>2. \A x : Has(ask'[a].todo, x) => x = "unkey"
      BY <1>8, <2>2 DEF MayPrecede
    <3>3. InOrder(a)'
      BY <3>1, <3>2 DEF InOrder
    <3>4. ~history.missed => Unfailed(a)'
      <4>1. ASSUME ~history.missed, Has(ask'[a].todo, "unkey") PROVE Marks' = {}
        BY <1>2, <1>4, <1>6, <1>8, <1>9, <2>2, <4>1 DEF Unfailed
      <4>2. /\ ~Has(ask'[a].todo, "write") /\ ~Has(ask'[a].todo, "flag")
            /\ ~Has(ask'[a].todo, "delist")
        BY <3>2
      <4> QED
        BY <4>1, <4>2 DEF Unfailed
    <3> QED
      BY <3>3, <3>4
  <2> QED
    BY <2>1, <2>2
<1>11. ASSUME ~history.missed PROVE Listed(a)' /\ Marks' \subseteq {key'}
  <2>1. Unfailed(a) /\ Listed(a) /\ Marks \subseteq {key}
    BY <1>4, <1>11
  <2>2. preset[id] = NoPreset
    BY <1>2, <1>9, <2>1 DEF Unfailed
  <2>3. Listed(a)'
    BY <1>2, <1>5, <1>9, <2>1, <2>2 DEF Listed
  <2> QED
    BY <1>2, <1>6, <2>1, <2>3
<1> QED
  BY <1>2, <1>3, <1>7, <1>10, <1>11 DEF Order

LEMMA KeyKeepsOrder ==
  ASSUME ModelInv, NEW a \in Askers, Order(a), SavesKey(a), Step(a) = "key"
  PROVE  Order(a)'
<1> DEFINE id == ask[a].id
<1>1. Leaves(a, ask[a]) /\ (\A b \in Askers \ {a} : ask'[b] = ask[b]) /\ id \in Presets
  BY SavesKeyGoesOn
<1>2. /\ UNCHANGED <<preset, shelf, history>> /\ key' = id /\ Asking(a) /\ Step(a) = Head(ask[a].todo)
      /\ Has(ask[a].todo, "key")
  BY AskingIs DEF SavesKey, Keeps
<1>3. OnlyOne(a)'
  BY <1>1 DEF Order, OnlyOne, Asking
<1>4. InOrder(a) /\ AtMostOne /\ (~history.missed => Unfailed(a) /\ Listed(a)) /\ Marks \subseteq {id}
  BY <1>2 DEF Order, InOrder
<1>5. Marks' = Marks /\ AtMostOne'
  BY <1>2, <1>4 DEF Marks, AtMostOne
<1>6. /\ Asking(a)' => /\ <<"key", Step(a)'>> \in ModelPairs /\ ask'[a].id = id
                       /\ ask'[a].next = ask[a].next
                       /\ Has(ask'[a].todo, "write") => ask'[a].mine = ask[a].mine
      /\ Asking(a)' => \A x : Has(ask'[a].todo, x) => MayPrecede("key", x)
      /\ Asking(a)' => \A x : Has(ask[a].todo, x) <=> x = "key" \/ Has(ask'[a].todo, x)
      /\ ~Asking(a)' => \A x : Has(ask[a].todo, x) => x = "key"
  <2>1. CASE Asking(a)'
    BY <1>1, <1>2, <2>1, LeavesRest
  <2>2. CASE ~Asking(a)'
    BY <1>1, <1>2, <2>2 DEF Leaves
  <2> QED
    BY <2>1, <2>2
<1>7. ~Has(ask[a].todo, "enlist")
  BY <1>6 DEF MayPrecede
<1>8. InOrder(a)' /\ (~history.missed => Unfailed(a)')
  <2>1. CASE ~Asking(a)'
    BY <2>1 DEF InOrder, Unfailed
  <2>2. CASE Asking(a)'
    <3>1. Step(a)' \in {"write", "started"}
      BY <1>6, <2>2 DEF ModelPairs
    <3>2. /\ ~Has(ask'[a].todo, "enlist") /\ ~Has(ask'[a].todo, "delist") /\ ~Has(ask'[a].todo, "unkey")
          /\ Has(ask'[a].todo, "clear") => Has(ask[a].todo, "clear")
          /\ Has(ask'[a].todo, "write") => Has(ask[a].todo, "write")
          /\ Has(ask'[a].todo, "flag") => Has(ask[a].todo, "flag")
      BY <1>6, <2>2 DEF MayPrecede, Removing
    <3>3. Has(ask'[a].todo, "clear") => ask'[a].next = Unset
      BY <1>2, <1>4, <1>6, <2>2, <3>2 DEF InOrder
    <3>4. InOrder(a)'
      BY <1>4, <1>5, <1>6, <2>2, <3>1, <3>2, <3>3 DEF InOrder
    <3>5. ~history.missed => Unfailed(a)'
      BY <1>2, <1>4, <1>6, <1>7, <2>2, <3>2 DEF Unfailed
    <3> QED
      BY <3>4, <3>5
  <2> QED
    BY <2>1, <2>2
<1>9. ASSUME ~history.missed PROVE Listed(a)' /\ Marks' \subseteq {key'}
  BY <1>2, <1>4, <1>5, <1>7, <1>9 DEF Listed
<1> QED
  BY <1>2, <1>3, <1>5, <1>8, <1>9 DEF Order

LEMMA UnkeyKeepsOrder ==
  ASSUME ModelInv, NEW a \in Askers, Order(a), SavesKey(a), Step(a) = "unkey"
  PROVE  Order(a)'
<1>1. Leaves(a, ask[a]) /\ (\A b \in Askers \ {a} : ask'[b] = ask[b])
  BY SavesKeyGoesOn
<1>2. /\ UNCHANGED <<preset, shelf, history>> /\ key' = Unset /\ Asking(a)
      /\ Step(a) = Head(ask[a].todo) /\ Has(ask[a].todo, "unkey")
  BY AskingIs DEF SavesKey, Keeps
<1>3. OnlyOne(a)'
  BY <1>1 DEF Order, OnlyOne, Asking
<1>4. AtMostOne /\ (~history.missed => Unfailed(a) /\ Listed(a))
  BY <1>2 DEF Order
<1>5. Marks' = Marks /\ AtMostOne'
  BY <1>2, <1>4 DEF Marks, AtMostOne
<1>6. ~Asking(a)' /\ \A x : Has(ask[a].todo, x) => x = "unkey"
  <2>1. ~Asking(a)'
    <3>1. Asking(a)' => <<"unkey", Step(a)'>> \in ModelPairs
      BY <1>1, <1>2, LeavesRest
    <3> QED
      BY <3>1 DEF ModelPairs
  <2> QED
    BY <1>1, <1>2, <2>1 DEF Leaves
<1>7. ~Has(ask[a].todo, "enlist") /\ ~Has(ask[a].todo, "erase")
  BY <1>6
<1>8. InOrder(a)' /\ Unfailed(a)'
  BY <1>6 DEF InOrder, Unfailed
<1>9. ASSUME ~history.missed PROVE Listed(a)' /\ Marks' \subseteq {key'}
  <2>1. Marks = {}
    BY <1>2, <1>4, <1>7, <1>9 DEF Unfailed
  <2>2. Listed(a)'
    BY <1>2, <1>4, <1>7, <1>9 DEF Listed
  <2> QED
    BY <1>5, <2>1, <2>2
<1> QED
  BY <1>2, <1>3, <1>5, <1>8, <1>9 DEF Order

\* What comes after a clear is no creation and no deletion.
LEMMA ClearingIs ==
  ASSUME ModelInv, NEW a \in Askers, Step(a) = "clear"
  PROVE  /\ Asking(a) /\ ask[a] \in Jobs /\ Step(a) = Head(ask[a].todo)
         /\ ~Has(ask[a].todo, "enlist") /\ ~Has(ask[a].todo, "delist") /\ ~Has(ask[a].todo, "unkey")
<1>1. /\ Asking(a) /\ ask[a] \in Jobs /\ Step(a) = Head(ask[a].todo)
      /\ Chained(ask[a].todo, ModelSteps, ModelPairs, ModelEnds) /\ Ordered(ask[a].todo)
      /\ ask[a].todo \in Seq(ModelSteps) /\ ask[a].todo # <<>>
  BY AskingIs
<1>2. \A x : Has(ask[a].todo, x) => "clear" = x \/ Has(Tail(ask[a].todo), x)
  BY <1>1, ChainedRest
<1>3. \A x : Has(Tail(ask[a].todo), x) => MayPrecede("clear", x)
  BY <1>1, OrderedRest
<1> QED
  BY <1>1, <1>2, <1>3 DEF MayPrecede, Removing

LEMMA ClearKeepsOrder ==
  ASSUME ModelInv, NEW a \in Askers, Order(a), Clears1(a)
  PROVE  Order(a)'
<1> DEFINE todo == ask[a].todo
           id == ask[a].id
           next == ask[a].next
<1>1. /\ \A b \in Askers \ {a} : ask'[b] = ask[b]
      /\ WritesCleared(a) \/ Cleared(a) \/ \E p \in Presets : ReadsToClear(a, p)
  BY ClearsGoesOn
<1>2. /\ Step(a) = "clear" /\ UNCHANGED <<shelf, key, history>>
      /\ preset \in [Presets -> Record \cup {NoPreset}] /\ shelf \subseteq Presets
  BY DEF Clears1, Keeps, ModelInv, ModelTyped, ChoiceTyped
<1>3. /\ Asking(a) /\ ask[a] \in Jobs /\ Step(a) = Head(todo)
      /\ ~Has(todo, "enlist") /\ ~Has(todo, "delist") /\ ~Has(todo, "unkey")
  BY <1>2, ClearingIs
<1>4. OnlyOne(a)'
  BY <1>1 DEF Order, OnlyOne, Asking
<1>5. InOrder(a) /\ AtMostOne /\ (~history.missed => Unfailed(a) /\ Listed(a) /\ Marks \subseteq {key})
  BY <1>2 DEF Order
<1>6. /\ next = Unset => Marks \subseteq ask[a].ids
      /\ next # Unset => /\ Marks \subseteq ask[a].ids \cup {next[1]}
                         /\ preset[next[1]] # NoPreset /\ ~next[2].active
      /\ Has(todo, "write") /\ ask[a].mine.active /\ id \in shelf => Marks \subseteq {id}
  BY <1>2, <1>3, <1>5 DEF InOrder
<1>7. ~history.missed => /\ Has(todo, "write") /\ ask[a].mine.active => key = id
                         /\ Has(todo, "write") \/ Has(todo, "flag") => id \in shelf
  BY <1>3, <1>5 DEF Unfailed
<1>8. CASE WritesCleared(a)
  <2>1. /\ next # Unset /\ next[1] \in Presets /\ next[2] \in Record
        /\ preset' = [preset EXCEPT ![next[1]] = next[2]]
        /\ Asking(a)' /\ Step(a)' = "clear"
    BY <1>8 DEF WritesCleared
  <2>2. /\ ask'[a].todo = todo /\ ask'[a].id = id /\ ask'[a].mine = ask[a].mine
        /\ ask'[a].ids = ask[a].ids /\ ask'[a].next = Unset
    BY <1>3, <1>8 DEF WritesCleared, Jobs
  <2>3. Marks' \subseteq Marks /\ next[1] \notin Marks'
    BY <1>2, <1>6, <2>1 DEF Marks
  <2>4. AtMostOne'
    BY <1>5, <2>3 DEF AtMostOne
  <2>5. Marks' \subseteq ask[a].ids
    BY <1>6, <2>1, <2>3
  <2>6. InOrder(a)'
    BY <1>2, <1>3, <1>6, <2>1, <2>2, <2>3, <2>5 DEF InOrder
  <2>7. ~history.missed => Unfailed(a)'
    BY <1>2, <1>3, <1>7, <2>2 DEF Unfailed
  <2>8. ASSUME ~history.missed PROVE Listed(a)' /\ Marks' \subseteq {key'}
    <3>1. \A p \in Presets : preset'[p] # NoPreset => preset[p] # NoPreset
      BY <1>2, <1>6, <2>1
    <3> QED
      BY <1>2, <1>3, <1>5, <2>3, <2>8, <3>1 DEF Listed
  <2> QED
    BY <1>2, <1>4, <2>4, <2>6, <2>7, <2>8 DEF Order
<1>9. CASE Cleared(a)
  <2>1. next = Unset /\ Marks = {} /\ Leaves(a, ask[a]) /\ UNCHANGED preset
    BY <1>6, <1>9 DEF Cleared
  <2>2. Marks' = {} /\ AtMostOne'
    BY <1>2, <2>1 DEF Marks, AtMostOne
  <2>3. Asking(a)'
    BY <1>2, <1>3, <2>1 DEF Leaves, ModelEnds
  <2>4. /\ ask'[a].id = id /\ ask'[a].next = Unset /\ <<"clear", Step(a)'>> \in ModelPairs
        /\ Has(ask'[a].todo, "write") => ask'[a].mine = ask[a].mine
        /\ \A x : Has(ask'[a].todo, x) => Has(todo, x)
    BY <1>2, <1>3, <2>1, <2>3, LeavesRest
  <2>5. Step(a)' = "flag"
    BY <2>4 DEF ModelPairs
  <2>6. InOrder(a)'
    BY <1>3, <2>2, <2>4, <2>5 DEF InOrder
  <2>7. ~history.missed => Unfailed(a)'
    BY <1>2, <1>3, <1>7, <2>4 DEF Unfailed
  <2>8. ~history.missed => Listed(a)'
    BY <1>2, <1>3, <1>5, <2>1 DEF Listed
  <2> QED
    BY <1>2, <1>4, <2>2, <2>6, <2>7, <2>8 DEF Order
<1>10. CASE \E p \in Presets : ReadsToClear(a, p)
  <2>1. PICK p \in Presets : ReadsToClear(a, p)
    BY <1>10
  <2> DEFINE then == IF preset[p] # NoPreset /\ preset[p].active
                     THEN <<p, [preset[p] EXCEPT !.active = FALSE]>> ELSE Unset
  <2>2. /\ next = Unset /\ UNCHANGED preset /\ Asking(a)' /\ Step(a)' = "clear"
        /\ ask'[a] = [ask[a] EXCEPT !.ids = ask[a].ids \ {p}, !.next = then]
    BY <2>1 DEF ReadsToClear
  <2>3. /\ then = Unset => p \notin Marks
        /\ then # Unset => then[1] = p /\ preset[p] # NoPreset /\ ~then[2].active
    <3>1. CASE preset[p] # NoPreset /\ preset[p].active
      <4>1. preset[p] \in Record
        BY <1>2, <3>1
      <4> DEFINE new == [preset[p] EXCEPT !.active = FALSE]
      <4>2. new \in Record /\ ~new.active
        BY <4>1 DEF Record
      <4> HIDE DEF new
      <4>3. <<p, new>> \in Presets \X Record
        BY <4>2
      <4>4. then = <<p, new>>
        BY <3>1 DEF new
      <4> HIDE DEF then
      <4>5. then # Unset
        BY <4>3, <4>4, ModelAssumption DEF ModelAssumption
      <4> QED
        BY <3>1, <4>2, <4>4, <4>5
    <3>2. CASE ~(preset[p] # NoPreset /\ preset[p].active)
      BY <3>2 DEF Marks
    <3> QED
      BY <3>1, <3>2
  <2> HIDE DEF then
  <2>4. /\ ask'[a].todo = todo /\ ask'[a].id = id /\ ask'[a].mine = ask[a].mine
        /\ ask'[a].ids = ask[a].ids \ {p} /\ ask'[a].next = then
    BY <1>3, <2>2 DEF Jobs
  <2>5. Marks' = Marks /\ AtMostOne'
    BY <1>2, <1>5, <2>2 DEF Marks, AtMostOne
  <2>6. /\ then = Unset => Marks \subseteq ask[a].ids \ {p}
        /\ then # Unset => Marks \subseteq (ask[a].ids \ {p}) \cup {then[1]}
    BY <1>6, <2>2, <2>3
  <2>7. InOrder(a)'
    BY <1>2, <1>3, <1>6, <2>2, <2>3, <2>4, <2>5, <2>6 DEF InOrder
  <2>8. ~history.missed => Unfailed(a)'
    BY <1>2, <1>3, <1>7, <2>4 DEF Unfailed
  <2>9. ~history.missed => Listed(a)' /\ Marks' \subseteq {key'}
    BY <1>2, <1>3, <1>5, <2>2, <2>5 DEF Listed
  <2> QED
    BY <1>2, <1>4, <2>5, <2>7, <2>8, <2>9 DEF Order
<1> QED
  BY <1>1, <1>8, <1>9, <1>10

\* A request that begins, or the start after a stop, when nothing else is under way.
LEMMA FreshIsOrdered ==
  ASSUME ModelInv, NEW a \in Askers, Fresh(ask'[a]), Asking(a)', Step(a)' = Head(ask'[a].todo),
         OnlyOne(a)', AtMostOne, UNCHANGED <<preset, shelf, key>>,
         ~history'.missed => ~history.missed /\ ~Asking(a) /\ Order(a)
  PROVE  Order(a)'
<1> DEFINE todo == ask'[a].todo
           id == ask'[a].id
           mine == ask'[a].mine
<1>1. Marks' = Marks /\ AtMostOne'
  BY DEF Marks, AtMostOne
<1>2. /\ ask'[a].next = Unset
      /\ Step(a)' \in {"check", "write", "erase", "swap", "endpoint", "started"}
      /\ Has(todo, "enlist") => Has(todo, "write") /\ ~mine.active
      /\ ~Has(todo, "enlist") =>
           /\ Has(todo, "write") => preset[id] # NoPreset /\ (mine.active => preset[id].active)
           /\ Has(todo, "flag") => preset[id] # NoPreset
      /\ Has(todo, "delist") => Has(todo, "erase")
      /\ Has(todo, "unkey") => Has(todo, "erase") /\ preset[id] # NoPreset /\ preset[id].active
      /\ Has(todo, "write") \/ Has(todo, "flag") \/ Has(todo, "unkey") => id \in Presets
  BY DEF Fresh, OfPreset
<1>3. id \in shelf /\ preset[id] # NoPreset /\ preset[id].active => Marks \subseteq {id} /\ id \in Marks
  BY DEF AtMostOne, Marks
<1>4. InOrder(a)'
  <2>1. Has(todo, "write") /\ mine.active /\ id \in shelf => Marks \subseteq {id}
    BY <1>2, <1>3
  <2> QED
    BY <1>1, <1>2, <2>1 DEF InOrder
<1>5. ASSUME ~history'.missed PROVE Unfailed(a)' /\ Listed(a)' /\ Marks' \subseteq {key'}
  <2>1. (\A p \in Presets : preset[p] # NoPreset => p \in shelf) /\ Marks \subseteq {key}
    BY <1>5 DEF Order, Listed, Step
  <2>2. Has(todo, "write") /\ mine.active => key = id
    BY <1>2, <1>3, <2>1
  <2>3. (Has(todo, "write") \/ Has(todo, "flag")) /\ ~Has(todo, "enlist") => id \in shelf
    BY <1>2, <2>1
  <2>4. Has(todo, "unkey") => Marks \subseteq {id}
    BY <1>2, <1>3, <2>1
  <2>5. Unfailed(a)'
    BY <1>1, <1>2, <2>2, <2>3, <2>4 DEF Unfailed
  <2>6. Listed(a)'
    BY <2>1 DEF Listed
  <2> QED
    BY <1>1, <2>1, <2>5, <2>6
<1> QED
  BY <1>1, <1>4, <1>5 DEF Order

LEMMA BeginKeepsOrder ==
  ASSUME ModelInv, PresetInv, NEW a \in Askers, PresetBegins(a)
  PROVE  PresetInv'
<1>1. PICK job : Fresh(job) /\ Begins(a, job)
  BY BeginsFresh
<1>2. /\ ask'[a] = job /\ Asking(a)' /\ Step(a)' = Head(job.todo)
      /\ \A b \in Askers \ {a} : ask'[b] = ask[b]
      /\ UNCHANGED <<preset, shelf, key>> /\ history'.missed = history.missed
      /\ ~history'.met => ~history.met /\ \A b \in Askers : ~Asking(b)
  BY <1>1, BeginsGoesOn
<1>3. CASE history'.met
  BY <1>3 DEF PresetInv
<1>4. CASE ~history'.met
  <2>1. ~history.met /\ OnlyOne(a) /\ ~Asking(a)
    BY <1>2, <1>4 DEF OnlyOne
  <2>2. Order(a) /\ OnlyOne(a)'
    BY <1>2, <2>1, OrderIs DEF OnlyOne, Asking
  <2>3. AtMostOne
    BY <2>2 DEF Order
  <2>4. Fresh(ask'[a]) /\ Step(a)' = Head(ask'[a].todo)
    BY <1>1, <1>2
  <2>5. Order(a)'
    BY <1>2, <2>1, <2>2, <2>3, <2>4, FreshIsOrdered
  <2> QED
    BY <2>5, OrderSuffices
<1> QED
  BY <1>3, <1>4

LEMMA RestartKeepsOrder ==
  ASSUME ModelInv, PresetInv, NEW a \in Askers, ModelRestarts(a)
  PROVE  PresetInv'
<1>1. /\ \A b \in Askers \ {a} : ask'[b] = NoRequest
      /\ Fresh(ask'[a]) /\ Asking(a)' /\ Step(a)' = Head(ask'[a].todo)
      /\ UNCHANGED <<preset, shelf, key>> /\ history'.met = history.met
      /\ ~history'.missed => ~history.missed /\ \A b \in Askers : ~Asking(b)
  BY RestartGoesOn
<1>2. CASE history'.met
  BY <1>2 DEF PresetInv
<1>3. CASE ~history'.met
  <2>1. ~history.met /\ AtMostOne
    BY <1>1, <1>3 DEF PresetInv
  <2>2. OnlyOne(a)'
    BY <1>1 DEF OnlyOne, Asking
  <2>3. ~history'.missed => ~history.missed /\ ~Asking(a) /\ Order(a)
    <3>1. (\A b \in Askers : ~Asking(b)) => OnlyOne(a)
      BY DEF OnlyOne
    <3> QED
      BY <1>1, <2>1, <3>1, OrderIs
  <2>4. Order(a)'
    BY <1>1, <2>1, <2>2, <2>3, FreshIsOrdered
  <2> QED
    BY <2>4, OrderSuffices
<1> QED
  BY <1>2, <1>3

\* A step of a request under way.
LEMMA StepKeepsOrder ==
  ASSUME ModelInv, NEW a \in Askers, Order(a),
         \/ Started(a) \/ Looks(a) \/ RecordsEndpoint(a) \/ Swaps(a) \/ StoresField(a) \/ Unlocks(a)
         \/ Lists(a) \/ Clears1(a) \/ Writes(a) \/ SavesShelf(a) \/ SavesKey(a) \/ PresetRequestFails(a)
  PROVE  Order(a)'
<1>1. CASE \/ Started(a) \/ RecordsEndpoint(a) \/ Swaps(a) \/ StoresField(a) \/ Unlocks(a)
  <2>1. Leaves(a, ask[a]) /\ \A b \in Askers \ {a} : ask'[b] = ask[b]
    BY <1>1, StartedGoesOn, RecordsEndpointGoesOn, SwapsGoesOn, StoresFieldGoesOn, UnlocksGoesOn
  <2>2. /\ Step(a) \in {"started", "endpoint", "swap", "provider", "model", "base", "unlock"}
        /\ UNCHANGED <<preset, shelf, key>>
    BY <1>1 DEF Started, RecordsEndpoint, Swaps, StoresField, Unlocks, Keeps
  <2>3. ~history'.missed => ~history.missed
    <3>1. CASE Started(a) \/ RecordsEndpoint(a) \/ Unlocks(a)
      BY <3>1 DEF Started, RecordsEndpoint, Unlocks, Keeps
    <3>2. CASE Swaps(a)
      <4>1. ask[a].uses \in Settings /\ Stores(a, "file", Pair(ask[a].uses))
        BY <3>2, AskingIs DEF Swaps
      <4> QED
        BY <4>1, StoresFileIs
    <3>3. CASE StoresField(a)
      <4>1. \/ UNCHANGED history
            \/ history' = [history EXCEPT !.missed = TRUE]
        BY <3>3 DEF StoresField, Stores
      <4>2. history \in Histories
        BY DEF ModelInv, ModelTyped, ChoiceTyped
      <4> QED
        BY <4>1, <4>2 DEF Histories
    <3> QED
      BY <1>1, <3>1, <3>2, <3>3
  <2> QED
    BY <2>1, <2>2, <2>3, QuietKeepsOrder
<1>2. CASE Lists(a)
  <2> DEFINE job == [ask[a] EXCEPT !.ids = shelf]
  <2>1. Leaves(a, job) /\ \A b \in Askers \ {a} : ask'[b] = ask[b]
    BY <1>2, ListsGoesOn
  <2>2. Step(a) = "list" /\ UNCHANGED <<preset, shelf, key, history>>
    BY <1>2 DEF Lists, Keeps
  <2>3. /\ job.todo = ask[a].todo /\ job.id = ask[a].id /\ job.mine = ask[a].mine
        /\ job.next = ask[a].next /\ job.ids = shelf
    BY <2>2, AskingIs DEF Jobs
  <2> HIDE DEF job
  <2> QED
    BY <2>1, <2>2, <2>3, QuietKeepsOrder
<1>3. CASE Looks(a) /\ preset[ask[a].id] # NoPreset
  <2> DEFINE job == [ask[a] EXCEPT !.seen = preset[ask[a].id], !.uses = preset[ask[a].id].uses]
  <2>1. Leaves(a, job) /\ \A b \in Askers \ {a} : ask'[b] = ask[b]
    BY <1>3, FoundGoesOn
  <2>2. Step(a) = "check" /\ UNCHANGED <<preset, shelf, key, history>>
    BY <1>3 DEF Looks, Keeps
  <2>3. /\ job.todo = ask[a].todo /\ job.id = ask[a].id /\ job.mine = ask[a].mine
        /\ job.next = ask[a].next
    BY <2>2, AskingIs DEF Jobs
  <2> HIDE DEF job
  <2> QED
    BY <2>1, <2>2, <2>3, QuietKeepsOrder
<1>4. CASE Looks(a) /\ preset[ask[a].id] = NoPreset
  <2>1. Step(a) = "check"
    BY <1>4 DEF Looks
  <2> QED
    BY <1>4, <2>1, LooksGoesOn, DropKeepsOrder
<1>5. CASE PresetRequestFails(a)
  BY <1>5, FailsGoesOn, DropKeepsOrder
<1>6. CASE Clears1(a)
  BY <1>6, ClearKeepsOrder
<1>7. CASE Writes(a)
  <2>1. Step(a) \in {"write", "flag", "erase"}
    BY <1>7 DEF Writes
  <2> QED
    BY <1>7, <2>1, WriteKeepsOrder, FlagKeepsOrder, EraseKeepsOrder
<1>8. CASE SavesShelf(a)
  <2>1. Step(a) \in {"enlist", "delist"}
    BY <1>8 DEF SavesShelf
  <2> QED
    BY <1>8, <2>1, EnlistKeepsOrder, DelistKeepsOrder
<1>9. CASE SavesKey(a)
  <2>1. Step(a) \in {"key", "unkey"}
    BY <1>9 DEF SavesKey
  <2> QED
    BY <1>9, <2>1, KeyKeepsOrder, UnkeyKeepsOrder
<1> QED
  BY <1>1, <1>2, <1>3, <1>4, <1>5, <1>6, <1>7, <1>8, <1>9

LEMMA PresetKeeps == ModelInv /\ PresetInv /\ [ModelNext]_modelVars => PresetInv'
<1> SUFFICES ASSUME ModelInv, PresetInv, [ModelNext]_modelVars PROVE PresetInv'
  OBVIOUS
<1>1. ASSUME NEW a \in Askers,
             \/ Started(a) \/ Looks(a) \/ RecordsEndpoint(a) \/ Swaps(a) \/ StoresField(a) \/ Unlocks(a)
             \/ Lists(a) \/ Clears1(a) \/ Writes(a) \/ SavesShelf(a) \/ SavesKey(a) \/ PresetRequestFails(a)
      PROVE  PresetInv'
  <2>1. Asking(a)
    BY <1>1 DEF Started, Looks, RecordsEndpoint, Swaps, StoresField, Unlocks, Lists, Clears1, Writes,
                SavesShelf, SavesKey, PresetRequestFails, Step
  <2>2. history'.met = history.met
    <3>1. \/ history' = history
          \/ history' = [history EXCEPT !.missed = TRUE]
      BY <1>1 DEF Started, Looks, RecordsEndpoint, Swaps, StoresField, Stores, Unlocks, Lists, Clears1,
                  Writes, SavesShelf, SavesKey, PresetRequestFails, Keeps
    <3>2. history \in Histories
      BY DEF ModelInv, ModelTyped, ChoiceTyped
    <3> QED
      BY <3>1, <3>2 DEF Histories
  <2>3. CASE history.met
    BY <2>2, <2>3 DEF PresetInv
  <2>4. CASE ~history.met
    <3>1. Order(a)
      BY <2>1, <2>4, AskerIsOrdered
    <3>2. Order(a)'
      BY <1>1, <3>1, StepKeepsOrder
    <3> QED
      BY <3>2, OrderSuffices
  <2> QED
    BY <2>3, <2>4
<1>2. ASSUME NEW a \in Askers, PresetBegins(a) \/ ModelRestarts(a) PROVE PresetInv'
  BY <1>2, BeginKeepsOrder, RestartKeepsOrder
<1>3. ASSUME UNCHANGED <<preset, shelf, key, ask>>,
             history'.met = history.met, history'.missed = history.missed
      PROVE  PresetInv'
  <2>1. /\ Marks' = Marks /\ (\A a \in Askers : (Asking(a)' <=> Asking(a)) /\ Step(a)' = Step(a))
        /\ UNCHANGED <<preset, shelf, key, ask, history.met, history.missed>>
    BY <1>3 DEF Marks, Asking, Step
  <2>2. AtMostOne' <=> AtMostOne
    BY <2>1 DEF AtMostOne
  <2>3. \A a \in Askers : /\ OnlyOne(a)' <=> OnlyOne(a)
                          /\ InOrder(a)' <=> InOrder(a)
    BY <2>1 DEF OnlyOne, InOrder
  <2>4. \A a \in Askers : Unfailed(a)' <=> Unfailed(a)
    BY <2>1 DEF Unfailed
  <2>5. \A a \in Askers : Listed(a)' <=> Listed(a)
    BY <2>1 DEF Listed
  <2> QED
    BY <2>1, <2>2, <2>3, <2>4, <2>5 DEF PresetInv
<1>4. ModelNext \/ UNCHANGED modelVars
  OBVIOUS
<1>5. ASSUME NEW a \in Askers, Rereads(a) \/ LaysOver(a) PROVE PresetInv'
  <2>1. UNCHANGED <<preset, shelf, key, ask>>
    BY <1>5 DEF Rereads, LaysOver
  <2>2. history'.met = history.met /\ history'.missed = history.missed
    BY <1>5, RereadsIs DEF LaysOver
  <2> QED
    BY <1>3, <2>1, <2>2
<1>6. ASSUME ChannelPersists \/ UNCHANGED modelVars PROVE PresetInv'
  BY <1>3, <1>6 DEF ChannelPersists, modelVars
<1> QED
  BY <1>1, <1>2, <1>4, <1>5, <1>6 DEF ModelNext

LEMMA PresetStarts == ModelInit => PresetInv
<1> SUFFICES ASSUME ModelInit PROVE PresetInv
  OBVIOUS
<1>1. \A a \in Askers : ~Asking(a)
  BY DEF ModelInit, Asking
<1>2. /\ shelf = {p \in Presets : preset[p] # NoPreset}
      /\ \A p \in shelf : preset[p].active <=> key = p
  BY DEF ModelInit
<1>3. Marks \subseteq {key} /\ AtMostOne
  BY <1>2 DEF Marks, AtMostOne
<1>4. \A a \in Askers : InOrder(a) /\ Unfailed(a) /\ Listed(a)
  BY <1>1, <1>2 DEF InOrder, Unfailed, Listed
<1> QED
  BY <1>1, <1>3, <1>4 DEF PresetInv

LEMMA OrderedIsInOrder == ModelInv /\ PresetInv => PresetsInOrder
<1> SUFFICES ASSUME ModelInv, PresetInv PROVE PresetsInOrder
  OBVIOUS
<1>1. OnePresetAlone
  <2> SUFFICES ASSUME ~history.met PROVE Cardinality(Marks) <= 1
    BY DEF OnePresetAlone, Marks
  <2>1. \A p, q \in Marks : p = q
    BY DEF PresetInv, AtMostOne
  <2>2. CASE Marks = {}
    <3>1. Cardinality({}) = 0
      BY FS_EmptySet
    <3> QED
      BY <2>2, <3>1
  <2>3. CASE Marks # {}
    <3>1. PICK p : Marks = {p}
      BY <2>1, <2>3
    <3>2. Cardinality({p}) = 1
      BY FS_Singleton
    <3> QED
      BY <3>1, <3>2
  <2> QED
    BY <2>2, <2>3
<1>2. MarkIsRestored
  <2> SUFFICES ASSUME ~history.met, ~history.missed, \A a \in Askers : ~Asking(a),
                      NEW p \in shelf, preset[p] # NoPreset, preset[p].active
               PROVE  key = p
    BY DEF MarkIsRestored
  <2>1. \A a \in Askers : Step(a) # "key"
    BY DEF Step
  <2>2. p \in Marks
    BY DEF Marks
  <2> QED
    BY <2>1, <2>2 DEF PresetInv
<1> QED
  BY <1>1, <1>2 DEF PresetsInOrder

\* As long as requests on presets come one by one, at most one listed preset has the
\* mark, whatever failed or restarted in the middle, and if nothing failed it is the
\* one that a restart restores (preset_manager.py, the steps of activate_preset).
THEOREM PresetsInOrderHolds == ModelSpec => []PresetsInOrder
<1>1. ModelInit => PresetInv
  BY PresetStarts
<1>2. ModelInv /\ PresetInv /\ [ModelNext]_modelVars => PresetInv'
  BY PresetKeeps
<1>3. ModelInv /\ PresetInv => PresetsInOrder
  BY OrderedIsInOrder
<1> QED
  BY <1>1, <1>2, <1>3, ModelInvAlways, PTL DEF ModelSpec

------------------------------------------------------------------------------
(* Plugins *)

\* Of a set of numbers one is the least.
LEMMA LeastOf ==
  ASSUME NEW B, B \subseteq Nat, B # {}
  PROVE  \E m \in B : \A n \in B : m <= n
<1>1. IsWellFoundedOn(OpToRel(<, Nat), Nat)
  BY NatLessThanWellFounded
<1>2. PICK m \in B : \A n \in B : ~(<<n, m>> \in OpToRel(<, Nat))
  BY <1>1, WFMin
<1>3. \A n \in B : ~(n < m)
  BY <1>2 DEF OpToRel
<1>4. ASSUME NEW n \in B PROVE m <= n
  <2>1. ~(n < m) /\ n \in Nat /\ m \in Nat
    BY <1>3
  <2> QED
    BY <2>1
<1> QED
  BY <1>4

Unique(s) == \A i, j \in DOMAIN s : s[i] = s[j] => i = j

LEMMA PluginAppended ==
  ASSUME NEW D, NEW s \in Seq(D), NEW x \in D
  PROVE  /\ Append(s, x) \in Seq(D) /\ Len(Append(s, x)) = Len(s) + 1 /\ Len(s) \in Nat
         /\ DOMAIN s = 1..Len(s) /\ DOMAIN Append(s, x) = 1..(Len(s) + 1)
         /\ Append(s, x)[Len(s) + 1] = x /\ \A i \in 1..Len(s) : Append(s, x)[i] = s[i]
         /\ Members(Append(s, x)) = Members(s) \cup {x}
         /\ Unique(s) /\ x \notin Members(s) => Unique(Append(s, x))
<1> DEFINE t == Append(s, x)
<1>1. /\ t \in Seq(D) /\ Len(t) = Len(s) + 1 /\ Len(s) \in Nat
      /\ DOMAIN s = 1..Len(s) /\ DOMAIN t = 1..(Len(s) + 1)
      /\ t[Len(s) + 1] = x /\ \A i \in 1..Len(s) : t[i] = s[i]
  OBVIOUS
<1> HIDE DEF t
<1>2. 1..(Len(s) + 1) = 1..Len(s) \cup {Len(s) + 1}
  BY <1>1
<1>3. Members(t) = Members(s) \cup {x}
  BY <1>1, <1>2 DEF Members
<1>4. Unique(s) /\ x \notin Members(s) => Unique(t)
  BY <1>1, <1>2 DEF Unique, Members
<1> QED
  BY <1>1, <1>3, <1>4 DEF t

LEMMA PluginTailed ==
  ASSUME NEW D, NEW s \in Seq(D), s # <<>>
  PROVE  /\ Tail(s) \in Seq(D) /\ Len(s) \in Nat \ {0} /\ Len(Tail(s)) = Len(s) - 1 /\ Head(s) = s[1] /\ Head(s) \in D
         /\ DOMAIN s = 1..Len(s) /\ DOMAIN Tail(s) = 1..(Len(s) - 1)
         /\ \A i \in 1..(Len(s) - 1) : Tail(s)[i] = s[i + 1]
         /\ Members(s) = {Head(s)} \cup Members(Tail(s))
         /\ Unique(s) => Unique(Tail(s)) /\ Head(s) \notin Members(Tail(s))
<1> DEFINE t == Tail(s)
<1>1. /\ t \in Seq(D) /\ Len(s) \in Nat \ {0} /\ Len(t) = Len(s) - 1 /\ Head(s) = s[1] /\ Head(s) \in D
      /\ DOMAIN s = 1..Len(s) /\ DOMAIN t = 1..(Len(s) - 1)
      /\ \A i \in 1..(Len(s) - 1) : t[i] = s[i + 1]
  OBVIOUS
<1> HIDE DEF t
<1>2. Members(s) = {Head(s)} \cup Members(t)
  <2>1. ASSUME NEW i \in 1..Len(s), i # 1 PROVE i - 1 \in 1..(Len(s) - 1) /\ s[i] = t[i - 1]
    <3>1. i - 1 \in 1..(Len(s) - 1) /\ (i - 1) + 1 = i
      BY <1>1, <2>1
    <3> QED
      BY <1>1, <3>1
  <2>2. \A i \in 1..(Len(s) - 1) : i + 1 \in 1..Len(s)
    BY <1>1
  <2>3. 1 \in 1..Len(s)
    BY <1>1
  <2>4. Members(s) \subseteq {Head(s)} \cup Members(t)
    BY <1>1, <2>1 DEF Members
  <2>5. {Head(s)} \cup Members(t) \subseteq Members(s)
    BY <1>1, <2>2, <2>3 DEF Members
  <2> QED
    BY <2>4, <2>5
<1>3. ASSUME Unique(s) PROVE Unique(t) /\ Head(s) \notin Members(t)
  <2>1. \A i \in 1..(Len(s) - 1) : i + 1 \in 1..Len(s) /\ i + 1 # 1
    BY <1>1
  <2>2. 1 \in 1..Len(s)
    BY <1>1
  <2>3. Unique(t)
    <3> SUFFICES ASSUME NEW i \in 1..(Len(s) - 1), NEW j \in 1..(Len(s) - 1), t[i] = t[j] PROVE i = j
      BY <1>1 DEF Unique
    <3>1. i + 1 = j + 1
      BY <1>1, <1>3, <2>1 DEF Unique
    <3> QED
      BY <1>1, <3>1
  <2>4. ASSUME NEW i \in 1..(Len(s) - 1) PROVE t[i] # Head(s)
    BY <1>1, <1>3, <2>1, <2>2 DEF Unique
  <2>5. Head(s) \notin Members(t)
    BY <1>1, <2>4 DEF Members
  <2> QED
    BY <2>3, <2>5
<1> QED
  BY <1>1, <1>2, <1>3 DEF t

LEMMA PluginJoined ==
  ASSUME NEW D, NEW s \in Seq(D), NEW t \in Seq(D)
  PROVE  /\ s \o t \in Seq(D) /\ Members(s \o t) = Members(s) \cup Members(t)
         /\ Unique(s) /\ Unique(t) /\ Members(s) \cap Members(t) = {} => Unique(s \o t)
         /\ s \o t = <<>> <=> s = <<>> /\ t = <<>>
<1> DEFINE u == s \o t
<1>1. /\ u \in Seq(D) /\ Len(u) = Len(s) + Len(t) /\ Len(s) \in Nat /\ Len(t) \in Nat
      /\ DOMAIN s = 1..Len(s) /\ DOMAIN t = 1..Len(t) /\ DOMAIN u = 1..(Len(s) + Len(t))
      /\ \A i \in 1..Len(s) : u[i] = s[i]
      /\ \A i \in 1..Len(t) : u[Len(s) + i] = t[i]
  BY LenProperties
<1>2. u = <<>> <=> s = <<>> /\ t = <<>>
  OBVIOUS
<1> HIDE DEF u
<1>3. ASSUME NEW i \in 1..(Len(s) + Len(t))
      PROVE  (i \in 1..Len(s) /\ u[i] = s[i]) \/ (i - Len(s) \in 1..Len(t) /\ u[i] = t[i - Len(s)])
  <2>1. CASE i <= Len(s)
    BY <1>1, <2>1
  <2>2. CASE i > Len(s)
    <3>1. i - Len(s) \in 1..Len(t) /\ Len(s) + (i - Len(s)) = i
      BY <1>1, <2>2
    <3> QED
      BY <1>1, <3>1
  <2> QED
    BY <1>1, <2>1, <2>2
<1>4. Members(u) = Members(s) \cup Members(t)
  <2>1. \A i \in 1..Len(t) : Len(s) + i \in 1..(Len(s) + Len(t))
    BY <1>1
  <2>2. \A i \in 1..Len(s) : i \in 1..(Len(s) + Len(t))
    BY <1>1
  <2>3. Members(s) \cup Members(t) \subseteq Members(u)
    BY <1>1, <2>1, <2>2 DEF Members
  <2>4. Members(u) \subseteq Members(s) \cup Members(t)
    BY <1>1, <1>3 DEF Members
  <2> QED
    BY <2>3, <2>4
<1>5. ASSUME Unique(s), Unique(t), Members(s) \cap Members(t) = {} PROVE Unique(u)
  <2> SUFFICES ASSUME NEW i \in 1..(Len(s) + Len(t)), NEW j \in 1..(Len(s) + Len(t)), u[i] = u[j]
               PROVE  i = j
    BY <1>1 DEF Unique
  <2>3. (\A k \in 1..Len(s) : s[k] \in Members(s)) /\ \A k \in 1..Len(t) : t[k] \in Members(t)
    BY <1>1 DEF Members
  <2>1. CASE i \in 1..Len(s) /\ u[i] = s[i]
    <3>1. j \in 1..Len(s) /\ u[j] = s[j]
      BY <1>3, <1>5, <2>1, <2>3
    <3> QED
      BY <1>1, <1>5, <2>1, <3>1 DEF Unique
  <2>2. CASE i - Len(s) \in 1..Len(t) /\ u[i] = t[i - Len(s)]
    <3>1. j - Len(s) \in 1..Len(t) /\ u[j] = t[j - Len(s)]
      BY <1>3, <1>5, <2>2, <2>3
    <3>2. i - Len(s) = j - Len(s)
      BY <1>1, <1>5, <2>2, <3>1 DEF Unique
    <3> QED
      BY <1>1, <3>2
  <2> QED
    BY <1>3, <2>1, <2>2
<1> QED
  BY <1>1, <1>2, <1>4, <1>5 DEF u

------------------------------------------------------------------------------
LEMMA PluginsFinite == IsFiniteSet(PluginNames)
<1> DEFINE f == [k \in DOMAIN Directory |-> Directory[k]]
<1>1. DOMAIN Directory = 1..Len(Directory) /\ Len(Directory) \in Nat
  BY PluginAssumption DEF PluginAssumption
<1>2. f \in Surjection(DOMAIN Directory, PluginNames)
  BY DEF Surjection, PluginNames
<1>3. IsFiniteSet(DOMAIN Directory)
  BY <1>1, FS_Interval
<1> QED
  BY <1>2, <1>3, FS_Surjection

\* A sequence without repetitions is as long as it has members.
LEMMA UniqueCounted ==
  ASSUME NEW D, NEW s \in Seq(D), Unique(s)
  PROVE  IsFiniteSet(Members(s)) /\ Cardinality(Members(s)) = Len(s)
<1> DEFINE f == [k \in 1..Len(s) |-> s[k]]
<1>1. DOMAIN s = 1..Len(s) /\ Len(s) \in Nat
  OBVIOUS
<1> HIDE DEF f
<1>2. f \in Bijection(1..Len(s), Members(s))
  <2>1. f \in [1..Len(s) -> Members(s)] /\ \A k \in 1..Len(s) : f[k] = s[k]
    BY <1>1 DEF Members, f
  <2>2. \A i, j \in 1..Len(s) : f[i] = f[j] => i = j
    BY <1>1, <2>1 DEF Unique
  <2>3. \A x \in Members(s) : \E k \in 1..Len(s) : f[k] = x
    BY <1>1, <2>1 DEF Members
  <2>4. f \in Injection(1..Len(s), Members(s))
    BY <2>1, <2>2 DEF Injection, IsInjective
  <2>5. f \in Surjection(1..Len(s), Members(s))
    BY <2>1, <2>3 DEF Surjection
  <2> QED
    BY <2>4, <2>5 DEF Bijection
<1>3. IsFiniteSet(1..Len(s)) /\ Cardinality(1..Len(s)) = Len(s)
  BY <1>1, FS_Interval
<1>4. ExistsBijection(1..Len(s), Members(s))
  BY <1>2 DEF ExistsBijection
<1> QED
  BY <1>3, <1>4, FS_Bijection

Rising(s) == \A i, j \in DOMAIN s : i < j => Position(s[i]) < Position(s[j])

\* There is a sequence of the plugins of S in the order of the directory.
LEMMA ListedExists ==
  ASSUME NEW S, S \subseteq PluginNames
  PROVE  \E s \in [1..Cardinality(S) -> S] : Members(s) = S /\ Rising(s)
<1> DEFINE N == Len(Directory)
           Up(n) == {p \in S : Position(p) <= n}
           Fine(s, n) == Members(s) = Up(n) /\ Rising(s)
<1>1. DOMAIN Directory = 1..N /\ N \in Nat
  BY PluginAssumption DEF PluginAssumption
<1>2. \A p \in PluginNames : Position(p) \in 1..N /\ Directory[Position(p)] = p
  <2> SUFFICES ASSUME NEW p \in PluginNames PROVE Position(p) \in 1..N /\ Directory[Position(p)] = p
    OBVIOUS
  <2>1. \E k \in DOMAIN Directory : Directory[k] = p
    BY DEF PluginNames
  <2> QED
    BY <1>1, <2>1 DEF Position
<1> HIDE DEF N
<1>3. \A n \in 0..N : \E s \in Seq(S) : Fine(s, n)
  <2> DEFINE Bad == {n \in 0..N : ~\E s \in Seq(S) : Fine(s, n)}
  <2> SUFFICES ASSUME Bad # {} PROVE FALSE
    OBVIOUS
  <2>1. PICK m \in Bad : \A n \in Bad : m <= n
    <3>1. Bad \subseteq Nat
      BY <1>1
    <3> HIDE DEF Bad
    <3> QED
      BY <3>1, LeastOf
  <2>2. m # 0
    <3>1. Up(0) = {}
      BY <1>2
    <3>2. <<>> \in Seq(S) /\ Members(<<>>) = {} /\ Rising(<<>>)
      BY DEF Members, Rising
    <3> QED
      BY <3>1, <3>2
  <2>3. m - 1 \in 0..N /\ m - 1 \notin Bad /\ m \in 1..N
    BY <1>1, <2>1, <2>2
  <2>4. PICK s \in Seq(S) : Fine(s, m - 1)
    BY <2>3
  <2> DEFINE p == Directory[m]
  <2>5. p \in PluginNames /\ Position(p) = m
    BY <1>1, <1>2, <2>3, PluginAssumption DEF PluginNames, PluginAssumption
  <2>6. \A q \in S : Position(q) <= m <=> Position(q) <= m - 1 \/ q = p
    <3> SUFFICES ASSUME NEW q \in S PROVE Position(q) <= m <=> Position(q) <= m - 1 \/ q = p
      OBVIOUS
    <3>1. Position(q) \in 1..N /\ Directory[Position(q)] = q
      BY <1>2
    <3>2. Position(q) = m <=> q = p
      BY <2>5, <3>1
    <3> QED
      BY <1>1, <2>3, <3>1, <3>2
  <2>7. CASE p \notin S
    <3>1. Up(m) = Up(m - 1)
      BY <2>6, <2>7
    <3> QED
      BY <2>1, <2>4, <3>1
  <2>8. CASE p \in S
    <3> DEFINE t == Append(s, p)
    <3>1. /\ t \in Seq(S) /\ Members(t) = Members(s) \cup {p} /\ Len(s) \in Nat
          /\ DOMAIN s = 1..Len(s) /\ DOMAIN t = 1..(Len(s) + 1)
          /\ t[Len(s) + 1] = p /\ \A i \in 1..Len(s) : t[i] = s[i]
      BY <2>8, PluginAppended
    <3> HIDE DEF t
    <3>2. Up(m) = Up(m - 1) \cup {p}
      BY <1>1, <2>3, <2>5, <2>6, <2>8
    <3>3. Rising(t)
      <4> SUFFICES ASSUME NEW i \in 1..(Len(s) + 1), NEW j \in 1..(Len(s) + 1), i < j
                   PROVE  Position(t[i]) < Position(t[j])
        BY <3>1 DEF Rising
      <4>1. i \in 1..Len(s) /\ t[i] = s[i]
        BY <3>1
      <4>2. CASE j \in 1..Len(s)
        BY <2>4, <3>1, <4>1, <4>2 DEF Rising
      <4>3. CASE j = Len(s) + 1
        <5>1. s[i] \in Up(m - 1)
          BY <2>4, <3>1, <4>1 DEF Members
        <5>2. Position(s[i]) <= m - 1 /\ Position(s[i]) \in Nat
          BY <1>2, <5>1
        <5> QED
          BY <1>1, <2>3, <2>5, <3>1, <4>1, <4>3, <5>2
      <4> QED
        BY <3>1, <4>2, <4>3
    <3>4. Fine(t, m)
      BY <2>4, <3>1, <3>2, <3>3
    <3> QED
      BY <2>1, <3>1, <3>4
  <2> QED
    BY <2>7, <2>8
<1>4. PICK s \in Seq(S) : Members(s) = Up(N) /\ Rising(s)
  BY <1>1, <1>3
<1>5. Up(N) = S
  BY <1>1, <1>2
<1>6. Unique(s)
  <2> SUFFICES ASSUME NEW i \in DOMAIN s, NEW j \in DOMAIN s, s[i] = s[j] PROVE i = j
    BY DEF Unique
  <2>1. ~(i < j) /\ ~(j < i)
    <3>1. Position(s[i]) \in Nat
      BY <1>2, s[i] \in S
    <3> QED
      BY <1>4, <3>1 DEF Rising
  <2>2. i \in Nat /\ j \in Nat
    OBVIOUS
  <2> QED
    BY <2>1, <2>2
<1>7. Cardinality(S) = Len(s)
  BY <1>4, <1>5, <1>6, UniqueCounted
<1>8. s \in [1..Cardinality(S) -> S]
  BY <1>7
<1> QED
  BY <1>4, <1>5, <1>8

LEMMA AsListedIs ==
  ASSUME NEW S, S \subseteq PluginNames
  PROVE  AsListed(S) \in Seq(PluginNames) /\ Members(AsListed(S)) = S /\ Unique(AsListed(S))
<1> DEFINE s == AsListed(S)
<1>1. s \in [1..Cardinality(S) -> S] /\ Members(s) = S /\ Rising(s)
  BY ListedExists DEF AsListed, Rising
<1>2. IsFiniteSet(S)
  BY PluginsFinite, FS_Subset
<1>3. Cardinality(S) \in Nat
  BY <1>2, FS_CardinalityType
<1> HIDE DEF s
<1>4. s \in Seq(PluginNames) /\ DOMAIN s = 1..Cardinality(S)
  BY <1>1, <1>3
<1>5. Unique(s)
  <2> SUFFICES ASSUME NEW i \in DOMAIN s, NEW j \in DOMAIN s, s[i] = s[j] PROVE i = j
    BY DEF Unique
  <2>1. \E k \in DOMAIN Directory : Directory[k] = s[i]
    <3>1. s[i] \in PluginNames
      BY <1>1
    <3> QED
      BY <3>1 DEF PluginNames
  <2>2. Position(s[i]) \in Nat
    BY <2>1, PluginAssumption DEF Position, PluginAssumption
  <2>3. ~(i < j) /\ ~(j < i)
    BY <1>1, <2>2 DEF Rising
  <2>4. i \in Nat /\ j \in Nat
    BY <1>3, <1>4
  <2> QED
    BY <2>3, <2>4
<1> QED
  BY <1>1, <1>4, <1>5 DEF s

------------------------------------------------------------------------------
(* The order.  Every plugin is counted the dependencies that are not in the order
   yet; it is in the order or in the queue when none is left, and its dependencies
   are in the order before it. *)

Awaits(p) == {q \in PluginNames : needs[p][q] # "no" /\ q \notin Members(order)}

Resolving ==
  /\ Unique(order) /\ Unique(queue) /\ Members(order) \cap Members(queue) = {}
  /\ \A p \in PluginNames : degree[p] = Cardinality(Awaits(p))
  /\ \A p \in PluginNames : degree[p] = 0 <=> p \in Members(order) \cup Members(queue)
  /\ \A k \in DOMAIN order, q \in PluginNames :
       needs[order[k]][q] # "no" => \E j \in 1..(k - 1) : order[j] = q

(* The plugins to load; the first of them have been loaded, have failed or lack
   something that will not come. *)
LoadPlan == IF loader = "ordered" THEN order ELSE Directory
Behind == Len(LoadPlan) - Len(remaining)
Tried(i) == LoadPlan[i] \in Members(loaded) \cup broken \/ Unmet(LoadPlan[i])

LoadingGoesOn ==
  /\ Behind \in Nat /\ \A i \in DOMAIN remaining : remaining[i] = LoadPlan[Behind + i]
  /\ Members(loaded) \cup broken \subseteq {LoadPlan[i] : i \in 1..Behind}
  /\ broken \cap Members(loaded) = {}
  /\ loader = "ordered" => \A i \in 1..Behind : Tried(i)

PluginTyped ==
  /\ degree \in [PluginNames -> 0..MaxNeeds]
  /\ {queue, order, remaining, loaded} \subseteq Seq(PluginNames)
  /\ Members(loaded) \subseteq registered
  /\ loader # "ordered" => queue = <<>>

PluginInv ==
  /\ PluginTyped
  /\ loader = "ordered" => Resolving /\ RequirementsFirst
  /\ IF queue = <<>> THEN LoadingGoesOn ELSE remaining = <<>> /\ loaded = <<>> /\ broken = {}

LEMMA DegreeBound ==
  ASSUME needs \in Declarations, NEW p \in PluginNames
  PROVE  Degree(p) \in 0..MaxNeeds
<1> DEFINE Needed == {q \in PluginNames : needs[p][q] # "no"}
           Edges == PluginNames \X (PluginNames \cup {Missing})
           Chosen == {E \in SUBSET Edges : Cardinality(E) <= MaxNeeds}
           AsNeeds(E, O) == [r \in PluginNames |-> [q \in PluginNames \cup {Missing} |->
                               IF <<r, q>> \in O THEN "optional"
                               ELSE IF <<r, q>> \in E THEN "required" ELSE "no"]]
<1>1. PICK E \in SUBSET Edges : Cardinality(E) <= MaxNeeds /\ \E O \in SUBSET E : needs = AsNeeds(E, O)
  <2>1. needs \in UNION {{AsNeeds(E, O) : O \in SUBSET E} : E \in Chosen}
    BY DEF Declarations
  <2> HIDE DEF AsNeeds, Chosen
  <2>2. PICK E \in Chosen : needs \in {AsNeeds(E, O) : O \in SUBSET E}
    BY <2>1
  <2>3. \E O \in SUBSET E : needs = AsNeeds(E, O)
    BY <2>2
  <2> QED
    BY <2>2, <2>3 DEF Chosen
<1>2. PICK O \in SUBSET E : needs = AsNeeds(E, O)
  BY <1>1
<1>3. \A q \in Needed : <<p, q>> \in E
  <2> SUFFICES ASSUME NEW q \in PluginNames, needs[p][q] # "no" PROVE <<p, q>> \in E
    OBVIOUS
  <2>1. needs[p][q] = IF <<p, q>> \in O THEN "optional" ELSE IF <<p, q>> \in E THEN "required" ELSE "no"
    BY <1>2
  <2> QED
    BY <1>2, <2>1
<1>4. IsFiniteSet(E)
  <2>1. IsFiniteSet(PluginNames \cup {Missing})
    BY PluginsFinite, FS_AddElement
  <2>2. IsFiniteSet(Edges)
    BY PluginsFinite, <2>1, FS_Product
  <2> QED
    BY <1>1, <2>2, FS_Subset
<1>5. MaxNeeds \in Nat
  BY PluginAssumption DEF PluginAssumption
<1> DEFINE f == [q \in Needed |-> <<p, q>>]
<1>6. f \in Injection(Needed, E)
  BY <1>3 DEF Injection, IsInjective
<1>7. IsFiniteSet(Needed) /\ Cardinality(Needed) <= Cardinality(E)
  BY <1>4, <1>6, FS_Injection
<1>8. Cardinality(Needed) \in Nat /\ Cardinality(E) \in Nat
  BY <1>4, <1>7, FS_CardinalityType
<1> QED
  BY <1>1, <1>5, <1>7, <1>8 DEF Degree

LEMMA PluginStarts == PluginInit => PluginInv
<1> SUFFICES ASSUME PluginInit PROVE PluginInv
  OBVIOUS
<1> DEFINE S == {p \in PluginNames : Degree(p) = 0}
<1>1. AsListed(S) \in Seq(PluginNames) /\ Members(AsListed(S)) = S /\ Unique(AsListed(S))
  BY AsListedIs
<1> HIDE DEF S
<1>2. Directory \in Seq(PluginNames) /\ <<>> \in Seq(PluginNames) /\ Members(<<>>) = {} /\ Unique(<<>>)
  BY PluginAssumption DEF PluginAssumption, Members, Unique
<1>3. /\ queue = IF loader = "ordered" THEN AsListed(S) ELSE <<>>
      /\ order = <<>> /\ remaining = IF loader = "ordered" THEN <<>> ELSE Directory
      /\ broken = {} /\ loaded = <<>> /\ registered = {}
  BY DEF PluginInit, Roots, S
<1>4. degree = [p \in PluginNames |-> Degree(p)]
  BY DEF PluginInit
<1>5. degree \in [PluginNames -> 0..MaxNeeds]
  BY <1>4, DegreeBound DEF PluginInit
<1>6. PluginTyped
  BY <1>1, <1>2, <1>3, <1>5 DEF PluginTyped
<1>7. ASSUME loader = "ordered" PROVE Resolving /\ RequirementsFirst
  <2>1. \A p \in PluginNames : degree[p] = Cardinality(Awaits(p))
    BY <1>2, <1>3, <1>4 DEF Awaits, Degree
  <2>2. \A p \in PluginNames : degree[p] = 0 <=> p \in Members(order) \cup Members(queue)
    BY <1>1, <1>2, <1>3, <1>4, <1>7 DEF S
  <2> QED
    BY <1>1, <1>2, <1>3, <1>7, <2>1, <2>2 DEF Resolving, RequirementsFirst
<1>8. LoadingGoesOn \/ queue # <<>>
  <2> SUFFICES ASSUME queue = <<>> PROVE LoadingGoesOn
    OBVIOUS
  <2>1. LoadPlan = remaining
    BY <1>3 DEF LoadPlan
  <2>2. Behind = 0
    BY <1>2, <1>3, <2>1 DEF Behind
  <2> QED
    BY <1>2, <1>3, <2>1, <2>2 DEF LoadingGoesOn
<1>9. queue # <<>> => loader = "ordered"
  BY <1>3
<1> QED
  BY <1>3, <1>6, <1>7, <1>8, <1>9 DEF PluginInv

LEMMA ResolvesKeeps ==
  ASSUME PluginInv, Resolves
  PROVE  PluginInv'
<1> DEFINE next == Head(queue)
           met == Dependents(next)
           rest == [p \in PluginNames |-> IF p \in met THEN degree[p] - 1 ELSE degree[p]]
           news == {p \in met : rest[p] = 0}
           ready == AsListed(news)
<1>1. /\ queue # <<>> /\ degree' = rest /\ order' = Append(order, next) /\ queue' = Tail(queue) \o ready
      /\ remaining' = IF queue' = <<>> THEN order' ELSE <<>>
      /\ UNCHANGED <<needs, loader, broken, loaded, registered>>
  BY DEF Resolves
<1>2. /\ loader = "ordered" /\ loader' = "ordered" /\ Resolving
      /\ loaded = <<>> /\ broken = {} /\ loaded' = <<>> /\ broken' = {}
  BY <1>1 DEF PluginInv, PluginTyped
<1>3. /\ degree \in [PluginNames -> 0..MaxNeeds] /\ MaxNeeds \in Nat
      /\ queue \in Seq(PluginNames) /\ order \in Seq(PluginNames)
      /\ Members(loaded) \subseteq registered
  BY PluginAssumption DEF PluginInv, PluginTyped, PluginAssumption
<1>4. /\ Tail(queue) \in Seq(PluginNames) /\ next \in PluginNames
      /\ Members(queue) = {next} \cup Members(Tail(queue))
      /\ Unique(Tail(queue)) /\ next \notin Members(Tail(queue))
  BY <1>1, <1>2, <1>3, PluginTailed DEF Resolving
<1>5. next \notin Members(order)
  BY <1>2, <1>4 DEF Resolving
<1>6. /\ order' \in Seq(PluginNames) /\ Members(order') = Members(order) \cup {next} /\ Unique(order')
      /\ Len(order) \in Nat /\ DOMAIN order = 1..Len(order) /\ DOMAIN order' = 1..(Len(order) + 1)
      /\ order'[Len(order) + 1] = next /\ \A i \in 1..Len(order) : order'[i] = order[i]
  BY <1>1, <1>2, <1>3, <1>4, <1>5, PluginAppended DEF Resolving
<1>7. met \subseteq PluginNames /\ \A p \in PluginNames : p \in met <=> needs[p][next] # "no"
  BY DEF Dependents
<1>8. ready \in Seq(PluginNames) /\ Members(ready) = news /\ Unique(ready)
  BY <1>7, AsListedIs
<1> HIDE DEF met, ready
<1>9. ASSUME NEW p \in PluginNames
      PROVE  /\ rest[p] = Cardinality(Awaits(p)') /\ rest[p] \in 0..MaxNeeds
             /\ p \in met => degree[p] # 0
  <2>1. Awaits(p)' = Awaits(p) \ {next}
    BY <1>1, <1>6 DEF Awaits
  <2>2. IsFiniteSet(Awaits(p))
    BY PluginsFinite, FS_Subset DEF Awaits
  <2>3. next \in Awaits(p) <=> p \in met
    BY <1>4, <1>5, <1>7 DEF Awaits
  <2>4. degree[p] = Cardinality(Awaits(p)) /\ degree[p] \in 0..MaxNeeds
    BY <1>2, <1>3 DEF Resolving
  <2>5. Cardinality(Awaits(p) \ {next}) = IF p \in met THEN degree[p] - 1 ELSE degree[p]
    BY <2>2, <2>3, <2>4, FS_RemoveElement
  <2>6. degree[p] = 0 => Awaits(p) = {}
    BY <2>2, <2>4, FS_EmptySet
  <2> QED
    BY <1>3, <2>1, <2>3, <2>4, <2>5, <2>6
<1>10. degree' \in [PluginNames -> 0..MaxNeeds]
  BY <1>1, <1>9
<1>11. news \cap (Members(order) \cup Members(queue)) = {}
  BY <1>2, <1>7, <1>9 DEF Resolving
<1>12. /\ queue' \in Seq(PluginNames) /\ Members(queue') = Members(Tail(queue)) \cup news /\ Unique(queue')
  <2>1. Members(Tail(queue)) \cap Members(ready) = {}
    BY <1>4, <1>8, <1>11
  <2> HIDE DEF next, news, rest
  <2> DEFINE t == Tail(queue)
  <2>2. t \in Seq(PluginNames) /\ Unique(t) /\ Members(t) \cap Members(ready) = {} /\ queue' = t \o ready
    BY <1>1, <1>4, <2>1
  <2> HIDE DEF t
  <2>3. queue' \in Seq(PluginNames) /\ Members(queue') = Members(t) \cup Members(ready) /\ Unique(queue')
    BY <1>8, <2>2, PluginJoined
  <2> QED
    BY <1>8, <2>3 DEF t
<1>13. Members(order') \cap Members(queue') = {}
  BY <1>2, <1>4, <1>6, <1>11, <1>12 DEF Resolving
<1>14. \A p \in PluginNames : degree'[p] = 0 <=> p \in Members(order') \cup Members(queue')
  <2> SUFFICES ASSUME NEW p \in PluginNames
               PROVE  rest[p] = 0 <=> p \in Members(order) \cup Members(queue) \cup news
    BY <1>1, <1>4, <1>6, <1>12
  <2>1. degree[p] = 0 <=> p \in Members(order) \cup Members(queue)
    BY <1>2 DEF Resolving
  <2> QED
    BY <1>7, <1>9, <2>1
<1>15. ASSUME NEW k \in DOMAIN order', NEW q \in PluginNames, needs[order'[k]][q] # "no"
       PROVE  \E j \in 1..(k - 1) : order'[j] = q
  <2>1. CASE k \in 1..Len(order)
    <3>1. PICK j \in 1..(k - 1) : order[j] = q
      BY <1>2, <1>6, <1>15, <2>1 DEF Resolving
    <3>2. j \in 1..Len(order)
      BY <1>6, <2>1, <3>1
    <3> QED
      BY <1>6, <3>1, <3>2
  <2>2. CASE k = Len(order) + 1
    <3>1. next \in Members(queue) /\ degree[next] = 0
      BY <1>2, <1>4 DEF Resolving
    <3>2. Awaits(next) = {}
      <4>1. IsFiniteSet(Awaits(next))
        BY PluginsFinite, FS_Subset DEF Awaits
      <4> QED
        BY <1>2, <1>4, <3>1, <4>1, FS_EmptySet DEF Resolving
    <3>3. q \in Members(order)
      BY <1>6, <1>15, <2>2, <3>2 DEF Awaits
    <3>4. PICK j \in 1..Len(order) : order[j] = q
      BY <1>6, <3>3 DEF Members
    <3>5. j \in 1..(k - 1) /\ order'[j] = q
      BY <1>6, <2>2, <3>4
    <3> QED
      BY <3>5
  <2> QED
    BY <1>6, <1>15, <2>1, <2>2
<1>16. Resolving'
  <2>1. \A p \in PluginNames : degree'[p] = Cardinality(Awaits(p)')
    BY <1>1, <1>9
  <2> HIDE DEF rest, news
  <2> QED
    BY <1>1, <1>6, <1>12, <1>13, <1>14, <1>15, <2>1 DEF Resolving
<1>17. remaining' \in Seq(PluginNames) /\ PluginTyped'
  BY <1>1, <1>2, <1>3, <1>6, <1>10, <1>12 DEF PluginTyped
<1>18. RequirementsFirst'
  BY <1>2 DEF RequirementsFirst
<1>19. CASE queue' = <<>>
  <2>1. remaining' = order' /\ LoadPlan' = order' /\ Len(order') \in Nat
    BY <1>1, <1>2, <1>6, <1>19 DEF LoadPlan
  <2>2. Behind' = 0
    BY <2>1 DEF Behind
  <2>3. LoadingGoesOn'
    BY <1>2, <2>1, <2>2 DEF LoadingGoesOn, Members
  <2> QED
    BY <1>16, <1>17, <1>18, <1>19, <2>3 DEF PluginInv
<1>20. CASE queue' # <<>>
  BY <1>1, <1>2, <1>16, <1>17, <1>18, <1>20 DEF PluginInv
<1> QED
  BY <1>19, <1>20

\* The first of the plugins to load is taken from them, loaded or not.
LEMMA TakesKeeps ==
  ASSUME PluginInv, remaining # <<>>, remaining' = Tail(remaining),
         UNCHANGED <<needs, loader, degree, queue, order>>,
         registered \subseteq registered',
         \/ broken' = broken /\ loaded' = Append(loaded, Head(remaining)) /\ Head(remaining) \in registered'
         \/ broken' = broken \cup {Head(remaining)} /\ loaded' = loaded
         \/ broken' = broken /\ loaded' = loaded /\ loader = "ordered" /\ Unmet(Head(remaining)),
         loader = "ordered" /\ loaded' # loaded => ~Unmet(Head(remaining))
  PROVE  PluginInv'
<1> DEFINE x == Head(remaining)
           n == Behind
<1>1. queue = <<>> /\ LoadingGoesOn /\ PluginTyped
  BY DEF PluginInv
<1>2. /\ remaining \in Seq(PluginNames) /\ loaded \in Seq(PluginNames) /\ order \in Seq(PluginNames)
      /\ Directory \in Seq(PluginNames) /\ Members(loaded) \subseteq registered
  BY <1>1, PluginAssumption DEF PluginTyped, PluginAssumption
<1>3. /\ remaining' \in Seq(PluginNames) /\ Len(remaining) \in Nat \ {0} /\ Len(remaining') = Len(remaining) - 1
      /\ x = remaining[1] /\ x \in PluginNames
      /\ DOMAIN remaining = 1..Len(remaining) /\ DOMAIN remaining' = 1..(Len(remaining) - 1)
      /\ \A i \in 1..(Len(remaining) - 1) : remaining'[i] = remaining[i + 1]
  BY <1>2, PluginTailed
<1>4. /\ Append(loaded, x) \in Seq(PluginNames) /\ Members(Append(loaded, x)) = Members(loaded) \cup {x}
      /\ Len(loaded) \in Nat /\ DOMAIN loaded = 1..Len(loaded) /\ DOMAIN Append(loaded, x) = 1..(Len(loaded) + 1)
      /\ Append(loaded, x)[Len(loaded) + 1] = x /\ \A i \in 1..Len(loaded) : Append(loaded, x)[i] = loaded[i]
  BY <1>2, <1>3, PluginAppended
<1>5. /\ LoadPlan \in Seq(PluginNames) /\ LoadPlan' = LoadPlan /\ Len(LoadPlan) \in Nat
      /\ DOMAIN LoadPlan = 1..Len(LoadPlan) /\ Unique(LoadPlan)
  BY <1>2, PluginAssumption DEF LoadPlan, PluginInv, Resolving, Unique, PluginAssumption
<1>6. /\ n \in Nat /\ n = Len(LoadPlan) - Len(remaining) /\ Behind' = n + 1 /\ n + 1 \in 1..Len(LoadPlan)
      /\ \A i \in 1..Len(remaining) : remaining[i] = LoadPlan[n + i]
  BY SMTT(30), <1>1, <1>3, <1>5 DEF LoadingGoesOn, Behind
<1> HIDE DEF n, x
<1>7. x = LoadPlan[n + 1] /\ 1 \in 1..Len(remaining)
  BY <1>3, <1>6
<1>8. /\ x \notin Members(loaded) \cup broken
      /\ \A i \in 1..n : i \in 1..Len(LoadPlan) /\ LoadPlan[i] # x
  <2>1. \A i \in 1..n : i \in 1..Len(LoadPlan) /\ i # n + 1
    BY <1>5, <1>6
  <2>2. \A i \in 1..n : LoadPlan[i] # x
    BY <1>5, <1>6, <1>7, <2>1 DEF Unique
  <2>3. Members(loaded) \cup broken \subseteq {LoadPlan[i] : i \in 1..n}
    BY <1>1 DEF LoadingGoesOn, n
  <2> QED
    BY <2>1, <2>2, <2>3
<1>9. \/ broken' = broken /\ Members(loaded') = Members(loaded) \cup {x} /\ x \in registered'
      \/ broken' = broken \cup {x} /\ loaded' = loaded
      \/ broken' = broken /\ loaded' = loaded /\ loader = "ordered" /\ Unmet(x)
  BY <1>4 DEF x
<1>10. PluginTyped'
  <2>1. loaded' \in Seq(PluginNames)
    BY <1>2, <1>4 DEF x
  <2>2. Members(loaded') \subseteq registered'
    BY <1>2, <1>9
  <2> QED
    BY <1>1, <1>3, <2>1, <2>2 DEF PluginTyped
<1>11. \A i \in DOMAIN remaining' : remaining'[i] = LoadPlan[(n + 1) + i]
  <2> SUFFICES ASSUME NEW i \in 1..(Len(remaining) - 1) PROVE remaining'[i] = LoadPlan[(n + 1) + i]
    BY <1>3
  <2>1. i + 1 \in 1..Len(remaining) /\ (n + 1) + i = n + (i + 1)
    BY <1>3, <1>6
  <2> QED
    BY <1>3, <1>6, <2>1
<1>12. /\ Members(loaded') \cup broken' \subseteq {LoadPlan[i] : i \in 1..(n + 1)}
       /\ broken' \cap Members(loaded') = {}
  <2>1. Members(loaded) \cup broken \subseteq {LoadPlan[i] : i \in 1..n} /\ broken \cap Members(loaded) = {}
    BY <1>1 DEF LoadingGoesOn, n
  <2>2. {LoadPlan[i] : i \in 1..n} \cup {x} \subseteq {LoadPlan[i] : i \in 1..(n + 1)}
    BY <1>6, <1>7
  <2>3. Members(loaded') \cup broken' \subseteq Members(loaded) \cup broken \cup {x}
    BY <1>9
  <2>4. broken' \cap Members(loaded') = {}
    BY <1>8, <1>9, <2>1
  <2> QED
    BY <2>1, <2>2, <2>3, <2>4
<1>13. ASSUME loader = "ordered", NEW i \in 1..(n + 1) PROVE Tried(i)'
  <2>1. CASE i = n + 1
    <3>1. LoadPlan'[i] = x
      BY <1>5, <1>7, <2>1
    <3>2. CASE x \in Members(loaded') \cup broken'
      BY <3>1, <3>2 DEF Tried
    <3>3. CASE loaded' = loaded /\ Unmet(x)
      <4>1. PICK q \in PluginNames \cup {Missing} : needs[x][q] = "required" /\ q \notin Members(loaded)
        BY <3>3 DEF Unmet
      <4>2. needs'[x][q] = "required" /\ q \notin Members(loaded')
        BY <3>3, <4>1
      <4> QED
        BY <3>1, <4>2 DEF Tried, Unmet
    <3> QED
      BY <1>9, <3>2, <3>3
  <2>2. CASE i # n + 1
    <3>1. i \in 1..n /\ Tried(i)
      BY <1>1, <1>6, <1>13, <2>2 DEF LoadingGoesOn, n
    <3>2. CASE LoadPlan[i] \in Members(loaded) \cup broken
      <4>1. Members(loaded) \subseteq Members(loaded') /\ broken \subseteq broken'
        BY <1>9
      <4> QED
        BY <1>5, <3>2, <4>1 DEF Tried
    <3>3. CASE Unmet(LoadPlan[i])
      <4>1. PICK q \in PluginNames \cup {Missing} : needs[LoadPlan[i]][q] = "required" /\ q \notin Members(loaded)
        BY <3>3 DEF Unmet
      <4>2. q # x
        <5> SUFFICES ASSUME q = x PROVE FALSE
          OBVIOUS
        <5>1. LoadPlan = order /\ Resolving
          BY <1>13 DEF LoadPlan, PluginInv
        <5>2. i \in DOMAIN order /\ needs[order[i]][x] # "no" /\ x \in PluginNames
          BY <1>3, <1>5, <1>8, <3>1, <4>1, <5>1 DEF x
        <5>3. PICK j \in 1..(i - 1) : order[j] = x
          BY <5>1, <5>2 DEF Resolving
        <5>4. j \in 1..n
          BY <1>6, <3>1, <5>3
        <5> QED
          BY <1>8, <5>1, <5>3, <5>4
      <4>3. q \notin Members(loaded')
        BY <1>9, <4>1, <4>2
      <4> QED
        BY <1>5, <4>1, <4>3 DEF Tried, Unmet
    <3> QED
      BY <3>1, <3>2, <3>3 DEF Tried
  <2> QED
    BY <2>1, <2>2
<1>14. LoadingGoesOn'
  BY <1>5, <1>6, <1>11, <1>12, <1>13 DEF LoadingGoesOn
<1>15. ASSUME loader = "ordered" PROVE Resolving' /\ RequirementsFirst'
  <2>1. Resolving'
    BY <1>15 DEF PluginInv, Resolving, Awaits
  <2>2. CASE loaded' = loaded
    <3>1. RequirementsFirst /\ needs' = needs
      BY <1>15 DEF PluginInv
    <3> QED
      BY <2>1, <2>2, <3>1 DEF RequirementsFirst
  <2>3. CASE loaded' # loaded
    <3>1. loaded' = Append(loaded, x) /\ ~Unmet(x)
      BY <1>15, <2>3 DEF x
    <3> SUFFICES ASSUME NEW k \in 1..(Len(loaded) + 1), NEW q \in PluginNames \cup {Missing},
                        needs[loaded'[k]][q] = "required"
                 PROVE  \E j \in 1..(k - 1) : loaded'[j] = q
      BY <1>4, <2>1, <3>1 DEF RequirementsFirst
    <3>2. CASE k \in 1..Len(loaded)
      <4>1. PICK j \in 1..(k - 1) : loaded[j] = q
        BY <1>4, <1>15, <3>1, <3>2 DEF PluginInv, RequirementsFirst
      <4>2. j \in 1..Len(loaded)
        BY <1>4, <3>2, <4>1
      <4> QED
        BY <1>4, <3>1, <4>1, <4>2
    <3>3. CASE k = Len(loaded) + 1
      <4>1. q \in Members(loaded)
        BY <1>4, <3>1, <3>3 DEF Unmet
      <4>2. PICK j \in 1..Len(loaded) : loaded[j] = q
        BY <1>4, <4>1 DEF Members
      <4>3. j \in 1..(k - 1)
        BY <1>4, <3>3, <4>2
      <4> QED
        BY <1>4, <3>1, <4>2, <4>3
    <3> QED
      BY <1>4, <3>2, <3>3
  <2> QED
    BY <2>1, <2>2, <2>3
<1> QED
  BY <1>1, <1>10, <1>14, <1>15 DEF PluginInv

LEMMA PluginKeeps == PluginInv /\ [PluginNext]_pluginVars => PluginInv'
<1> SUFFICES ASSUME PluginInv, [PluginNext]_pluginVars PROVE PluginInv'
  OBVIOUS
<1>1. CASE Resolves
  BY <1>1, ResolvesKeeps
<1>2. CASE Skips
  BY <1>2, TakesKeeps DEF Skips
<1>3. CASE Loads
  BY <1>3, TakesKeeps DEF Loads
<1>4. CASE FailsToLoad
  BY <1>4, TakesKeeps DEF FailsToLoad
<1>5. CASE Rejects
  BY <1>5, TakesKeeps DEF Rejects
<1>6. CASE UNCHANGED pluginVars
  <2>1. /\ needs' = needs /\ loader' = loader /\ degree' = degree /\ queue' = queue /\ order' = order
        /\ remaining' = remaining /\ broken' = broken /\ loaded' = loaded /\ registered' = registered
    BY <1>6 DEF pluginVars
  <2>2. PluginTyped' <=> PluginTyped
    BY <2>1 DEF PluginTyped
  <2>3. Resolving' <=> Resolving
    BY <2>1 DEF Resolving, Awaits
  <2>4. RequirementsFirst' <=> RequirementsFirst
    BY <2>1 DEF RequirementsFirst
  <2>5. LoadPlan' = LoadPlan /\ Behind' = Behind
    BY <2>1 DEF LoadPlan, Behind
  <2>6. \A i : Tried(i)' <=> Tried(i)
    BY <2>1, <2>5 DEF Tried, Unmet
  <2>7. LoadingGoesOn' <=> LoadingGoesOn
    BY <2>1, <2>5, <2>6 DEF LoadingGoesOn
  <2> QED
    BY <2>1, <2>2, <2>3, <2>4, <2>7 DEF PluginInv
<1> QED
  BY <1>1, <1>2, <1>3, <1>4, <1>5, <1>6 DEF PluginNext

LEMMA PluginInvAlways == PluginSpec => []PluginInv
BY PluginStarts, PluginKeeps, PTL DEF PluginSpec

(***************************************************************************)
(* The resolver's and the loaders' variables keep their types; no degree   *)
(* goes below zero, and no plugin is both loaded and broken.               *)
(***************************************************************************)
THEOREM PluginTypeCorrect == PluginSpec => []PluginTypeOK
<1>1. ASSUME PluginInv PROVE PluginTypeOK
  <2>1. \A s \in Seq(PluginNames) : Members(s) \subseteq PluginNames
    BY DEF Members
  <2>2. /\ degree \in [PluginNames -> 0..MaxNeeds] /\ Members(loaded) \subseteq registered
        /\ queue \in Seq(PluginNames) /\ order \in Seq(PluginNames) /\ remaining \in Seq(PluginNames)
    BY <1>1 DEF PluginInv, PluginTyped
  <2>3. broken \cap Members(loaded) = {}
    BY <1>1 DEF PluginInv, LoadingGoesOn
  <2> QED
    BY <2>1, <2>2, <2>3 DEF PluginTypeOK
<1> QED
  BY <1>1, PluginInvAlways, PTL

\* Of the plugins on a cycle none is in the order: the first would need another.
LEMMA NoneOnCycles ==
  ASSUME Resolving, order \in Seq(PluginNames)
  PROVE  Members(order) \cap Stuck = {}
<1> SUFFICES ASSUME NEW p \in Members(order), p \in Stuck PROVE FALSE
  OBVIOUS
<1>1. PICK S \in SUBSET PluginNames : p \in S /\ \A r \in S : \E q \in S : needs[r][q] # "no"
  BY DEF Stuck
<1>2. DOMAIN order = 1..Len(order) /\ Len(order) \in Nat
  OBVIOUS
<1> DEFINE At == {k \in 1..Len(order) : order[k] \in S}
<1>3. At \subseteq Nat /\ At # {}
  BY <1>1, <1>2 DEF Members
<1>4. PICK m \in At : \A k \in At : m <= k
  <2> HIDE DEF At
  <2> QED
    BY <1>3, LeastOf
<1>5. PICK q \in S : needs[order[m]][q] # "no"
  BY <1>1, <1>4
<1>6. PICK j \in 1..(m - 1) : order[j] = q
  BY <1>1, <1>2, <1>4, <1>5 DEF Resolving
<1>7. j \in At /\ j < m
  BY <1>2, <1>4, <1>5, <1>6
<1> QED
  BY <1>3, <1>4, <1>7

(***************************************************************************)
(* resolver.py and manager.py: dependencies are loaded first, the order    *)
(* has no plugin twice and none that is on or behind a cycle, and when     *)
(* loading ends a plugin is left out only for a reason.                    *)
(***************************************************************************)
THEOREM LoadedAsDeclaredHolds == PluginSpec => []LoadedAsDeclared
<1>1. ASSUME PluginInv PROVE LoadedAsDeclared
  <2> SUFFICES ASSUME loader = "ordered" 
               PROVE  /\ RequirementsFirst /\ NobodyIsForgotten
                      /\ Cardinality(Members(order)) = Len(order) /\ Members(order) \cap Stuck = {}
    BY DEF LoadedAsDeclared
  <2>1. Resolving /\ RequirementsFirst /\ order \in Seq(PluginNames)
    BY <1>1 DEF PluginInv, PluginTyped
  <2>2. Cardinality(Members(order)) = Len(order)
    BY <2>1, UniqueCounted DEF Resolving
  <2>3. ASSUME LoadingEnds, NEW p \in PluginNames \ Members(loaded)
        PROVE  p \in broken \cup Stuck \/ Unmet(p)
    <3>1. queue = <<>> /\ remaining = <<>> /\ LoadingGoesOn
      BY <1>1, <2>3 DEF PluginInv, LoadingEnds
    <3>2. LoadPlan = order /\ Behind = Len(order) /\ DOMAIN order = 1..Len(order)
      BY <2>1, <3>1 DEF LoadPlan, Behind
    <3>3. CASE p \in Members(order)
      <4>1. PICK i \in 1..Len(order) : order[i] = p
        BY <3>2, <3>3 DEF Members
      <4>2. Tried(i)
        BY <3>1, <3>2 DEF LoadingGoesOn
      <4> QED
        BY <2>3, <3>2, <4>1, <4>2 DEF Tried
    <3>4. CASE p \notin Members(order)
      <4> DEFINE S == PluginNames \ Members(order)
      <4>1. \A r \in S : \E q \in S : needs[r][q] # "no"
        <5> SUFFICES ASSUME NEW r \in S PROVE \E q \in S : needs[r][q] # "no"
          OBVIOUS
        <5>1. degree[r] # 0 /\ degree[r] = Cardinality(Awaits(r))
          BY <2>1, <3>1 DEF Resolving, Members
        <5>2. Awaits(r) # {}
          BY <5>1, FS_EmptySet
        <5> QED
          BY <5>2 DEF Awaits
      <4>2. S \in SUBSET PluginNames /\ p \in S
        BY <3>4
      <4> HIDE DEF S
      <4>3. p \in Stuck
        BY <4>1, <4>2 DEF Stuck
      <4> QED
        BY <4>3
    <3> QED
      BY <3>3, <3>4
  <2> QED
    BY <2>1, <2>2, <2>3, NoneOnCycles DEF NobodyIsForgotten
<1> QED
  BY <1>1, PluginInvAlways, PTL
==============================================================================
