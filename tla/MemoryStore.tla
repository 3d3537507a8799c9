---------------------------- MODULE MemoryStore -----------------------------
(***************************************************************************)
(* Long-term memory: one document per entry and the index.md that lists    *)
(* them, written by the extractions of several turns and by the wiping of  *)
(* all data.  A document is the fact it states; facts that are near twins  *)
(* are the same fact.  Locks are per file (filestore) and a writer takes   *)
(* the two it needs in the order of their paths.                           *)
(***************************************************************************)
EXTENDS Naturals, FiniteSets, Sequences, Functions

CONSTANTS
  Writers,     \* turns with an extraction, and requests that wipe the data
  Entries,     \* <category>/<slug>
  Early,       \* the entries whose path sorts before index.md
  Facts,
  MaxEntries,  \* the limit of the service
  TopK,        \* how many documents an extraction reads in full
  Index, Nothing, NoWriter

ASSUME MemoryAssumption ==
  /\ Early \subseteq Entries /\ {MaxEntries, TopK} \subseteq Nat
  /\ Index \notin Entries /\ Nothing \notin Facts \cup Entries /\ NoWriter \notin Writers

VARIABLES
  doc,     \* what each entry's document says, or Nothing
  index,   \* what index.md says of each entry
  owner,   \* who holds the lock of each file
  job,     \* what each writer is at
  lagging  \* history: index.md could not be rewritten since a document changed

memoryVars == <<doc, index, owner, job, lagging>>

Library == [Entries -> Facts \cup {Nothing}]
Free == [phase |-> "idle"]
Stored(lib) == {e \in Entries : lib[e] # Nothing}

\* What the model may answer: an action, its target and the entry it writes.
Answers ==
  [act : {"NEW"}, target : {Nothing}, entry : Entries, fact : Facts]
    \cup [act : {"UPDATE"}, target : Entries \cup {Nothing}, entry : Entries, fact : Facts]
    \cup [act : {"DELETE"}, target : Entries \cup {Nothing}]

\* _validate_target: what is not in the index as it was loaded is not there.
Validated(a, seen) ==
  IF a.act = "NEW" \/ (a.target # Nothing /\ seen[a.target] # Nothing) THEN a
  ELSE IF a.act = "UPDATE" THEN [a EXCEPT !.act = "NEW", !.target = Nothing]
  ELSE [act |-> "NOOP"]

\* An entry that exists is updated.  A twin elsewhere only becomes the target
\* that is reported: the entry is still written to its own path.
Guarded(a, seen) ==
  IF a.act # "NEW" THEN {a}
  ELSE IF seen[a.entry] # Nothing THEN {[a EXCEPT !.act = "UPDATE", !.target = a.entry]}
  ELSE LET twins == {e \in Stored(seen) : seen[e] = a.fact}
       IN  IF twins = {} THEN {a}
           ELSE {[a EXCEPT !.act = "UPDATE", !.target = e] : e \in twins}

Path(d) == IF d.act = "DELETE" THEN d.target ELSE d.entry

\* The fault LibraryInOrder guards against: an entry is written under its own lock.
EntryAlone(d) == IF d.act = "WIPE" THEN <<Index>> ELSE <<Path(d)>>

\* The fault NoRing guards against: locks are taken in the order each caller names them.
AsListed(d) ==
  IF d.act = "WIPE" THEN <<Index>>
  ELSE IF d.act = "DELETE" THEN <<Index, Path(d)>> ELSE <<Path(d), Index>>

\* The files a decision locks, in the order of their paths.
Keys(d) ==
  IF d.act = "WIPE" THEN <<Index>>
  ELSE IF Path(d) \in Early THEN <<Path(d), Index>> ELSE <<Index, Path(d)>>

\* The fault EveryWriterEnds guards against: a lock outlives its writer.
ReleasedButOne(w) == [k \in DOMAIN owner |-> IF owner[k] = w /\ k # Index THEN NoWriter ELSE owner[k]]

\* The locks are released in reverse order, however the writer ends.
ReleasedBy(w) == [k \in DOMAIN owner |-> IF owner[k] = w THEN NoWriter ELSE owner[k]]

MemoryTypeOK ==
  /\ doc \in Library /\ index \in Library /\ lagging \in BOOLEAN
  /\ owner \in [Entries \cup {Index} -> Writers \cup {NoWriter}]
  /\ \A w \in Writers : job[w].phase \in 
       {"idle", "recalling", "asking", "locking", "checking", "writing", "scanning", "indexing"}

MemoryInit ==
  /\ doc = [e \in Entries |-> Nothing] /\ index = doc /\ lagging = FALSE
  /\ owner = [k \in Entries \cup {Index} |-> NoWriter]
  /\ job = [w \in Writers |-> Free]

\* A read takes the lock of its file and gives it back at once.
Readable(k) == owner[k] = NoWriter

\* An extraction loads the index, and ranks what bears on the last message.
Loads(w) ==
  /\ job[w] = Free /\ Readable(Index)
  /\ \E n \in 0..TopK : \E hits \in [1..n -> Stored(doc)] :
       /\ IsInjective(hits)
       /\ job' = [job EXCEPT ![w] = [phase |-> "recalling", seen |-> doc, hits |-> hits]]
  /\ UNCHANGED <<doc, index, owner, lagging>>

\* Those documents are read one by one; one that has gone is passed over.  With
\* all of them in the prompt the model is asked, and no lock is held.
Recalls(w) ==
  /\ job[w].phase = "recalling"
  /\ job[w].hits # <<>> => Readable(Head(job[w].hits))
  /\ job' = [job EXCEPT ![w] =
               IF @.hits = <<>> THEN [phase |-> "asking", seen |-> @.seen]
               ELSE [job[w] EXCEPT !.hits = Tail(@)]]
  /\ UNCHANGED <<doc, index, owner, lagging>>

Wants(w, d) ==
  /\ job' = [job EXCEPT ![w] =
               IF d.act = "NOOP" THEN Free ELSE [phase |-> "locking", todo |-> d, keys |-> Keys(d)]]
  /\ UNCHANGED <<doc, index, owner, lagging>>

\* The model answers, or fails twice or writes instructions: then nothing is done.
Decides(w) ==
  /\ job[w].phase = "asking"
  /\ \/ \E a \in Answers : LET v == Validated(a, job[w].seen)
                           IN  \E d \in Guarded(v, job[w].seen) : Wants(w, d)
     \/ Wants(w, [act |-> "NOOP"])

Wipes(w) == job[w] = Free /\ Wants(w, [act |-> "WIPE"])

Locks(w) ==
  /\ job[w].phase = "locking"
  /\ LET k == Head(job[w].keys)
         rest == Tail(job[w].keys)
     IN  /\ owner[k] = NoWriter
         /\ owner' = [owner EXCEPT ![k] = w]
         /\ job' = [job EXCEPT ![w] =
                      IF rest = <<>> THEN [phase |-> "checking", todo |-> @.todo]
                      ELSE [@ EXCEPT !.keys = rest]]
  /\ UNCHANGED <<doc, index, lagging>>

Closes(w) == job' = [job EXCEPT ![w] = Free] /\ owner' = ReleasedBy(w)

\* The guardrails: a new entry beyond the limit is refused; only the log knows.
Full(d) ==
  /\ d.act \in {"NEW", "UPDATE"}
  /\ doc[d.entry] = Nothing /\ Cardinality(Stored(doc)) >= MaxEntries

Refuses(w) ==
  /\ job[w].phase = "checking" /\ Full(job[w].todo)
  /\ Closes(w) /\ UNCHANGED <<doc, index, lagging>>

Checks(w) ==
  /\ job[w].phase = "checking" /\ ~Full(job[w].todo)
  /\ job' = [job EXCEPT ![w].phase = "writing"]
  /\ UNCHANGED <<doc, index, owner, lagging>>

\* The document is written, or removed, or all of them are.
Recorded(d) ==
  CASE d.act = "WIPE" -> [e \in Entries |-> Nothing]
    [] d.act = "DELETE" -> [doc EXCEPT ![d.target] = Nothing]
    [] OTHER -> [doc EXCEPT ![d.entry] = d.fact]

Writes(w) ==
  /\ job[w].phase = "writing"
  /\ doc' = Recorded(job[w].todo) /\ lagging' = TRUE
  /\ job' = [job EXCEPT ![w].phase = "scanning"]
  /\ UNCHANGED <<index, owner>>

\* The documents are scanned and index.md is made from what was found.
Scans(w) ==
  /\ job[w].phase = "scanning"
  /\ job' = [job EXCEPT ![w] = [phase |-> "indexing", todo |-> @.todo, seen |-> doc]]
  /\ UNCHANGED <<doc, index, owner, lagging>>

Reindexes(w) ==
  /\ job[w].phase = "indexing"
  /\ index' = job[w].seen /\ lagging' = FALSE
  /\ Closes(w) /\ UNCHANGED doc

\* Writing a document or the index fails.
StepFails(w) ==
  /\ job[w].phase \in {"writing", "scanning", "indexing"}
  /\ Closes(w) /\ UNCHANGED <<doc, index, lagging>>

MemoryRestarts ==
  /\ job' = [w \in Writers |-> Free]
  /\ owner' = [k \in DOMAIN owner |-> NoWriter]
  /\ UNCHANGED <<doc, index, lagging>>

Proceeds(w) ==
  \/ Decides(w) \/ Refuses(w) \/ Checks(w) \/ Writes(w)
  \/ Scans(w) \/ Reindexes(w) \/ StepFails(w)

MemoryNext ==
  \/ \E w \in Writers : Loads(w) \/ Recalls(w) \/ Wipes(w) \/ Locks(w) \/ Proceeds(w)
  \/ MemoryRestarts

\* Tasks run, the model answers or fails, and asyncio's locks are first in,
\* first out: who waits for one that is freed again and again gets it.
MemoryFairness ==
  \A w \in Writers : WF_memoryVars(Proceeds(w)) /\ SF_memoryVars(Locks(w)) /\ SF_memoryVars(Recalls(w))

MemorySpec == MemoryInit /\ [][MemoryNext]_memoryVars /\ MemoryFairness

-----------------------------------------------------------------------------
(***************************************************************************)
(* Whenever nobody holds its lock, index.md says what the documents say,   *)
(* unless writing it failed after the last change of a document; and the   *)
(* library never outgrows its limit.  Extractions decide on what they saw  *)
(* before they asked the model, and still neither can undo the other.      *)
(***************************************************************************)
IndexFollows == owner[Index] = NoWriter /\ ~lagging => index = doc
WithinLimit == Cardinality(Stored(doc)) <= MaxEntries
LibraryInOrder == IndexFollows /\ WithinLimit

(***************************************************************************)
(* Writers never wait for one another in a ring: in every set of them      *)
(* there is one that waits for no lock held in the set ("避免不同调用方按  *)
(* 不同顺序加锁导致死锁", locks.py:42-43).                                 *)
(***************************************************************************)
NoRing ==
  \A ring \in (SUBSET Writers) \ {{}} :
    \E w \in ring : ~(job[w].phase = "locking" /\ owner[Head(job[w].keys)] \in ring)

(***************************************************************************)
(* Every extraction and every wiping comes to its end: two of them that    *)
(* want the same two files never wait for each other, and one that fails   *)
(* leaves no lock behind.                                                  *)
(***************************************************************************)
EveryWriterEnds == \A w \in Writers : job[w].phase # "idle" ~> job[w].phase = "idle"

\* Refuted: extractor.py:255-258, "the decision actually carried out (action is
\* what was finally stored)"; a refused or failed write is returned as done.
ReportedIsStored ==
  [][\A w \in Writers :
       (/\ job[w].phase \notin {"idle", "recalling", "asking", "locking"} /\ job'[w] = Free /\ ~MemoryRestarts
        /\ job[w].todo.act \in {"NEW", "UPDATE"})
         => doc'[job[w].todo.entry] = job[w].todo.fact]_memoryVars
=============================================================================
