---------------------------- MODULE KnowledgeBases ----------------------------
(* Uploads into knowledge bases (api/routes/rag.py, rag/pipeline, rag/ingestion,
   rag/common/repository.py, rag/embedding/store_manager.py): the queue of upload
   tasks, the indexing of each file in a worker thread, duplicates of documents and
   of chunks, and the deletions that run meanwhile.

   A document is a file of a task.  Its text is a sequence of chunk texts, told
   apart up to the similarity of chunk_dedup.py and stored one by one (a batch of
   the code).  A collection of Chroma (external) that was deleted refuses writes
   through an old handle: a handle is the collection's generation.  Progress, labels and the
   crash of the process are left out. *)
EXTENDS Naturals, FiniteSets, FiniteSetsExt, Sequences, SequencesExt

CONSTANTS
  Default,        \* the knowledge base that may not be deleted
  Bases,          \* knowledge bases
  Uploads,        \* requests to upload: base, files (each a sequence of chunk texts), url
  Near(_, _),     \* two different texts whose SimHash is close
  MaxDrops,       \* bound: deletions of knowledge bases
  MaxConcurrent,  \* uploads that may be indexed at a time
  MaxFinished,    \* finished tasks that are kept
  Faults          \* the calls that may fail: "build", "load", "embed", "delete", "print", "row"

ASSUME KnowledgeBasesAssumption ==
  /\ Default \in Bases
  /\ Uploads \in Seq(Range(Uploads))
  /\ \A r \in Range(Uploads) :
       /\ r.base \in Bases /\ r.url \in BOOLEAN
       /\ r.files \in Seq(Range(r.files)) /\ r.files # <<>> /\ <<>> \notin Range(r.files)
       /\ \A text \in Range(r.files) : text \in Seq(Range(text))
       /\ r.url => Len(r.files) = 1
  /\ {MaxDrops, MaxConcurrent, MaxFinished} \subseteq Nat
  /\ Faults \subseteq {"build", "load", "embed", "delete", "print", "row"}

VARIABLES
  bases,    \* knowledge bases with a record
  rows,     \* documents with a record
  vectors,  \* chunks in the collections
  prints,   \* fingerprints of chunks
  gen,      \* generation of each knowledge base's collection
  tasks,    \* upload requests
  outcome,  \* what became of each file; "left": stopped or in error, its batches not taken back
  known,    \* tasks that the manager still lists, in the order of creation
  dropping  \* deletions under way: of a knowledge base, of a document

vars == <<bases, rows, vectors, prints, gen, tasks, outcome, known, dropping>>

Tasks == DOMAIN Uploads
Files(t) == Uploads[t].files
Docs == UNION {{<<t, i>> : i \in DOMAIN Files(t)} : t \in Tasks}
Terminal == {"completed", "failed", "cancelled"}

Base(d) == Uploads[d[1]].base
Content(d) == Files(d[1])[d[2]]
Chunk(d, i) == [base |-> Base(d), doc |-> d, pos |-> i]
Chunks(d) == {Chunk(d, i) : i \in 1..Len(Content(d))}
Text(chunk) == Content(chunk.doc)[chunk.pos]
Current(t) == <<t, tasks[t].file>>

TypeOK ==
  /\ bases \subseteq Bases /\ rows \subseteq Docs /\ known \in BoundedSeq(Tasks, Len(Uploads))
  /\ vectors \cup prints \subseteq
       UNION {Chunks(d) : d \in Docs}
  /\ gen \in [Bases -> 0..MaxDrops]
  /\ \A t \in Tasks :
       /\ tasks[t].pc \in {"idle", "asked", "waiting", "build", "examine", "embed", "register",
                           "row", "over"}
       /\ tasks[t].status \in {"pending", "running"} \cup Terminal
       /\ tasks[t].file \in 0..Len(Files(t)) /\ tasks[t].handle \in 0..MaxDrops
       /\ tasks[t].done \in Nat
       /\ {tasks[t].stop, tasks[t].temp} \subseteq BOOLEAN
  /\ outcome \in [Docs -> {"none", "uploaded", "skipped", "error", "left", "unrecorded"}]

Init ==
  /\ bases = Bases
  /\ rows = {} /\ vectors = {} /\ prints = {} /\ known = <<>>
  /\ gen = [k \in Bases |-> 0]
  /\ tasks = [t \in Tasks |-> [pc |-> "idle", status |-> "pending", stop |-> FALSE, file |-> 0,
                               done |-> 0, handle |-> 0, temp |-> FALSE]]
  /\ outcome = [d \in Docs |-> "none"]
  /\ dropping = [base |-> [k \in Bases |-> "no"], doc |-> {}]

Stores == <<bases, rows, vectors, prints, gen>>
Unlisted == UNCHANGED <<outcome, known, dropping>>

----------------------------------------------------------------------------
(* The list of tasks *)

\* _evict_finished: finished tasks beyond MaxFinished are forgotten, the oldest first.
Kept(list, ts) ==
  LET finished(i) == ts[list[i]].status \in Terminal
      late(i) == Cardinality({j \in i..Len(list) : finished(j)})
      keep == {list[i] : i \in {j \in DOMAIN list : finished(j) => late(j) <= MaxFinished}}
  IN  SelectSeq(list, LAMBDA t : t \in keep)

\* cancel: a task that waits is cancelled at once, one that runs is told to stop.
Stopped(task) ==
  [task EXCEPT !.stop = TRUE, !.status = IF @ = "pending" THEN "cancelled" ELSE @]

Stoppable(t) == t \in Range(known) /\ tasks[t].status \notin Terminal

CancelTask(t) ==
  /\ Stoppable(t)
  /\ tasks' = [tasks EXCEPT ![t] = Stopped(@)]
  /\ known' = IF tasks[t].status = "pending" THEN Kept(known, tasks') ELSE known
  /\ UNCHANGED <<Stores, outcome, dropping>>

RemoveTask(t) ==
  /\ t \in Range(known) /\ tasks[t].status \in Terminal
  /\ known' = Remove(known, t)
  /\ tasks' = [tasks EXCEPT ![t].stop = TRUE]
  /\ UNCHANGED <<Stores, outcome, dropping>>

----------------------------------------------------------------------------
(* A request to upload: the knowledge base is looked up, the files are saved, and
   only then is the task created and its run started. *)

Asks(t) ==
  /\ tasks[t].pc = "idle"
  /\ Uploads[t].base \in bases
  /\ tasks' = [tasks EXCEPT ![t] = [@ EXCEPT !.pc = "asked", !.temp = ~Uploads[t].url]]
  /\ UNCHANGED Stores /\ Unlisted

\* Saving fails: what was saved is deleted and no task is created.
SaveFails(t) ==
  /\ tasks[t].pc = "asked" /\ ~Uploads[t].url /\ "load" \in Faults
  /\ tasks' = [tasks EXCEPT ![t] = [@ EXCEPT !.pc = "over", !.temp = FALSE]]
  /\ UNCHANGED Stores /\ Unlisted

Creates(t) ==
  /\ tasks[t].pc = "asked"
  /\ tasks' = [tasks EXCEPT ![t].pc = "waiting"]
  /\ known' = Kept(Append(known, t), tasks)
  /\ UNCHANGED <<Stores, outcome, dropping>>

----------------------------------------------------------------------------
(* The run of a task *)

\* The run is over: its verdict, unless there is one already or the task is forgotten, and
\* whatever happened its temporary files are deleted.
Over(t, verdict) ==
  LET task == tasks[t]
      said == IF t \in Range(known) /\ task.status \notin Terminal THEN verdict ELSE task.status
  IN  tasks' = [tasks EXCEPT ![t] = [task EXCEPT !.pc = "over", !.temp = FALSE, !.status = said]]

Working(t) == tasks[t].pc \notin {"idle", "asked", "waiting", "over"}

\* A task that was cancelled or forgotten while it waited is skipped.
Starts(t) ==
  /\ tasks[t].pc = "waiting"
  /\ Cardinality({u \in Tasks : Working(u)}) < MaxConcurrent
  /\ t \in Range(known) /\ tasks[t].status = "pending" /\ ~tasks[t].stop
  /\ tasks' = [tasks EXCEPT ![t] = [@ EXCEPT !.pc = "build", !.status = "running", !.file = 1]]
  /\ UNCHANGED Stores /\ Unlisted

\* A mutated form of Skips: the early return comes before the clean-up.
SkipsUncleaned(t) ==
  /\ tasks[t].pc = "waiting"
  /\ t \notin Range(known) \/ tasks[t].status # "pending" \/ tasks[t].stop
  /\ tasks' = [tasks EXCEPT ![t].pc = "over"]
  /\ UNCHANGED Stores /\ Unlisted

Skips(t) ==
  /\ tasks[t].pc = "waiting"
  /\ t \notin Range(known) \/ tasks[t].status # "pending" \/ tasks[t].stop
  /\ Over(t, "cancelled")
  /\ UNCHANGED Stores /\ Unlisted

\* The next file, or after the last the verdict: failed when no file was uploaded and one
\* was in error; a page that is a duplicate fails too.
FileEnds(t, what) ==
  /\ outcome' = [outcome EXCEPT ![Current(t)] = what]
  /\ IF tasks[t].file < Len(Files(t))
     THEN tasks' = [tasks EXCEPT ![t] = [tasks[t] EXCEPT !.pc = "build", !.file = @ + 1, !.done = 0]]
     ELSE LET all == {outcome'[<<t, i>>] : i \in 1..Len(Files(t))}
          IN  Over(t, IF "uploaded" \notin all /\ ({"error", "left"} \cap all # {} \/ Uploads[t].url)
                      THEN "failed" ELSE "completed")
  /\ UNCHANGED <<known, dropping>>

Reaches(t, pc) == tasks' = [tasks EXCEPT ![t].pc = pc] /\ Unlisted
IsStopped(t) == Over(t, "cancelled") /\ Unlisted

Builds(t) ==
  /\ tasks[t].pc = "build"
  /\ \/ /\ tasks' = [tasks EXCEPT ![t] =
              [@ EXCEPT !.pc = "examine", !.handle = gen[Uploads[t].base]]]
        /\ Unlisted
     \/ "build" \in Faults /\ FileEnds(t, "error")
  /\ UNCHANGED Stores

Live(t) == tasks[t].handle = gen[Uploads[t].base]
Twins(d) == {e \in rows : Content(e) = Content(d)}
NearTwins(d) == {e \in rows : Near(Content(e), Content(d))}

\* A near twin, of any knowledge base, is deleted before the new document is stored: its record,
\* its vectors as far as they are in the new document's collection, and its fingerprints.  The
\* three calls are one step here (they are one run of code in the worker thread, without an await),
\* which may end after the first: a collection that refuses puts the file in error.
Replaces(t, old) ==
  /\ rows' = rows \ {old}
  /\ \/ /\ Live(t)
        /\ vectors' = {c \in vectors : ~(c.doc = old /\ c.base = Uploads[t].base)}
        /\ prints' = {c \in prints : c.doc # old}
        /\ Reaches(t, "embed")
     \/ /\ ~Live(t) \/ "delete" \in Faults
        /\ UNCHANGED <<vectors, prints>> /\ FileEnds(t, "error")

Examines(t) ==
  LET d == Current(t) IN
  /\ tasks[t].pc = "examine"
  /\ \/ /\ tasks[t].stop
        /\ IsStopped(t) /\ UNCHANGED Stores
     \/ /\ ~tasks[t].stop
        /\ \/ "load" \in Faults /\ FileEnds(t, "error") /\ UNCHANGED Stores
           \/ Twins(d) # {} /\ FileEnds(t, "skipped") /\ UNCHANGED Stores
           \/ Twins(d) = {} /\ NearTwins(d) = {} /\ Reaches(t, "embed") /\ UNCHANGED Stores
           \/ /\ Twins(d) = {} /\ UNCHANGED <<bases, gen>>
              /\ \E old \in NearTwins(d) : Replaces(t, old)

\* Chunks of any document with one of the texts are replaced: their fingerprints go, and their
\* vectors as far as they are in this collection (every fingerprint carries the default base).
Displaced(d) == {c \in prints : Text(c) \in Range(Content(d))}

\* _rollback_added: what this file has stored is taken back; an old handle refuses.
\* Its mutated form takes back only the batch that failed.
TakenBackLast(t, kept) ==
  IF Live(t) THEN kept \ {Chunk(Current(t), tasks[t].done + 1)} ELSE vectors
TakenBack(t, kept) ==
  IF Live(t) THEN kept \ Chunks(Current(t)) ELSE vectors

\* The roll-back is best effort: a collection that fails to delete is logged, and what was stored
\* stays, of the batch that failed (n + 1) as much as had been stored.
StaysBehind(t, kept) ==
  /\ "delete" \in Faults /\ Live(t)
  /\ \/ tasks[t].done > 0 /\ vectors' = kept
     \/ ~tasks[t].stop /\ vectors' = kept \cup {Chunk(Current(t), tasks[t].done + 1)}

\* A batch that cannot be embedded or stored puts the file in error.  Its mutated form loses it.
BatchLost(t, what) == Reaches(t, "row")
BatchFails(t, what) == FileEnds(t, what)

\* One batch.  The first is preceded by the displacement of old chunks, which the collection may
\* refuse; whatever goes wrong later, the batches that were stored are to be taken back.
Embeds(t) ==
  LET d == Current(t)
      n == tasks[t].done
      displaced == IF n = 0 THEN Displaced(d) ELSE {}
      kept == {c \in vectors : ~(c \in displaced /\ c.base = Base(d))}
      refused == ~Live(t) /\ displaced # {}
  IN
  /\ tasks[t].pc = "embed"
  /\ prints' = prints \ displaced
  /\ \/ /\ \/ refused
           \/ ~Live(t) /\ ~tasks[t].stop
           \/ "delete" \in Faults /\ displaced # {}
        /\ BatchFails(t, "error") /\ UNCHANGED vectors
     \/ /\ tasks[t].stop /\ ~refused
        /\ \/ IsStopped(t) /\ vectors' = TakenBack(t, kept)
           \/ /\ StaysBehind(t, kept)
              /\ Over(t, "cancelled")
              /\ outcome' = [outcome EXCEPT ![d] = "left"]
              /\ UNCHANGED <<known, dropping>>
     \/ /\ ~tasks[t].stop /\ Live(t) /\ "embed" \in Faults
        /\ \/ BatchFails(t, "error") /\ vectors' = TakenBack(t, kept)
           \/ BatchFails(t, "left") /\ StaysBehind(t, kept)
     \/ /\ ~tasks[t].stop /\ Live(t)
        /\ vectors' = kept \cup {Chunk(d, n + 1)}
        /\ tasks' = [tasks EXCEPT ![t] = [@ EXCEPT
             !.done = n + 1, !.pc = IF n + 1 = Len(Content(d)) THEN "register" ELSE "embed"]]
        /\ Unlisted
  /\ UNCHANGED <<bases, rows, gen>>

\* Fingerprints are registered after the last batch; that they cannot be is only logged.
Registers(t) ==
  /\ tasks[t].pc = "register"
  /\ \/ prints' = prints \cup Chunks(Current(t))
     \/ "print" \in Faults /\ UNCHANGED prints
  /\ Reaches(t, "row")
  /\ UNCHANGED <<bases, rows, vectors, gen>>

\* Back on the event loop the document gets its record, whoever has asked to stop meanwhile.
\* When that raises, the task fails with the files it had uploaded.
Records(t) ==
  LET d == Current(t) IN
  /\ tasks[t].pc = "row"
  /\ \/ rows' = rows \cup {d} /\ FileEnds(t, "uploaded")
     \/ /\ "row" \in Faults /\ UNCHANGED <<rows, known, dropping>>
        /\ outcome' = [outcome EXCEPT ![d] = "unrecorded"]
        /\ Over(t, "failed")
  /\ UNCHANGED <<bases, vectors, prints, gen>>

Run(t) ==
  Creates(t) \/ Starts(t) \/ Skips(t) \/ Builds(t) \/ Examines(t) \/ Embeds(t) \/ Registers(t) \/ Records(t)

----------------------------------------------------------------------------
(* Deletions *)

\* The tasks of the knowledge base are cancelled and its collection is deleted in one go, with the
\* fingerprints that carry its id: all of them carry the default's.
DropBegins(k) ==
  LET stopped == {t \in Tasks : Stoppable(t) /\ Uploads[t].base = k} IN
  /\ dropping.base[k] = "no" /\ MapThenSumSet(LAMBDA b : gen[b], Bases) < MaxDrops
  /\ dropping' = [dropping EXCEPT !.base[k] = "rows"]
  /\ tasks' = [t \in Tasks |-> IF t \in stopped THEN Stopped(tasks[t]) ELSE tasks[t]]
  /\ known' = IF stopped = {} THEN known ELSE Kept(known, tasks')
  /\ gen' = [gen EXCEPT ![k] = @ + 1]
  /\ vectors' = {c \in vectors : c.base # k}
  /\ prints' = IF k = Default THEN {} ELSE prints
  /\ UNCHANGED <<bases, rows, outcome>>

DropsRows(k) ==
  /\ dropping.base[k] = "rows"
  /\ dropping' = [dropping EXCEPT !.base[k] = "record"]
  /\ rows' = {d \in rows : Base(d) # k}
  /\ UNCHANGED <<bases, vectors, prints, gen, tasks, outcome, known>>

\* The record goes last, and the default's is refused.
DropEnds(k) ==
  /\ dropping.base[k] = "record"
  /\ dropping' = [dropping EXCEPT !.base[k] = "no"]
  /\ bases' = IF k = Default THEN bases ELSE bases \ {k}
  /\ UNCHANGED <<rows, vectors, prints, gen, tasks, outcome, known>>

DeleteBegins(d) ==
  /\ d \in rows /\ d \notin dropping.doc
  /\ dropping' = [dropping EXCEPT !.doc = @ \cup {d}]
  /\ vectors' = {c \in vectors : ~(c.doc = d /\ c.base = Base(d))}
  /\ prints' = {c \in prints : c.doc # d}
  /\ UNCHANGED <<bases, rows, gen, tasks, outcome, known>>

DeleteEnds(d) ==
  /\ d \in dropping.doc
  /\ dropping' = [dropping EXCEPT !.doc = @ \ {d}]
  /\ rows' = rows \ {d}
  /\ UNCHANGED <<bases, vectors, prints, gen, tasks, outcome, known>>

----------------------------------------------------------------------------
Request(t) ==
  \/ Asks(t)
  \/ SaveFails(t)
  \/ CancelTask(t)
  \/ RemoveTask(t)

Deletion ==
  \/ \E k \in Bases : DropBegins(k) \/ DropsRows(k) \/ DropEnds(k)
  \/ \E d \in Docs : DeleteBegins(d) \/ DeleteEnds(d)

Quiet == \A t \in Tasks : tasks[t].pc \in {"idle", "over"}

Next ==
  \/ \E t \in Tasks : Request(t) \/ Run(t)
  \/ Deletion
  \/ Quiet /\ UNCHANGED vars

\* The event loop runs every coroutine that is ready, and the worker thread ends each step.
Spec == Init /\ [][Next]_vars /\ \A t \in Tasks : WF_vars(Run(t))

----------------------------------------------------------------------------
(* Properties *)

InWork(d) == Current(d[1]) = d /\ tasks[d[1]].pc \in {"embed", "register", "row"}

\* A file is stored whole or not at all, as far as its roll-back gets through: what was skipped,
\* stopped or in error has left no record and no fingerprint, wherever its indexing ended, and no
\* vector unless the collection failed to take its batches back.
NothingHalfStored ==
  \A d \in Docs :
    outcome[d] \in {"none", "skipped", "error", "left"} /\ ~InWork(d) =>
      /\ d \notin rows
      /\ \A c \in prints : c.doc # d
      /\ outcome[d] # "left" => \A c \in vectors : c.doc # d

\* What indexer.py:431 ("keeps a single file all or nothing") and :411 say of every failure.
\* Refuted: the roll-back is best effort, and the chunks it leaves are found by searches.
AllOrNothing ==
  \A d \in Docs : outcome[d] = "left" => \A c \in vectors : c.doc # d

\* When a document gets its record all its chunks can be found, unless its collection was deleted
\* since: no other upload has displaced them and no failure went unnoticed.
RecordedIsSearchable ==
  [][\A d \in rows' \ rows : Live(d[1]) => Chunks(d) \subseteq vectors]_vars

\* Every upload that was asked for comes to an end, also when it is cancelled in the queue or its
\* knowledge base is deleted, and its temporary files are gone then.
EveryUploadEnds ==
  \A t \in Tasks : tasks[t].pc = "asked" ~> tasks[t].pc = "over" /\ ~tasks[t].temp

\* What indexer.py:218 ("the chunks of the old document are cleaned") and rag.py:304 (deletion
\* leaves no orphans) promise: what can be found belongs to a document with a record.  Refuted:
\* a near twin in another knowledge base loses its record and keeps its vectors.
VectorsHaveRecords ==
  \A c \in vectors : c.doc \in rows \/ InWork(c.doc) \/ outcome[c.doc] = "unrecorded"
==============================================================================
