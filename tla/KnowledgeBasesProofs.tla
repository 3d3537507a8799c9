------------------------- MODULE KnowledgeBasesProofs -------------------------
(* Proofs about KnowledgeBases, for any knowledge bases, uploads, faults and deletions.

   A step of a task touches the stores for the file that the task is at and for no other
   (Own); it may take entries of others away, never add them.  So it is enough to know, of
   each task, what its file has in the stores at each place of its run (AtFile), and, of each
   file that is not being worked on, that it is stored whole or not at all (Settled).  An old
   handle of a collection, which refuses to take chunks back, finds none to take back. *)
EXTENDS KnowledgeBases, FiniteSetTheorems, SequenceTheorems, TLAPS

Places == {"idle", "asked", "waiting", "build", "examine", "embed", "register", "row", "over"}
Unborn == {"idle", "asked", "waiting"}
Storing == {"embed", "register", "row"}
AllChunks == UNION {Chunks(d) : d \in Docs}
TaskRecords ==
  [pc : Places, status : {"pending", "running"} \cup Terminal, stop : BOOLEAN, file : Nat,
   done : Nat, handle : Nat, temp : BOOLEAN]

Typed ==
  /\ tasks \in [Tasks -> TaskRecords]
  /\ bases \subseteq Bases /\ rows \subseteq Docs
  /\ vectors \subseteq AllChunks /\ prints \subseteq AllChunks
  /\ gen \in [Bases -> Nat]
  /\ outcome \in [Docs -> {"none", "uploaded", "skipped", "error", "left", "unrecorded"}]
  /\ dropping \in [base : [Bases -> {"no", "rows", "record"}], doc : SUBSET Docs]

\* Nothing of a document is stored but perhaps vectors; nothing at all.
Tidy(d) == d \notin rows /\ \A c \in prints : c.doc # d
Clean(d) == Tidy(d) /\ \A c \in vectors : c.doc # d

\* What the manager knows of a task at each place of its run: the files from the present one on
\* have no outcome yet, and of the present one so many batches are stored.
AtFile(t) ==
  LET pc == tasks[t].pc
      size == Len(Content(Current(t)))
  IN
  /\ pc \in Unborn => \A i \in 1..Len(Files(t)) : outcome[<<t, i>>] = "none"
  /\ Working(t) => /\ tasks[t].file \in 1..Len(Files(t))
                   /\ \A i \in tasks[t].file..Len(Files(t)) : outcome[<<t, i>>] = "none"
  /\ pc \in Unborn \cup {"build", "examine"} => tasks[t].done = 0
  /\ pc = "embed" => tasks[t].done < size
  /\ pc \in {"register", "row"} => tasks[t].done = size
  /\ tasks[t].handle <= gen[Uploads[t].base]

\* What the file that a task is storing has in the stores.
InStores(t) ==
  LET d == Current(t) IN
  tasks[t].pc \in Storing =>
    /\ d \notin rows
    /\ tasks[t].pc # "row" => \A c \in prints : c.doc # d
    /\ ~Live(t) \/ tasks[t].done = 0 => \A c \in vectors : c.doc # d

Settled(d) ==
  ~InWork(d) => /\ outcome[d] \in {"none", "skipped", "error"} => Clean(d)
                /\ outcome[d] = "left" => Tidy(d)

IInv ==
  /\ Typed
  /\ \A t \in Tasks : AtFile(t) /\ InStores(t)
  /\ \A d \in Docs : Settled(d)

\* When uploads are indexed one at a time, the batches that a task has stored are still there.
Alone == \A t, u \in Tasks : Working(t) /\ Working(u) => t = u
Found(t) ==
  tasks[t].pc \in Storing /\ Live(t) =>
    \A i \in 1..tasks[t].done : Chunk(Current(t), i) \in vectors
SearchInv == Alone /\ \A t \in Tasks : Found(t)

------------------------------------------------------------------------------
(* Documents and chunks *)

LEMMA UploadIs ==
  ASSUME NEW t \in Tasks
  PROVE  /\ Uploads[t].base \in Bases /\ Len(Files(t)) \in Nat /\ Len(Files(t)) # 0
         /\ DOMAIN Files(t) = 1..Len(Files(t))
         /\ \A i \in 1..Len(Files(t)) : Len(Files(t)[i]) \in Nat /\ Len(Files(t)[i]) # 0
<1>1. Uploads[t] \in Range(Uploads)
  BY DEF Range, Tasks
<1> DEFINE fs == Uploads[t].files
<1>2. /\ Uploads[t].base \in Bases /\ fs \in Seq(Range(fs)) /\ fs # <<>> /\ <<>> \notin Range(fs)
      /\ \A text \in Range(fs) : text \in Seq(Range(text))
  <2> HIDE DEF fs
  <2>1. \A r \in Range(Uploads) :
          /\ r.files \in Seq(Range(r.files))
          /\ \A text \in Range(r.files) : text \in Seq(Range(text))
          /\ r.base \in Bases /\ r.files # <<>> /\ <<>> \notin Range(r.files)
    BY KnowledgeBasesAssumption DEF KnowledgeBasesAssumption
  <2> QED BY <1>1, <2>1, Zenon DEF fs
<1>3. DOMAIN fs = 1..Len(fs) /\ Len(fs) \in Nat /\ Len(fs) # 0
  <2> HIDE DEF fs
  <2> QED BY <1>2, EmptySeq, LenProperties
<1>4. ASSUME NEW i \in 1..Len(fs)  PROVE  Len(fs[i]) \in Nat /\ Len(fs[i]) # 0
  <2> HIDE DEF fs
  <2>1. fs[i] \in Range(fs)  BY <1>3 DEF Range
  <2>2. fs[i] \in Seq(Range(fs[i])) /\ fs[i] # <<>>  BY <2>1, <1>2
  <2> QED BY <2>2, EmptySeq, LenProperties
<1> QED BY <1>2, <1>3, <1>4 DEF Files

LEMMA DocIs ==
  ASSUME NEW t \in Tasks, NEW i \in 1..Len(Files(t))
  PROVE  /\ <<t, i>> \in Docs /\ Base(<<t, i>>) = Uploads[t].base
         /\ Len(Content(<<t, i>>)) \in Nat /\ Len(Content(<<t, i>>)) # 0
BY UploadIs DEF Docs, Base, Content

LEMMA DocOf ==
  ASSUME NEW d \in Docs
  PROVE  /\ d[1] \in Tasks /\ d[2] \in 1..Len(Files(d[1])) /\ d = <<d[1], d[2]>>
         /\ Len(Content(d)) \in Nat /\ Len(Content(d)) # 0 /\ Base(d) = Uploads[d[1]].base
<1>1. PICK t \in Tasks : d \in {<<t, i>> : i \in DOMAIN Files(t)}
  BY DEF Docs
<1>2. PICK i \in DOMAIN Files(t) : d = <<t, i>>
  BY <1>1
<1>3. d[1] = t /\ d[2] = i
  BY <1>2
<1> QED BY <1>2, <1>3, UploadIs, DocIs

LEMMA ChunkIs ==
  ASSUME NEW d \in Docs, NEW i \in 1..Len(Content(d))
  PROVE  /\ Chunk(d, i) \in Chunks(d) /\ Chunk(d, i) \in AllChunks
         /\ Chunk(d, i).doc = d /\ Chunk(d, i).base = Base(d)
BY DEF Chunk, Chunks, AllChunks

LEMMA ChunkOf ==
  ASSUME NEW c \in AllChunks
  PROVE  c.doc \in Docs /\ c \in Chunks(c.doc) /\ c.base = Uploads[c.doc[1]].base
<1>1. PICK d \in Docs : c \in Chunks(d)
  BY DEF AllChunks
<1>2. c.doc = d /\ c.base = Base(d)
  BY <1>1 DEF Chunks, Chunk
<1> QED BY <1>1, <1>2, DocOf

LEMMA PresentFile ==
  ASSUME IInv, NEW t \in Tasks, Working(t)
  PROVE  /\ Current(t) \in Docs /\ Current(t)[1] = t /\ Base(Current(t)) = Uploads[t].base
         /\ outcome[Current(t)] = "none"
         /\ tasks[t].file \in 1..Len(Files(t))
         /\ Len(Content(Current(t))) \in Nat /\ Len(Content(Current(t))) # 0
         /\ tasks[t].pc \notin Storing => Clean(Current(t))
<1>1. /\ tasks[t].file \in 1..Len(Files(t))
      /\ \A i \in tasks[t].file..Len(Files(t)) : outcome[<<t, i>>] = "none"
  BY DEF IInv, AtFile
<1>2. Len(Files(t)) \in Nat
  BY UploadIs
<1>3. outcome[<<t, tasks[t].file>>] = "none"
  BY <1>1, <1>2
<1>4. Current(t) \in Docs /\ Base(Current(t)) = Uploads[t].base /\ Current(t)[1] = t
      /\ Len(Content(Current(t))) \in Nat /\ Len(Content(Current(t))) # 0
  BY <1>1, DocIs DEF Current
<1>5. ASSUME tasks[t].pc \notin Storing  PROVE  Clean(Current(t))
  BY <1>3, <1>4, <1>5 DEF IInv, Settled, InWork, Storing, Current
<1> QED BY <1>1, <1>3, <1>4, <1>5 DEF Current

------------------------------------------------------------------------------
(* What the parts of the run do to the task *)

\* The step of one task leaves the others alone, and of the files but the one it is at it takes
\* entries away at most.
OwnStep(t) ==
  /\ \A u \in Tasks : u # t => tasks'[u] = tasks[u]
  /\ gen' = gen
  /\ \A d \in Docs : ~(Working(t) /\ d = Current(t)) =>
       /\ outcome'[d] = outcome[d] /\ (d \in rows' => d \in rows)
       /\ \A c \in vectors' : c.doc = d => c \in vectors
       /\ \A c \in prints' : c.doc = d => c \in prints

LEMMA TaskBecomes ==
  ASSUME Typed, NEW t \in Tasks, NEW r \in TaskRecords, tasks' = [tasks EXCEPT ![t] = r]
  PROVE  /\ tasks' \in [Tasks -> TaskRecords] /\ tasks'[t] = r
         /\ \A u \in Tasks : u # t => tasks'[u] = tasks[u]
BY DEF Typed

LEMMA OverIs ==
  ASSUME Typed, NEW t \in Tasks, NEW verdict \in Terminal, Over(t, verdict)
  PROVE  /\ tasks' \in [Tasks -> TaskRecords]
         /\ tasks'[t].pc = "over" /\ tasks'[t].handle = tasks[t].handle
         /\ \A u \in Tasks : u # t => tasks'[u] = tasks[u]
<1> DEFINE task == tasks[t]
           said == IF t \in Range(known) /\ task.status \notin Terminal
                   THEN verdict ELSE task.status
           r == [task EXCEPT !.pc = "over", !.temp = FALSE, !.status = said]
<1>1. task \in TaskRecords
  BY DEF Typed
<1>2. said \in {"pending", "running"} \cup Terminal
  BY <1>1 DEF TaskRecords
<1>3. tasks' = [tasks EXCEPT ![t] = r]
  BY DEF Over
<1>4. r \in TaskRecords /\ r.pc = "over" /\ r.handle = task.handle
  <2> HIDE DEF task, said
  <2> QED BY <1>1, <1>2 DEF TaskRecords, Places
<1> HIDE DEF r
<1> QED BY <1>3, <1>4, TaskBecomes

LEMMA ReachesIs ==
  ASSUME Typed, NEW t \in Tasks, NEW pc \in Places, Reaches(t, pc)
  PROVE  /\ tasks' \in [Tasks -> TaskRecords]
         /\ tasks'[t].pc = pc /\ tasks'[t].handle = tasks[t].handle
         /\ tasks'[t].done = tasks[t].done /\ tasks'[t].file = tasks[t].file
         /\ \A u \in Tasks : u # t => tasks'[u] = tasks[u]
         /\ UNCHANGED <<outcome, known, dropping>>
<1> DEFINE r == [tasks[t] EXCEPT !.pc = pc]
<1>1. tasks[t] \in TaskRecords
  BY DEF Typed
<1>2. r \in TaskRecords /\ r.pc = pc /\ r.handle = tasks[t].handle
      /\ r.done = tasks[t].done /\ r.file = tasks[t].file
  BY <1>1 DEF TaskRecords
<1>3. tasks' = [tasks EXCEPT ![t] = r]
  BY DEF Reaches
<1>4. UNCHANGED <<outcome, known, dropping>>
  BY DEF Reaches, Unlisted
<1> HIDE DEF r
<1> QED BY <1>2, <1>3, <1>4, TaskBecomes

LEMMA FileEndsIs ==
  ASSUME IInv, NEW t \in Tasks, Working(t),
         NEW what \in {"uploaded", "skipped", "error", "left"}, FileEnds(t, what)
  PROVE  /\ tasks' \in [Tasks -> TaskRecords]
         /\ tasks'[t].handle = tasks[t].handle
         /\ \/ tasks'[t].pc = "over"
            \/ /\ tasks'[t].pc = "build" /\ tasks'[t].done = 0
               /\ tasks'[t].file = tasks[t].file + 1 /\ tasks'[t].file \in 1..Len(Files(t))
         /\ \A u \in Tasks : u # t => tasks'[u] = tasks[u]
         /\ outcome' = [outcome EXCEPT ![Current(t)] = what]
         /\ UNCHANGED <<known, dropping>>
<1> DEFINE r == [tasks[t] EXCEPT !.pc = "build", !.file = @ + 1, !.done = 0]
<1>1. Typed /\ tasks[t] \in TaskRecords
  BY DEF IInv, Typed
<1>2. tasks[t].file \in 1..Len(Files(t)) /\ Len(Files(t)) \in Nat
  BY PresentFile, UploadIs
<1>3. outcome' = [outcome EXCEPT ![Current(t)] = what] /\ UNCHANGED <<known, dropping>>
  BY DEF FileEnds
<1>4. CASE tasks[t].file < Len(Files(t))
  <2>1. tasks' = [tasks EXCEPT ![t] = r]
    BY <1>4 DEF FileEnds
  <2>2. /\ r \in TaskRecords /\ r.pc = "build" /\ r.done = 0
        /\ r.file = tasks[t].file + 1 /\ r.handle = tasks[t].handle
    <3> DEFINE task == tasks[t]
    <3>1. task \in TaskRecords /\ task.file + 1 \in Nat
      BY <1>1, <1>2
    <3> HIDE DEF task
    <3>2. r = [task EXCEPT !.pc = "build", !.file = task.file + 1, !.done = 0]
      BY DEF task
    <3> QED BY <3>1, <3>2 DEF TaskRecords, Places, task
  <2>3. tasks[t].file + 1 \in 1..Len(Files(t))
    BY <1>2, <1>4
  <2> HIDE DEF r
  <2> QED BY <2>1, <2>2, <2>3, <1>1, <1>3, TaskBecomes
<1>5. CASE ~(tasks[t].file < Len(Files(t)))
  <2>1. PICK verdict \in {"failed", "completed"} : Over(t, verdict)
    BY <1>5 DEF FileEnds
  <2>2. verdict \in Terminal
    BY DEF Terminal
  <2> QED BY <2>1, <2>2, <1>1, <1>3, OverIs
<1> QED BY <1>4, <1>5

------------------------------------------------------------------------------
(* What a step of one task leaves of the others, and of its own other files *)

LEMMA OthersKeep ==
  ASSUME IInv, NEW t \in Tasks, OwnStep(t), NEW u \in Tasks, u # t
  PROVE  AtFile(u)' /\ InStores(u)'
<1>1. tasks'[u] = tasks[u] /\ gen' = gen
  BY DEF OwnStep
<1>2. ASSUME NEW i \in 1..Len(Files(u))
      PROVE  outcome'[<<u, i>>] = outcome[<<u, i>>]
  <2>1. <<u, i>> # Current(t) /\ <<u, i>> \in Docs
    BY DocIs DEF Current
  <2> QED BY <2>1 DEF OwnStep
<1>3. AtFile(u)'
  <2>1. AtFile(u) /\ Len(Files(u)) \in Nat
    BY UploadIs DEF IInv
  <2>2. Current(u)' = Current(u) /\ Working(u)' = Working(u)
    BY <1>1 DEF Current, Working
  <2>3. \A i \in tasks[u].file..Len(Files(u)) : Working(u) => i \in 1..Len(Files(u))
    BY <2>1 DEF AtFile
  <2> QED BY <1>1, <1>2, <2>1, <2>2, <2>3 DEF AtFile
<1>4. ASSUME tasks[u].pc \in Storing  PROVE  InStores(u)'
  <2>1. Working(u)
    BY <1>4 DEF Working, Storing
  <2>2. Current(u) \in Docs /\ Current(u) # Current(t)
    BY <2>1, PresentFile DEF Current
  <2>3. Current(u)' = Current(u) /\ Live(u)' = Live(u)
    BY <1>1 DEF Current, Live
  <2>4. InStores(u)
    BY DEF IInv
  <2>5. /\ Current(u) \in rows' => Current(u) \in rows
        /\ \A c \in vectors' : c.doc = Current(u) => c \in vectors
        /\ \A c \in prints' : c.doc = Current(u) => c \in prints
    BY <2>2 DEF OwnStep
  <2> QED BY <1>1, <1>4, <2>3, <2>4, <2>5 DEF InStores
<1>5. ASSUME tasks[u].pc \notin Storing  PROVE  InStores(u)'
  BY <1>1, <1>5 DEF InStores
<1> QED BY <1>3, <1>4, <1>5

LEMMA OtherFilesKeep ==
  ASSUME IInv, NEW t \in Tasks, OwnStep(t), NEW d \in Docs, ~(Working(t) /\ d = Current(t))
  PROVE  Settled(d)'
<1> SUFFICES ASSUME ~(InWork(d)')
             PROVE  /\ outcome'[d] \in {"none", "skipped", "error"} => Clean(d)'
                    /\ outcome'[d] = "left" => Tidy(d)'
  BY DEF Settled
<1>1. /\ outcome'[d] = outcome[d] /\ (d \in rows' => d \in rows)
      /\ \A c \in vectors' : c.doc = d => c \in vectors
      /\ \A c \in prints' : c.doc = d => c \in prints
  BY DEF OwnStep
<1>2. ~InWork(d)
  <2>1. CASE d[1] = t
    BY <2>1 DEF InWork, Working
  <2>2. CASE d[1] # t
    <3>1. tasks'[d[1]] = tasks[d[1]]
      BY <2>2, DocOf DEF OwnStep
    <3> QED BY <3>1 DEF InWork, Current
  <2> QED BY <2>1, <2>2
<1>3. /\ outcome[d] \in {"none", "skipped", "error"} => Clean(d)
      /\ outcome[d] = "left" => Tidy(d)
  BY <1>2 DEF IInv, Settled
<1> QED BY <1>1, <1>3 DEF Clean, Tidy

\* The whole invariant after a step of one task.
LEMMA OwnStepKeeps ==
  ASSUME IInv, NEW t \in Tasks, OwnStep(t), Typed', AtFile(t)', InStores(t)',
         \A d \in Docs : Working(t) /\ d = Current(t) => Settled(d)'
  PROVE  IInv'
<1>1. \A u \in Tasks : AtFile(u)' /\ InStores(u)'
  BY OthersKeep
<1>2. \A d \in Docs : Settled(d)'
  BY OtherFilesKeep
<1> QED BY <1>1, <1>2 DEF IInv

\* A file that ends with a verdict leaves its task at the next file or at its end.
LEMMA FileEndsKeeps ==
  ASSUME IInv, NEW t \in Tasks, Working(t), gen' = gen, NEW d \in Docs, d = Current(t),
         NEW what \in {"uploaded", "skipped", "error", "left"}, FileEnds(t, what),
         what \in {"skipped", "error"} => Clean(d)', what = "left" => Tidy(d)'
  PROVE  AtFile(t)' /\ InStores(t)' /\ Settled(d)'
<1>1. /\ tasks'[t].handle = tasks[t].handle
      /\ \/ tasks'[t].pc = "over"
         \/ /\ tasks'[t].pc = "build" /\ tasks'[t].done = 0
            /\ tasks'[t].file = tasks[t].file + 1 /\ tasks'[t].file \in 1..Len(Files(t))
      /\ outcome' = [outcome EXCEPT ![d] = what]
  BY FileEndsIs
<1>2. outcome'[d] = what
  BY <1>1 DEF IInv, Typed
<1>3. Settled(d)'
  BY <1>2 DEF Settled
<1>4. InStores(t)'
  BY <1>1 DEF InStores, Storing
<1>5. AtFile(t)'
  <2>1. AtFile(t) /\ Len(Files(t)) \in Nat /\ tasks[t].file \in 1..Len(Files(t))
    BY UploadIs, PresentFile DEF IInv
  <2>2. CASE tasks'[t].pc = "over"
    BY <1>1, <2>1, <2>2 DEF AtFile, Working, Unborn
  <2>3. CASE tasks'[t].pc = "build"
    <3>1. ASSUME NEW i \in tasks'[t].file..Len(Files(t))
          PROVE  outcome'[<<t, i>>] = "none"
      <4>1. i \in tasks[t].file..Len(Files(t)) /\ i # tasks[t].file /\ i \in 1..Len(Files(t))
        BY <1>1, <2>1, <2>3
      <4>2. outcome[<<t, i>>] = "none"
        BY <4>1, <2>1 DEF AtFile
      <4>3. <<t, i>> # d /\ <<t, i>> \in Docs
        BY <4>1, DocIs DEF Current
      <4> QED BY <1>1, <4>2, <4>3 DEF IInv, Typed
    <3> QED BY <1>1, <2>1, <2>3, <3>1 DEF AtFile, Unborn
  <2> QED BY <1>1, <2>2, <2>3
<1> QED BY <1>3, <1>4, <1>5

\* A run that is over leaves its present file as it was, or was not at one.
LEMMA OverKeeps ==
  ASSUME IInv, NEW t \in Tasks, gen' = gen, NEW verdict \in Terminal, Over(t, verdict)
  PROVE  AtFile(t)' /\ InStores(t)'
<1>1. tasks'[t].pc = "over" /\ tasks'[t].handle = tasks[t].handle
  BY OverIs DEF IInv
<1>2. AtFile(t)
  BY DEF IInv
<1> QED BY <1>1, <1>2 DEF AtFile, InStores, Working, Unborn, Storing

------------------------------------------------------------------------------
(* Steps that move no task: requests and deletions *)

\* Nothing is added, no task moves, and what an old collection held is gone with it.
Tame ==
  /\ \A t \in Tasks : /\ tasks'[t].pc = tasks[t].pc /\ tasks'[t].file = tasks[t].file
                      /\ tasks'[t].done = tasks[t].done /\ tasks'[t].handle = tasks[t].handle
  /\ outcome' = outcome
  /\ rows' \subseteq rows /\ vectors' \subseteq vectors /\ prints' \subseteq prints
  /\ \A k \in Bases : /\ gen[k] <= gen'[k]
                      /\ gen'[k] # gen[k] => \A c \in vectors' : c.base # k

LEMMA TameKeeps ==
  ASSUME IInv, Typed', Tame
  PROVE  IInv'
<1>1. ASSUME NEW t \in Tasks  PROVE  AtFile(t)'
  <2>1. /\ tasks'[t].pc = tasks[t].pc /\ tasks'[t].file = tasks[t].file
        /\ tasks'[t].done = tasks[t].done /\ tasks'[t].handle = tasks[t].handle
        /\ outcome' = outcome
    BY DEF Tame
  <2>2. AtFile(t) /\ Uploads[t].base \in Bases
    BY UploadIs DEF IInv
  <2>3. tasks[t].handle <= gen'[Uploads[t].base]
    <3>1. /\ gen[Uploads[t].base] \in Nat /\ gen'[Uploads[t].base] \in Nat
          /\ tasks[t].handle \in Nat
      BY <2>2 DEF IInv, Typed, TaskRecords
    <3>2. gen[Uploads[t].base] <= gen'[Uploads[t].base]
      BY <2>2 DEF Tame
    <3>3. tasks[t].handle <= gen[Uploads[t].base]
      BY <2>2 DEF AtFile
    <3> QED BY <3>1, <3>2, <3>3
  <2>4. Current(t)' = Current(t) /\ Working(t)' = Working(t)
    BY <2>1 DEF Current, Working
  <2> QED BY <2>1, <2>2, <2>3, <2>4 DEF AtFile
<1>2. ASSUME NEW t \in Tasks, tasks[t].pc \in Storing  PROVE  InStores(t)'
  <2>1. /\ tasks'[t].pc = tasks[t].pc /\ tasks'[t].handle = tasks[t].handle
        /\ Current(t)' = Current(t)
        /\ rows' \subseteq rows /\ vectors' \subseteq vectors /\ prints' \subseteq prints
    BY DEF Tame, Current
  <2>2. InStores(t) /\ Uploads[t].base \in Bases
    BY UploadIs DEF IInv
  <2>3. Working(t) /\ Current(t)[1] = t
    BY <1>2 DEF Working, Storing, Current
  <2>4. ASSUME ~Live(t)', NEW c \in vectors', c.doc = Current(t)  PROVE  FALSE
    <3>1. c \in vectors
      BY <2>1
    <3>2. Live(t)
      BY <1>2, <2>2, <2>4, <3>1 DEF InStores
    <3>3. gen'[Uploads[t].base] # gen[Uploads[t].base]
      BY <2>1, <2>4, <3>2 DEF Live
    <3>4. c.base # Uploads[t].base
      BY <2>2, <3>3 DEF Tame
    <3>5. c \in AllChunks
      BY <3>1 DEF IInv, Typed
    <3> QED BY <2>3, <2>4, <3>4, <3>5, ChunkOf
  <2>5. tasks[t].done = 0 => \A c \in vectors' : c.doc # Current(t)
    BY <1>2, <2>1, <2>2 DEF InStores
  <2>6. tasks'[t].done = tasks[t].done
    BY DEF Tame
  <2> QED BY <1>2, <2>1, <2>2, <2>4, <2>5, <2>6 DEF InStores
<1>3. ASSUME NEW t \in Tasks, tasks[t].pc \notin Storing  PROVE  InStores(t)'
  BY <1>3 DEF InStores, Tame
<1>4. ASSUME NEW d \in Docs  PROVE  Settled(d)'
  <2>1. InWork(d)' = InWork(d)
    BY DocOf DEF InWork, Current, Tame
  <2>2. Settled(d)
    BY DEF IInv
  <2> QED BY <2>1, <2>2 DEF Settled, Clean, Tidy, Tame
<1> QED BY <1>1, <1>2, <1>3, <1>4 DEF IInv

LEMMA StoppedIs ==
  ASSUME NEW task \in TaskRecords
  PROVE  /\ Stopped(task) \in TaskRecords
         /\ Stopped(task).pc = task.pc /\ Stopped(task).file = task.file
         /\ Stopped(task).done = task.done /\ Stopped(task).handle = task.handle
<1> DEFINE said == IF task.status = "pending" THEN "cancelled" ELSE task.status
<1>1. said \in {"pending", "running"} \cup Terminal
  BY DEF TaskRecords, Terminal
<1>2. Stopped(task) = [task EXCEPT !.stop = TRUE, !.status = said]
  BY DEF Stopped
<1> HIDE DEF said
<1> QED BY <1>1, <1>2 DEF TaskRecords

LEMMA CancelTaskKeeps == ASSUME IInv, NEW t \in Tasks, CancelTask(t)  PROVE  IInv'
<1>1. Typed /\ tasks[t] \in TaskRecords
  BY DEF IInv, Typed
<1>2. tasks' = [tasks EXCEPT ![t] = Stopped(tasks[t])]
      /\ UNCHANGED <<bases, rows, vectors, prints, gen, outcome, dropping>>
  BY DEF CancelTask, Stores
<1>3. /\ tasks' \in [Tasks -> TaskRecords] /\ tasks'[t] = Stopped(tasks[t])
      /\ \A u \in Tasks : u # t => tasks'[u] = tasks[u]
  BY <1>1, <1>2, StoppedIs, TaskBecomes
<1>4. Typed'
  BY <1>1, <1>2, <1>3 DEF Typed
<1>5. Tame
  <2>1. gen \in [Bases -> Nat]
    BY <1>1 DEF Typed
  <2> QED BY <1>1, <1>2, <1>3, <2>1, StoppedIs DEF Tame
<1> QED BY <1>4, <1>5, TameKeeps

LEMMA RemoveTaskKeeps == ASSUME IInv, NEW t \in Tasks, RemoveTask(t)  PROVE  IInv'
<1> DEFINE r == [tasks[t] EXCEPT !.stop = TRUE]
<1>1. Typed /\ tasks[t] \in TaskRecords
  BY DEF IInv, Typed
<1>2. tasks' = [tasks EXCEPT ![t] = r]
      /\ UNCHANGED <<bases, rows, vectors, prints, gen, outcome, dropping>>
  BY DEF RemoveTask, Stores
<1>3. /\ r \in TaskRecords /\ r.pc = tasks[t].pc /\ r.file = tasks[t].file
      /\ r.done = tasks[t].done /\ r.handle = tasks[t].handle
  BY <1>1 DEF TaskRecords
<1> HIDE DEF r
<1>4. /\ tasks' \in [Tasks -> TaskRecords] /\ tasks'[t] = r
      /\ \A u \in Tasks : u # t => tasks'[u] = tasks[u]
  BY <1>1, <1>2, <1>3, TaskBecomes
<1>5. Typed'
  BY <1>1, <1>2, <1>4 DEF Typed
<1>6. Tame
  <2>1. gen \in [Bases -> Nat]
    BY <1>1 DEF Typed
  <2> QED BY <1>2, <1>3, <1>4, <2>1 DEF Tame
<1> QED BY <1>5, <1>6, TameKeeps

\* The deletions that leave the collections alone.
LEMMA RecordsGo ==
  ASSUME IInv, UNCHANGED <<vectors, prints, gen, tasks, outcome>>,
         rows' \subseteq rows, bases' \subseteq bases,
         dropping' \in [base : [Bases -> {"no", "rows", "record"}], doc : SUBSET Docs]
  PROVE  IInv'
<1>1. Typed /\ gen \in [Bases -> Nat]
  BY DEF IInv, Typed
<1>2. Typed'
  BY <1>1 DEF Typed
<1>3. Tame
  BY <1>1 DEF Tame
<1> QED BY <1>2, <1>3, TameKeeps

LEMMA DeletionKeeps == ASSUME IInv, Deletion  PROVE  IInv'
<1>1. Typed /\ gen \in [Bases -> Nat] /\ tasks \in [Tasks -> TaskRecords]
      /\ dropping \in [base : [Bases -> {"no", "rows", "record"}], doc : SUBSET Docs]
  BY DEF IInv, Typed
<1> DEFINE Marked(k, step) == [dropping EXCEPT !.base[k] = step]
<1>2. ASSUME NEW k \in Bases, NEW step \in {"no", "rows", "record"}
      PROVE  Marked(k, step) \in [base : [Bases -> {"no", "rows", "record"}], doc : SUBSET Docs]
  BY <1>1
<1>3. ASSUME NEW docs \in SUBSET Docs
      PROVE  [dropping EXCEPT !.doc = docs]
               \in [base : [Bases -> {"no", "rows", "record"}], doc : SUBSET Docs]
  BY <1>1
<1>4. ASSUME NEW k \in Bases, DropBegins(k)  PROVE  IInv'
  <2> DEFINE stopped == {t \in Tasks : Stoppable(t) /\ Uploads[t].base = k}
  <2>1. /\ dropping' = Marked(k, "rows")
        /\ tasks' = [t \in Tasks |-> IF t \in stopped THEN Stopped(tasks[t]) ELSE tasks[t]]
        /\ gen' = [gen EXCEPT ![k] = @ + 1]
        /\ vectors' = {c \in vectors : c.base # k}
        /\ prints' = IF k = Default THEN {} ELSE prints
        /\ UNCHANGED <<bases, rows, outcome>>
    BY <1>4 DEF DropBegins
  <2> HIDE DEF stopped, Marked
  <2>2. ASSUME NEW t \in Tasks
        PROVE  /\ tasks'[t] \in TaskRecords
               /\ tasks'[t].pc = tasks[t].pc /\ tasks'[t].file = tasks[t].file
               /\ tasks'[t].done = tasks[t].done /\ tasks'[t].handle = tasks[t].handle
    BY <1>1, <2>1, StoppedIs
  <2>3. tasks' \in [Tasks -> TaskRecords]
    BY <2>1, <2>2
  <2>4. gen' \in [Bases -> Nat]
    BY <1>1, <2>1
  <2>5. Typed'
    BY <1>1, <1>2, <2>1, <2>3, <2>4 DEF Typed
  <2>6. \A b \in Bases : /\ gen[b] <= gen'[b]
                         /\ gen'[b] # gen[b] => \A c \in vectors' : c.base # b
    BY <1>1, <2>1
  <2>7. rows' \subseteq rows /\ vectors' \subseteq vectors /\ prints' \subseteq prints
    BY <2>1
  <2> QED BY <2>1, <2>2, <2>5, <2>6, <2>7, TameKeeps DEF Tame
<1>5. ASSUME NEW k \in Bases, DropsRows(k)  PROVE  IInv'
  BY <1>2, <1>5, RecordsGo DEF DropsRows
<1>6. ASSUME NEW k \in Bases, DropEnds(k)  PROVE  IInv'
  BY <1>2, <1>6, RecordsGo DEF DropEnds
<1>7. ASSUME NEW d \in Docs, DeleteBegins(d)  PROVE  IInv'
  <2>1. /\ dropping' = [dropping EXCEPT !.doc = dropping.doc \cup {d}]
        /\ vectors' \subseteq vectors /\ prints' \subseteq prints
        /\ UNCHANGED <<bases, rows, gen, tasks, outcome>>
    BY <1>7 DEF DeleteBegins
  <2>2. dropping.doc \cup {d} \in SUBSET Docs
    BY <1>1
  <2>3. Typed'
    BY <1>1, <1>3, <2>1, <2>2 DEF Typed
  <2> QED BY <1>1, <2>1, <2>3, TameKeeps DEF Tame
<1>8. ASSUME NEW d \in Docs, DeleteEnds(d)  PROVE  IInv'
  <2>1. /\ dropping' = [dropping EXCEPT !.doc = dropping.doc \ {d}]
        /\ rows' \subseteq rows
        /\ UNCHANGED <<bases, vectors, prints, gen, tasks, outcome>>
    BY <1>8 DEF DeleteEnds
  <2>2. dropping.doc \ {d} \in SUBSET Docs
    BY <1>1
  <2> QED BY <1>3, <2>1, <2>2, RecordsGo
<1> QED BY <1>4, <1>5, <1>6, <1>7, <1>8 DEF Deletion

LEMMA StutterKeeps == ASSUME IInv, UNCHANGED vars  PROVE  IInv'
<1>1. Typed /\ gen \in [Bases -> Nat]
  BY DEF IInv, Typed
<1> QED BY <1>1, RecordsGo DEF Typed, vars

------------------------------------------------------------------------------
(* Steps of one task *)

\* A task that is at no file changes its own state only.
LEMMA EarlyKeeps ==
  ASSUME IInv, NEW t \in Tasks, tasks[t].pc \in Unborn, NEW r \in TaskRecords,
         tasks' = [tasks EXCEPT ![t] = r],
         UNCHANGED <<bases, rows, vectors, prints, gen, outcome, dropping>>,
         r.pc \in Unborn \cup {"build", "over"},
         r.pc = "build" => r.file = 1,
         r.done = tasks[t].done, r.handle = tasks[t].handle
  PROVE  IInv'
<1>1. Typed /\ AtFile(t) /\ Len(Files(t)) \in Nat /\ Len(Files(t)) # 0
  BY UploadIs DEF IInv
<1>2. /\ tasks' \in [Tasks -> TaskRecords] /\ tasks'[t] = r
      /\ \A u \in Tasks : u # t => tasks'[u] = tasks[u]
  BY <1>1, TaskBecomes
<1>3. Typed'
  BY <1>1, <1>2 DEF Typed
<1>4. OwnStep(t)
  BY <1>2 DEF OwnStep
<1>5. ~Working(t)
  BY DEF Working, Unborn
<1>6. InStores(t)'
  BY <1>2 DEF InStores, Unborn, Storing
<1>7. AtFile(t)'
  <2>1. tasks[t].done = 0 /\ tasks[t].handle <= gen[Uploads[t].base]
        /\ \A i \in 1..Len(Files(t)) : outcome[<<t, i>>] = "none"
    BY <1>1 DEF AtFile
  <2>2. CASE r.pc = "build"
    BY <1>1, <1>2, <2>1, <2>2 DEF AtFile, Unborn
  <2>3. CASE r.pc = "over"
    BY <1>2, <2>1, <2>3 DEF AtFile, Unborn, Working
  <2>4. CASE r.pc \in Unborn
    BY <1>2, <2>1, <2>4 DEF AtFile, Unborn, Working
  <2> QED BY <2>2, <2>3, <2>4
<1> QED BY <1>3, <1>4, <1>5, <1>6, <1>7, OwnStepKeeps

LEMMA AskedKeeps ==
  ASSUME IInv, NEW t \in Tasks, Asks(t) \/ SaveFails(t) \/ Creates(t)
  PROVE  IInv'
<1>1. Typed /\ tasks[t] \in TaskRecords /\ tasks[t].pc \in Unborn
  BY DEF IInv, Typed, Unborn, Asks, SaveFails, Creates
<1>2. UNCHANGED <<bases, rows, vectors, prints, gen, outcome, dropping>>
  BY DEF Asks, SaveFails, Creates, Stores, Unlisted
<1>3. PICK r \in TaskRecords : /\ tasks' = [tasks EXCEPT ![t] = r]
                               /\ r.pc \in Unborn \cup {"over"}
                               /\ r.done = tasks[t].done /\ r.handle = tasks[t].handle
  <2>1. CASE Asks(t)
    <3> DEFINE r == [tasks[t] EXCEPT !.pc = "asked", !.temp = ~Uploads[t].url]
    <3>1. tasks' = [tasks EXCEPT ![t] = r]
      BY <2>1 DEF Asks
    <3>2. r \in TaskRecords /\ r.pc = "asked"
          /\ r.done = tasks[t].done /\ r.handle = tasks[t].handle
      BY <1>1 DEF TaskRecords, Places
    <3> QED BY <3>1, <3>2 DEF Unborn
  <2>2. CASE SaveFails(t)
    <3> DEFINE r == [tasks[t] EXCEPT !.pc = "over", !.temp = FALSE]
    <3>1. tasks' = [tasks EXCEPT ![t] = r]
      BY <2>2 DEF SaveFails
    <3>2. r \in TaskRecords /\ r.pc = "over"
          /\ r.done = tasks[t].done /\ r.handle = tasks[t].handle
      BY <1>1 DEF TaskRecords, Places
    <3> QED BY <3>1, <3>2
  <2>3. CASE Creates(t)
    <3> DEFINE r == [tasks[t] EXCEPT !.pc = "waiting"]
    <3>1. tasks' = [tasks EXCEPT ![t] = r]
      BY <2>3 DEF Creates
    <3>2. r \in TaskRecords /\ r.pc = "waiting"
          /\ r.done = tasks[t].done /\ r.handle = tasks[t].handle
      BY <1>1 DEF TaskRecords, Places
    <3> QED BY <3>1, <3>2 DEF Unborn
  <2> QED BY <2>1, <2>2, <2>3
<1>4. r.pc # "build"
  BY <1>3 DEF Unborn
<1> QED BY <1>1, <1>2, <1>3, <1>4, EarlyKeeps

LEMMA StartsKeeps == ASSUME IInv, NEW t \in Tasks, Starts(t)  PROVE  IInv'
<1> DEFINE r == [tasks[t] EXCEPT !.pc = "build", !.status = "running", !.file = 1]
<1>1. tasks[t] \in TaskRecords /\ tasks[t].pc \in Unborn
  BY DEF IInv, Typed, Starts, Unborn
<1>2. tasks' = [tasks EXCEPT ![t] = r]
      /\ UNCHANGED <<bases, rows, vectors, prints, gen, outcome, dropping>>
  BY DEF Starts, Stores, Unlisted
<1>3. r \in TaskRecords /\ r.pc = "build" /\ r.file = 1
      /\ r.done = tasks[t].done /\ r.handle = tasks[t].handle
  BY <1>1 DEF TaskRecords, Places
<1> HIDE DEF r
<1> QED BY <1>1, <1>2, <1>3, EarlyKeeps

LEMMA SkipsKeeps == ASSUME IInv, NEW t \in Tasks, Skips(t)  PROVE  IInv'
<1>1. Typed /\ ~Working(t) /\ "cancelled" \in Terminal
      /\ UNCHANGED <<bases, rows, vectors, prints, gen, outcome, dropping>>
  BY DEF IInv, Skips, Stores, Unlisted, Working, Terminal
<1>2. Over(t, "cancelled")
  BY DEF Skips
<1>3. tasks' \in [Tasks -> TaskRecords] /\ \A u \in Tasks : u # t => tasks'[u] = tasks[u]
  BY <1>1, <1>2, OverIs
<1>4. Typed'
  BY <1>1, <1>3 DEF Typed
<1>5. OwnStep(t)
  BY <1>1, <1>3 DEF OwnStep
<1>6. AtFile(t)' /\ InStores(t)'
  BY <1>1, <1>2, OverKeeps
<1> QED BY <1>1, <1>4, <1>5, <1>6, OwnStepKeeps

------------------------------------------------------------------------------
(* Steps of the indexing *)

\* What a step of the indexing may do to the stores, beside the present file.
OwnStores(t) ==
  /\ UNCHANGED <<bases, gen>>
  /\ rows' \subseteq rows \cup {Current(t)}
  /\ \A c \in vectors' : c \in vectors \/ (c \in AllChunks /\ c.doc = Current(t))
  /\ \A c \in prints' : c \in prints \/ (c \in AllChunks /\ c.doc = Current(t))

\* A file that ends.
LEMMA EndsKeeps ==
  ASSUME IInv, NEW t \in Tasks, Working(t), OwnStores(t), NEW d \in Docs, d = Current(t),
         NEW what \in {"uploaded", "skipped", "error", "left"}, FileEnds(t, what),
         what \in {"skipped", "error"} => Clean(d)', what = "left" => Tidy(d)'
  PROVE  IInv'
<1>1. Typed
  BY DEF IInv
<1>2. /\ tasks' \in [Tasks -> TaskRecords]
      /\ \A u \in Tasks : u # t => tasks'[u] = tasks[u]
      /\ outcome' = [outcome EXCEPT ![d] = what] /\ dropping' = dropping
  BY FileEndsIs
<1>3. Typed'
  BY <1>1, <1>2 DEF Typed, OwnStores
<1>4. OwnStep(t)
  BY <1>1, <1>2 DEF OwnStep, OwnStores, Typed
<1>5. AtFile(t)' /\ InStores(t)' /\ Settled(d)'
  BY FileEndsKeeps DEF OwnStores
<1> QED BY <1>3, <1>4, <1>5, OwnStepKeeps

\* A run that is stopped, or whose record cannot be written.
LEMMA StopKeeps ==
  ASSUME IInv, NEW t \in Tasks, Working(t), OwnStores(t), NEW d \in Docs, d = Current(t),
         NEW verdict \in Terminal, Over(t, verdict), dropping' = dropping,
         \/ outcome' = outcome /\ Clean(d)'
         \/ outcome' = [outcome EXCEPT ![d] = "left"] /\ Tidy(d)'
         \/ outcome' = [outcome EXCEPT ![d] = "unrecorded"]
  PROVE  IInv'
<1>1. Typed
  BY DEF IInv
<1>2. tasks' \in [Tasks -> TaskRecords] /\ \A u \in Tasks : u # t => tasks'[u] = tasks[u]
  BY <1>1, OverIs
<1>3. Typed'
  BY <1>1, <1>2 DEF Typed, OwnStores
<1>4. OwnStep(t)
  BY <1>1, <1>2 DEF OwnStep, OwnStores, Typed
<1>5. AtFile(t)' /\ InStores(t)'
  BY OverKeeps DEF OwnStores
<1>6. Settled(d)'
  <2>1. CASE outcome' = outcome /\ Clean(d)'
    BY <2>1 DEF Settled, Clean
  <2>2. CASE outcome' = [outcome EXCEPT ![d] = "left"] /\ Tidy(d)'
    <3>1. outcome'[d] = "left"
      BY <1>1, <2>2 DEF Typed
    <3> QED BY <2>2, <3>1 DEF Settled
  <2>3. CASE outcome' = [outcome EXCEPT ![d] = "unrecorded"]
    <3>1. outcome'[d] = "unrecorded"
      BY <1>1, <2>3 DEF Typed
    <3> QED BY <3>1 DEF Settled
  <2> QED BY <2>1, <2>2, <2>3
<1> QED BY <1>3, <1>4, <1>5, <1>6, OwnStepKeeps

\* The indexing of a file goes on.
LEMMA GoesOn ==
  ASSUME IInv, NEW t \in Tasks, Working(t), OwnStores(t), NEW d \in Docs, d = Current(t),
         tasks' \in [Tasks -> TaskRecords], \A u \in Tasks : u # t => tasks'[u] = tasks[u],
         tasks'[t].file = tasks[t].file, UNCHANGED <<outcome, dropping>>,
         \/ /\ tasks'[t].pc = "examine"
            /\ tasks'[t].done = 0 /\ Clean(d)'
         \/ /\ tasks'[t].pc \in Storing
            /\ tasks'[t].pc = "embed" => tasks'[t].done < Len(Content(d))
            /\ tasks'[t].pc # "embed" => tasks'[t].done = Len(Content(d)),
         tasks'[t].handle <= gen'[Uploads[t].base],
         InStores(t)'
  PROVE  IInv'
<1>1. Typed /\ AtFile(t)
  BY DEF IInv
<1>2. Typed'
  BY <1>1 DEF Typed, OwnStores
<1>3. OwnStep(t)
  BY <1>1 DEF OwnStep, OwnStores
<1>4. Current(t)' = d
  BY DEF Current
<1>5. AtFile(t)'
  <2>1. /\ tasks[t].file \in 1..Len(Files(t))
        /\ \A i \in tasks[t].file..Len(Files(t)) : outcome[<<t, i>>] = "none"
    BY <1>1 DEF AtFile
  <2> QED BY <1>4, <2>1 DEF AtFile, Unborn, Storing
<1>6. Settled(d)'
  <2>1. CASE Clean(d)'
    BY <2>1 DEF Settled, Clean
  <2>2. CASE tasks'[t].pc \in Storing
    <3>1. d[1] = t
      BY DEF Current
    <3> QED BY <2>2, <3>1, <1>4 DEF Settled, InWork, Storing
  <2> QED BY <2>1, <2>2
<1> QED BY <1>2, <1>3, <1>5, <1>6, OwnStepKeeps

LEMMA BuildsKeeps == ASSUME IInv, NEW t \in Tasks, Builds(t)  PROVE  IInv'
<1>1. Typed /\ tasks[t] \in TaskRecords /\ AtFile(t) /\ tasks[t].pc = "build" /\ Working(t)
  BY DEF IInv, Typed, Builds, Working
<1>2. OwnStores(t) /\ UNCHANGED <<rows, vectors, prints>>
  BY DEF Builds, Stores, OwnStores
<1>3. PICK d \in Docs : d = Current(t) /\ Clean(d)
  BY <1>1, PresentFile DEF Storing
<1>4. Clean(d)'
  BY <1>2, <1>3 DEF Clean, Tidy
<1>5. CASE FileEnds(t, "error")
  BY <1>1, <1>2, <1>3, <1>4, <1>5, EndsKeeps
<1>6. CASE ~FileEnds(t, "error")
  <2> DEFINE r == [tasks[t] EXCEPT !.pc = "examine", !.handle = gen[Uploads[t].base]]
  <2>1. tasks' = [tasks EXCEPT ![t] = r] /\ UNCHANGED <<outcome, dropping>>
    BY <1>6 DEF Builds, Unlisted
  <2>2. gen[Uploads[t].base] \in Nat
    BY <1>1, UploadIs DEF Typed
  <2>3. r \in TaskRecords /\ r.pc = "examine" /\ r.handle = gen[Uploads[t].base]
        /\ r.done = tasks[t].done /\ r.file = tasks[t].file
    BY <1>1, <2>2 DEF TaskRecords, Places
  <2> HIDE DEF r
  <2>4. /\ tasks' \in [Tasks -> TaskRecords] /\ tasks'[t] = r
        /\ \A u \in Tasks : u # t => tasks'[u] = tasks[u]
    BY <1>1, <2>1, <2>3, TaskBecomes
  <2>5. r.done = 0 /\ gen' = gen
    BY <1>1, <1>2, <2>3 DEF AtFile, OwnStores
  <2>6. InStores(t)'
    BY <2>3, <2>4 DEF InStores, Storing
  <2>7. tasks'[t].handle <= gen'[Uploads[t].base]
    BY <2>2, <2>3, <2>4, <2>5
  <2> QED BY <1>1, <1>2, <1>3, <1>4, <2>1, <2>3, <2>4, <2>5, <2>6, <2>7, GoesOn
<1> QED BY <1>5, <1>6

\* From its examination a file goes on to be stored.
LEMMA ExaminedGoesOn ==
  ASSUME IInv, NEW t \in Tasks, tasks[t].pc = "examine", Reaches(t, "embed"), OwnStores(t),
         rows' \subseteq rows, vectors' \subseteq vectors, prints' \subseteq prints
  PROVE  IInv'
<1>1. Typed /\ AtFile(t) /\ Working(t)
  BY DEF IInv, Working
<1>2. PICK d \in Docs : /\ d = Current(t) /\ Clean(d)
                        /\ Len(Content(d)) \in Nat /\ Len(Content(d)) # 0
  BY <1>1, PresentFile DEF Storing
<1>3. /\ tasks' \in [Tasks -> TaskRecords]
      /\ tasks'[t].pc = "embed" /\ tasks'[t].handle = tasks[t].handle
      /\ tasks'[t].done = tasks[t].done /\ tasks'[t].file = tasks[t].file
      /\ \A u \in Tasks : u # t => tasks'[u] = tasks[u]
      /\ UNCHANGED <<outcome, known, dropping>>
  BY <1>1, ReachesIs DEF Places
<1>4. Current(t)' = d
  BY <1>2, <1>3 DEF Current
<1>5. InStores(t)'
  BY <1>2, <1>3, <1>4 DEF InStores, Clean, Tidy
<1>6. tasks'[t].done = 0 /\ tasks'[t].handle <= gen'[Uploads[t].base]
  BY <1>1, <1>3 DEF AtFile, OwnStores
<1>7. tasks'[t].done < Len(Content(d)) /\ tasks'[t].pc \in Storing
  BY <1>2, <1>3, <1>6 DEF Storing
<1> QED BY <1>1, <1>2, <1>3, <1>5, <1>6, <1>7, GoesOn

LEMMA ExaminesKeeps == ASSUME IInv, NEW t \in Tasks, Examines(t)  PROVE  IInv'
<1>1. Typed /\ tasks[t].pc = "examine" /\ Working(t)
  BY DEF IInv, Examines, Working
<1>2. PICK d \in Docs : d = Current(t) /\ Clean(d)
  BY <1>1, PresentFile DEF Storing
<1>3. ASSUME OwnStores(t), rows' \subseteq rows, vectors' \subseteq vectors, prints' \subseteq prints,
             NEW what \in {"skipped", "error"}, FileEnds(t, what)
      PROVE  IInv'
  <2>1. Clean(d)'
    BY <1>2, <1>3 DEF Clean, Tidy
  <2> QED BY <1>1, <1>2, <1>3, <2>1, EndsKeeps
<1>4. ASSUME UNCHANGED Stores
      PROVE  /\ OwnStores(t) /\ rows' \subseteq rows
             /\ vectors' \subseteq vectors /\ prints' \subseteq prints
  BY <1>4 DEF Stores, OwnStores
<1>5. CASE IsStopped(t) /\ UNCHANGED Stores
  <2>1. Clean(d)' /\ Over(t, "cancelled") /\ UNCHANGED <<outcome, dropping>>
    BY <1>2, <1>5 DEF Clean, Tidy, IsStopped, Unlisted, Stores
  <2>2. "cancelled" \in Terminal
    BY DEF Terminal
  <2> QED BY <1>1, <1>2, <1>4, <1>5, <2>1, <2>2, StopKeeps
<1>6. CASE FileEnds(t, "error") /\ UNCHANGED Stores
  BY <1>3, <1>4, <1>6
<1>7. CASE FileEnds(t, "skipped") /\ UNCHANGED Stores
  BY <1>3, <1>4, <1>7
<1>8. CASE Reaches(t, "embed") /\ UNCHANGED Stores
  BY <1>1, <1>4, <1>8, ExaminedGoesOn
<1>9. ASSUME UNCHANGED <<bases, gen>>, NEW old, Replaces(t, old)  PROVE  IInv'
  <2>1. OwnStores(t) /\ rows' \subseteq rows /\ vectors' \subseteq vectors /\ prints' \subseteq prints
    BY <1>9 DEF Replaces, OwnStores
  <2>2. Reaches(t, "embed") \/ FileEnds(t, "error")
    BY <1>9 DEF Replaces
  <2> QED BY <1>1, <1>3, <2>1, <2>2, ExaminedGoesOn
<1> QED BY <1>5, <1>6, <1>7, <1>8, <1>9 DEF Examines

LEMMA RegistersKeeps == ASSUME IInv, NEW t \in Tasks, Registers(t)  PROVE  IInv'
<1>1. Typed /\ AtFile(t) /\ InStores(t) /\ tasks[t].pc = "register" /\ Working(t)
  BY DEF IInv, Registers, Working
<1>2. PICK d \in Docs : d = Current(t)
  BY <1>1, PresentFile
<1>3. UNCHANGED <<bases, rows, vectors, gen>> /\ Reaches(t, "row")
      /\ prints' \subseteq prints \cup Chunks(d)
  BY <1>2 DEF Registers
<1>4. ASSUME NEW c \in Chunks(d)  PROVE  c \in AllChunks /\ c.doc = d
  BY ChunkIs DEF Chunks
<1>5. OwnStores(t)
  BY <1>2, <1>3, <1>4 DEF OwnStores
<1>6. /\ tasks' \in [Tasks -> TaskRecords]
      /\ tasks'[t].pc = "row" /\ tasks'[t].handle = tasks[t].handle
      /\ tasks'[t].done = tasks[t].done /\ tasks'[t].file = tasks[t].file
      /\ \A u \in Tasks : u # t => tasks'[u] = tasks[u]
      /\ UNCHANGED <<outcome, known, dropping>>
  BY <1>1, <1>3, ReachesIs DEF Places
<1>7. Current(t)' = d /\ Live(t)' = Live(t)
  BY <1>2, <1>3, <1>6 DEF Current, Live
<1>8. InStores(t)'
  BY <1>1, <1>2, <1>3, <1>6, <1>7 DEF InStores, Storing
<1>9. /\ tasks'[t].done = Len(Content(d)) /\ tasks'[t].handle <= gen'[Uploads[t].base]
      /\ tasks'[t].pc \in Storing /\ tasks'[t].pc # "embed"
  BY <1>1, <1>2, <1>3, <1>6 DEF AtFile, Storing
<1> QED BY <1>1, <1>2, <1>5, <1>6, <1>8, <1>9, GoesOn

LEMMA RecordsKeeps == ASSUME IInv, NEW t \in Tasks, Records(t)  PROVE  IInv'
<1>1. tasks[t].pc = "row" /\ Working(t) /\ UNCHANGED <<bases, vectors, prints, gen>>
  BY DEF Records, Working
<1>2. PICK d \in Docs : d = Current(t)
  BY <1>1, PresentFile
<1>3. CASE rows' = rows \cup {d} /\ FileEnds(t, "uploaded")
  <2>1. OwnStores(t)
    BY <1>1, <1>2, <1>3 DEF OwnStores
  <2> QED BY <1>1, <1>2, <1>3, <2>1, EndsKeeps
<1>4. CASE /\ UNCHANGED <<rows, known, dropping>>
           /\ outcome' = [outcome EXCEPT ![d] = "unrecorded"]
           /\ Over(t, "failed")
  <2>1. OwnStores(t) /\ "failed" \in Terminal
    BY <1>1, <1>4 DEF OwnStores, Terminal
  <2> QED BY <1>1, <1>2, <1>4, <2>1, StopKeeps
<1> QED BY <1>2, <1>3, <1>4 DEF Records

\* An old handle takes nothing back, and has nothing to take back.
LEMMA EmbedsKeeps == ASSUME IInv, NEW t \in Tasks, Embeds(t)  PROVE  IInv'
<1>1. Typed /\ AtFile(t) /\ InStores(t) /\ tasks[t].pc = "embed" /\ Working(t)
      /\ tasks[t] \in TaskRecords
  BY DEF IInv, Typed, Embeds, Working
<1>2. PICK d \in Docs : /\ d = Current(t) /\ Base(d) = Uploads[t].base
                        /\ Len(Content(d)) \in Nat /\ Len(Content(d)) # 0
  BY <1>1, PresentFile
<1> DEFINE n == tasks[t].done
           displaced == IF n = 0 THEN Displaced(d) ELSE {}
           kept == {c \in vectors : ~(c \in displaced /\ c.base = Base(d))}
           refused == ~Live(t) /\ displaced # {}
<1>3. n \in Nat /\ n < Len(Content(d))
  BY <1>1, <1>2 DEF AtFile, TaskRecords
<1>4. UNCHANGED <<bases, rows, gen>> /\ prints' \subseteq prints /\ kept \subseteq vectors
  BY DEF Embeds
<1>5. /\ d \notin rows
      /\ \A c \in prints : c.doc # d
      /\ ~Live(t) \/ n = 0 => \A c \in vectors : c.doc # d
  BY <1>1, <1>2 DEF InStores, Storing
<1>6. TakenBack(t, kept) \subseteq vectors /\ \A c \in TakenBack(t, kept) : c.doc # d
  <2>1. vectors \subseteq AllChunks
    BY <1>1 DEF Typed
  <2> HIDE DEF kept
  <2> QED BY <1>2, <1>4, <1>5, <2>1, ChunkOf DEF TakenBack
<1>7. Embeds(t) <=>
        /\ tasks[t].pc = "embed"
        /\ prints' = prints \ displaced
        /\ \/ /\ \/ refused
                 \/ ~Live(t) /\ ~tasks[t].stop
                 \/ "delete" \in Faults /\ displaced # {}
              /\ BatchFails(t, "error") /\ UNCHANGED vectors
           \/ /\ tasks[t].stop /\ ~refused
              /\ \/ IsStopped(t) /\ vectors' = TakenBack(t, kept)
                 \/ /\ StaysBehind(t, kept)
                    /\ Over(t, "cancelled")
                    /\ outcome' = [outcome EXCEPT ![d] = "left"]
                    /\ UNCHANGED <<known, dropping>>
           \/ /\ ~tasks[t].stop /\ Live(t) /\ "embed" \in Faults
              /\ \/ BatchFails(t, "error") /\ vectors' = TakenBack(t, kept)
                 \/ BatchFails(t, "left") /\ StaysBehind(t, kept)
           \/ /\ ~tasks[t].stop /\ Live(t)
              /\ vectors' = kept \cup {Chunk(d, n + 1)}
              /\ tasks' = [tasks EXCEPT ![t] = [@ EXCEPT
                   !.done = n + 1, !.pc = IF n + 1 = Len(Content(d)) THEN "register" ELSE "embed"]]
              /\ Unlisted
        /\ UNCHANGED <<bases, rows, gen>>
  BY <1>2 DEF Embeds
<1>16. StaysBehind(t, kept) => vectors' \subseteq kept \cup {Chunk(d, n + 1)}
  BY <1>2 DEF StaysBehind
<1>17. Chunk(d, n + 1) \in AllChunks /\ Chunk(d, n + 1).doc = d
  BY <1>2, <1>3, ChunkIs
<1>18. displaced # {} => n = 0
  OBVIOUS
<1> HIDE DEF n, displaced, kept, refused
<1>8. ASSUME vectors' \subseteq vectors, \A c \in vectors' : c.doc # d
      PROVE  OwnStores(t) /\ Clean(d)'
  BY <1>4, <1>5, <1>8 DEF OwnStores, Clean, Tidy
<1>9. CASE (~Live(t) \/ n = 0) /\ BatchFails(t, "error") /\ UNCHANGED vectors
  <2>1. OwnStores(t) /\ Clean(d)'
    BY <1>5, <1>8, <1>9
  <2> QED BY <1>1, <1>2, <1>9, <2>1, EndsKeeps DEF BatchFails
<1>10. CASE IsStopped(t) /\ vectors' = TakenBack(t, kept)
  <2>1. OwnStores(t) /\ Clean(d)'
    BY <1>6, <1>8, <1>10
  <2>2. Over(t, "cancelled") /\ UNCHANGED <<outcome, dropping>> /\ "cancelled" \in Terminal
    BY <1>10 DEF IsStopped, Unlisted, Terminal
  <2> QED BY <1>1, <1>2, <2>1, <2>2, StopKeeps
<1>11. CASE BatchFails(t, "error") /\ vectors' = TakenBack(t, kept)
  <2>1. OwnStores(t) /\ Clean(d)'
    BY <1>6, <1>8, <1>11
  <2> QED BY <1>1, <1>2, <1>11, <2>1, EndsKeeps DEF BatchFails
<1>13. ASSUME StaysBehind(t, kept)  PROVE  OwnStores(t) /\ Tidy(d)'
  BY <1>2, <1>4, <1>5, <1>13, <1>16, <1>17 DEF OwnStores, Tidy
<1>14. CASE StaysBehind(t, kept) /\ BatchFails(t, "left")
  BY <1>1, <1>2, <1>13, <1>14, EndsKeeps DEF BatchFails
<1>15. CASE /\ StaysBehind(t, kept)
            /\ Over(t, "cancelled")
            /\ outcome' = [outcome EXCEPT ![d] = "left"]
            /\ UNCHANGED <<known, dropping>>
  <2>1. "cancelled" \in Terminal
    BY DEF Terminal
  <2> QED BY <1>1, <1>2, <1>13, <1>15, <2>1, StopKeeps
<1>12. CASE /\ Live(t) /\ vectors' = kept \cup {Chunk(d, n + 1)}
            /\ tasks' = [tasks EXCEPT ![t] = [@ EXCEPT
                 !.done = n + 1, !.pc = IF n + 1 = Len(Content(d)) THEN "register" ELSE "embed"]]
            /\ Unlisted
  <2> DEFINE place == IF n + 1 = Len(Content(d)) THEN "register" ELSE "embed"
             r == [tasks[t] EXCEPT !.done = n + 1, !.pc = place]
  <2>1. tasks' = [tasks EXCEPT ![t] = r] /\ UNCHANGED <<outcome, dropping>>
    BY <1>12 DEF Unlisted
  <2>2. place \in {"embed", "register"}
    OBVIOUS
  <2>3. /\ n + 1 \in Nat
        /\ place = "embed" => n + 1 < Len(Content(d))
        /\ place # "embed" => n + 1 = Len(Content(d))
    BY <1>2, <1>3
  <2> HIDE DEF place
  <2>4. r \in TaskRecords /\ r.pc = place /\ r.handle = tasks[t].handle
        /\ r.done = n + 1 /\ r.file = tasks[t].file
    BY <1>1, <2>2, <2>3 DEF TaskRecords, Places
  <2> HIDE DEF r
  <2>5. /\ tasks' \in [Tasks -> TaskRecords] /\ tasks'[t] = r
        /\ \A u \in Tasks : u # t => tasks'[u] = tasks[u]
    BY <1>1, <2>1, <2>4, TaskBecomes
  <2>7. OwnStores(t)
    BY <1>2, <1>4, <1>12, <1>17 DEF OwnStores
  <2>8. Current(t)' = d /\ Live(t)'
    BY <1>2, <1>4, <1>12, <2>4, <2>5 DEF Current, Live
  <2>9. InStores(t)'
    BY <1>3, <1>4, <1>5, <2>4, <2>5, <2>8 DEF InStores
  <2>10. tasks'[t].handle <= gen'[Uploads[t].base]
    BY <1>1, <1>4, <2>4, <2>5 DEF AtFile
  <2>11. place \in Storing
    BY <2>2 DEF Storing
  <2> QED BY <1>1, <1>2, <2>1, <2>3, <2>4, <2>5, <2>7, <2>9, <2>10, <2>11, GoesOn
<1> QED BY <1>7, <1>9, <1>10, <1>11, <1>12, <1>14, <1>15, <1>18 DEF refused

------------------------------------------------------------------------------
(* The invariant *)

LEMMA InitHolds == Init => IInv
<1> SUFFICES ASSUME Init  PROVE  IInv
  OBVIOUS
<1>1. ASSUME NEW t \in Tasks
      PROVE  /\ tasks[t] \in TaskRecords /\ tasks[t].pc = "idle"
             /\ tasks[t].done = 0 /\ tasks[t].handle = 0
  BY DEF Init, TaskRecords, Places
<1>2. Typed
  <2>1. tasks \in [Tasks -> TaskRecords]
    BY <1>1 DEF Init
  <2> QED BY <2>1 DEF Init, Typed
<1>3. ASSUME NEW t \in Tasks  PROVE  AtFile(t) /\ InStores(t)
  <2>1. Uploads[t].base \in Bases
    BY UploadIs
  <2>2. \A i \in 1..Len(Files(t)) : outcome[<<t, i>>] = "none"
    BY DocIs DEF Init
  <2> QED BY <1>1, <2>1, <2>2 DEF Init, AtFile, InStores, Unborn, Storing, Working
<1>4. \A d \in Docs : Settled(d)
  BY DEF Init, Settled, Clean, Tidy
<1> QED BY <1>2, <1>3, <1>4 DEF IInv

LEMMA StepHolds == IInv /\ [Next]_vars => IInv'
<1> SUFFICES ASSUME IInv, [Next]_vars  PROVE  IInv'
  OBVIOUS
<1>1. ASSUME NEW t \in Tasks, Request(t)  PROVE  IInv'
  BY <1>1, AskedKeeps, CancelTaskKeeps, RemoveTaskKeeps DEF Request
<1>2. ASSUME NEW t \in Tasks, Run(t)  PROVE  IInv'
  BY <1>2, AskedKeeps, StartsKeeps, SkipsKeeps, BuildsKeeps, ExaminesKeeps, EmbedsKeeps,
     RegistersKeeps, RecordsKeeps DEF Run
<1>3. CASE Deletion
  BY <1>3, DeletionKeeps
<1>4. CASE UNCHANGED vars
  BY <1>4, StutterKeeps
<1> QED BY <1>1, <1>2, <1>3, <1>4 DEF Next

THEOREM IInvAlways == Spec => []IInv
BY InitHolds, StepHolds, PTL DEF Spec

\* What rag.py and the pipeline keep of uploads, files, chunks and collections has its type:
\* a task is at one of its files, and every stored chunk is one of its document's.
THEOREM TypeCorrect == Spec => []Typed
<1>1. IInv => Typed
  BY DEF IInv
<1> QED BY <1>1, IInvAlways, PTL

\* pipeline and repository.py: a file that was skipped, stopped or in error has left no record and
\* no fingerprint, and no vector unless the collection failed to take its batches back, whatever
\* else was uploaded, replaced or deleted meanwhile.
THEOREM NothingHalfStoredHolds == Spec => []NothingHalfStored
<1>1. IInv => NothingHalfStored
  BY DEF IInv, Settled, Clean, Tidy, NothingHalfStored
<1> QED BY <1>1, IInvAlways, PTL

------------------------------------------------------------------------------
(* One upload at a time: what has been stored stays until the document has its record *)

\* The steps that move no task keep what belongs to documents without a record, as long as their
\* collection is the same.
Spares ==
  /\ \A t \in Tasks : /\ tasks'[t].pc = tasks[t].pc /\ tasks'[t].file = tasks[t].file
                      /\ tasks'[t].done = tasks[t].done /\ tasks'[t].handle = tasks[t].handle
  /\ \A k \in Bases : gen[k] <= gen'[k]
  /\ \A c \in vectors : c.doc \notin rows /\ gen'[c.base] = gen[c.base] => c \in vectors'

LEMMA SparesKeeps ==
  ASSUME IInv, Typed', SearchInv, Spares
  PROVE  SearchInv'
<1>1. Alone'
  BY DEF SearchInv, Alone, Working, Spares
<1>2. ASSUME NEW t \in Tasks, tasks[t].pc \in Storing, Live(t)', NEW i \in 1..tasks[t].done
      PROVE  Chunk(Current(t), i) \in vectors'
  <2>1. /\ Uploads[t].base \in Bases /\ Working(t)
        /\ AtFile(t) /\ InStores(t) /\ Found(t) /\ tasks[t] \in TaskRecords
        /\ gen[Uploads[t].base] \in Nat /\ gen'[Uploads[t].base] \in Nat
    BY <1>2, UploadIs DEF IInv, SearchInv, Typed, Working, Storing
  <2>2. gen'[Uploads[t].base] = gen[Uploads[t].base] /\ Live(t)
    <3>1. /\ tasks[t].handle \in Nat /\ tasks[t].handle <= gen[Uploads[t].base]
          /\ gen[Uploads[t].base] <= gen'[Uploads[t].base]
          /\ tasks[t].handle = gen'[Uploads[t].base]
      BY <1>2, <2>1 DEF TaskRecords, AtFile, Spares, Live
    <3> QED BY <2>1, <3>1 DEF Live
  <2>3. Chunk(Current(t), i) \in vectors
    BY <1>2, <2>1, <2>2 DEF Found
  <2>4. /\ Chunk(Current(t), i).doc = Current(t) /\ Chunk(Current(t), i).base = Uploads[t].base
        /\ Current(t) \notin rows
    BY <1>2, <2>1, PresentFile DEF Chunk, InStores
  <2> QED BY <2>2, <2>3, <2>4 DEF Spares
<1>3. \A t \in Tasks : Found(t)'
  BY <1>2 DEF Found, Spares, Current
<1> QED BY <1>1, <1>3 DEF SearchInv

\* The steps of a task that is at work: no other task is.
LEMMA WorkerKeeps ==
  ASSUME SearchInv, NEW t \in Tasks, Working(t),
         \A u \in Tasks : u # t => tasks'[u] = tasks[u],
         Found(t)'
  PROVE  SearchInv'
<1>1. \A u \in Tasks : u # t => ~Working(u) /\ ~Working(u)'
  BY DEF SearchInv, Alone, Working
<1>2. Alone'
  BY <1>1 DEF Alone
<1>3. \A u \in Tasks : u # t => Found(u)'
  BY <1>1 DEF Found, Working, Storing
<1> QED BY <1>2, <1>3 DEF SearchInv

LEMMA RunSearch ==
  ASSUME IInv, SearchInv, NEW t \in Tasks,
         Builds(t) \/ Examines(t) \/ Embeds(t) \/ Registers(t) \/ Records(t)
  PROVE  SearchInv'
<1>1. Typed /\ AtFile(t) /\ InStores(t) /\ Found(t) /\ Working(t) /\ tasks[t] \in TaskRecords
  BY DEF IInv, SearchInv, Typed, Working, Builds, Examines, Embeds, Registers, Records
<1>2. ASSUME NEW what \in {"uploaded", "skipped", "error", "left"}, FileEnds(t, what)  PROVE  SearchInv'
  <2>1. /\ tasks'[t].pc \in {"over", "build"}
        /\ \A u \in Tasks : u # t => tasks'[u] = tasks[u]
    BY <1>1, <1>2, FileEndsIs
  <2> QED BY <1>1, <2>1, WorkerKeeps DEF Found, Storing
<1>3. ASSUME NEW verdict \in Terminal, Over(t, verdict)  PROVE  SearchInv'
  <2>1. tasks'[t].pc = "over" /\ \A u \in Tasks : u # t => tasks'[u] = tasks[u]
    BY <1>1, <1>3, OverIs
  <2> QED BY <1>1, <2>1, WorkerKeeps DEF Found, Storing
<1>4. "failed" \in Terminal /\ "cancelled" \in Terminal
  BY DEF Terminal
<1>5. ASSUME Builds(t)  PROVE  SearchInv'
  <2>1. CASE FileEnds(t, "error")
    BY <1>2, <2>1
  <2>2. CASE ~FileEnds(t, "error")
    <3> DEFINE r == [tasks[t] EXCEPT !.pc = "examine", !.handle = gen[Uploads[t].base]]
    <3>1. tasks' = [tasks EXCEPT ![t] = r]
      BY <1>5, <2>2 DEF Builds
    <3>2. r.pc = "examine"
      BY <1>1 DEF TaskRecords
    <3> HIDE DEF r
    <3>3. tasks'[t].pc = "examine" /\ \A u \in Tasks : u # t => tasks'[u] = tasks[u]
      BY <1>1, <3>1, <3>2 DEF Typed
    <3> QED BY <1>1, <3>3, WorkerKeeps DEF Found, Storing
  <2> QED BY <2>1, <2>2
<1>6. ASSUME Examines(t)  PROVE  SearchInv'
  <2>1. CASE Reaches(t, "embed")
    <3>1. /\ tasks'[t].pc = "embed" /\ tasks'[t].done = tasks[t].done
          /\ \A u \in Tasks : u # t => tasks'[u] = tasks[u]
      BY <1>1, <2>1, ReachesIs DEF Places
    <3>2. tasks[t].done = 0
      BY <1>1, <1>6 DEF AtFile, Examines
    <3> QED BY <1>1, <3>1, <3>2, WorkerKeeps DEF Found
  <2>2. \/ Reaches(t, "embed") \/ Over(t, "cancelled")
        \/ FileEnds(t, "error") \/ FileEnds(t, "skipped")
    BY <1>6 DEF Examines, Replaces, IsStopped
  <2> QED BY <1>2, <1>3, <1>4, <2>1, <2>2
<1>7. ASSUME Registers(t)  PROVE  SearchInv'
  <2>1. /\ tasks'[t].pc = "row" /\ tasks'[t].done = tasks[t].done
        /\ tasks'[t].file = tasks[t].file /\ tasks'[t].handle = tasks[t].handle
        /\ \A u \in Tasks : u # t => tasks'[u] = tasks[u]
    BY <1>1, <1>7, ReachesIs DEF Places, Registers
  <2>2. tasks[t].pc \in Storing /\ UNCHANGED <<gen, vectors>>
    BY <1>7 DEF Registers, Storing
  <2>3. Current(t)' = Current(t) /\ Live(t)' = Live(t)
    BY <2>1, <2>2 DEF Current, Live
  <2> QED BY <1>1, <2>1, <2>2, <2>3, WorkerKeeps DEF Found
<1>8. ASSUME Records(t)  PROVE  SearchInv'
  BY <1>2, <1>3, <1>4, <1>8 DEF Records
<1>9. ASSUME Embeds(t)  PROVE  SearchInv'
  <2>1. CASE Over(t, "cancelled") \/ FileEnds(t, "error") \/ FileEnds(t, "left")
    BY <1>2, <1>3, <1>4, <2>1
  <2>2. CASE ~(Over(t, "cancelled") \/ FileEnds(t, "error") \/ FileEnds(t, "left"))
    <3> DEFINE d == Current(t)
               n == tasks[t].done
               displaced == IF n = 0 THEN Displaced(d) ELSE {}
               place == IF n + 1 = Len(Content(d)) THEN "register" ELSE "embed"
               r == [tasks[t] EXCEPT !.done = n + 1, !.pc = place]
    <3>1. /\ tasks' = [tasks EXCEPT ![t] = r]
          /\ vectors' = {c \in vectors : ~(c \in displaced /\ c.base = Base(d))} \cup {Chunk(d, n + 1)}
          /\ Live(t) /\ gen' = gen /\ tasks[t].pc = "embed"
      BY <1>9, <2>2 DEF Embeds, BatchFails, IsStopped
    <3>2. r.done = n + 1 /\ r.file = tasks[t].file /\ r.handle = tasks[t].handle /\ n \in Nat
      BY <1>1 DEF TaskRecords
    <3>3. displaced \subseteq prints
      BY DEF Displaced
    <3>4. \A c \in displaced : c.doc # d
      BY <1>1, <3>1, <3>3 DEF InStores, Storing
    <3> HIDE DEF r, n, displaced, d, place
    <3>5. tasks'[t] = r /\ \A u \in Tasks : u # t => tasks'[u] = tasks[u]
      BY <1>1, <3>1 DEF Typed
    <3>6. \A i \in 1..n : Chunk(d, i) \in vectors
      BY <1>1, <3>1 DEF Found, Storing, d, n
    <3>7. \A i \in 1..(n + 1) : Chunk(d, i) \in vectors'
      <4>1. ASSUME NEW i \in 1..n  PROVE  Chunk(d, i) \in vectors'
        <5>1. Chunk(d, i).doc = d /\ Chunk(d, i) \in vectors
          BY <3>6 DEF Chunk
        <5> QED BY <3>1, <3>4, <5>1
      <4> QED BY <3>1, <3>2, <4>1
    <3>8. Current(t)' = d
      BY <3>2, <3>5 DEF Current, d
    <3>9. Found(t)'
      BY <3>2, <3>5, <3>7, <3>8 DEF Found
    <3> QED BY <1>1, <3>5, <3>9, WorkerKeeps
  <2> QED BY <2>1, <2>2
<1> QED BY <1>5, <1>6, <1>7, <1>8, <1>9

\* The steps of a task that is not at work, and does not begin to be.
LEMMA IdlerKeeps ==
  ASSUME IInv, SearchInv, NEW t \in Tasks, ~Working(t), ~Working(t)',
         \A u \in Tasks : u # t => tasks'[u] = tasks[u], UNCHANGED <<vectors, gen>>
  PROVE  SearchInv'
<1>1. \A u \in Tasks : u # t =>
        Working(u)' = Working(u) /\ Current(u)' = Current(u) /\ Live(u)' = Live(u)
  BY DEF Working, Current, Live
<1>2. Alone'
  BY <1>1 DEF SearchInv, Alone
<1>3. \A u \in Tasks : u # t => Found(u)'
  BY <1>1 DEF SearchInv, Found
<1>4. Found(t)'
  BY DEF Found, Working, Storing
<1> QED BY <1>2, <1>3, <1>4 DEF SearchInv

LEMMA IdleSearch ==
  ASSUME IInv, SearchInv, NEW t \in Tasks, Asks(t) \/ SaveFails(t) \/ Creates(t) \/ Skips(t)
  PROVE  SearchInv'
<1>1. Typed /\ tasks[t] \in TaskRecords /\ "cancelled" \in Terminal
  BY DEF IInv, Typed, Terminal
<1>2. ~Working(t) /\ UNCHANGED <<vectors, gen>>
  BY DEF Working, Asks, SaveFails, Creates, Skips, Stores
<1>3. /\ tasks'[t].pc \in {"asked", "waiting", "over"}
      /\ \A u \in Tasks : u # t => tasks'[u] = tasks[u]
  <2>1. CASE Skips(t)
    BY <1>1, <2>1, OverIs DEF Skips
  <2>2. ASSUME NEW r \in TaskRecords, r.pc \in {"asked", "waiting", "over"},
               tasks' = [tasks EXCEPT ![t] = r]
        PROVE  /\ tasks'[t].pc \in {"asked", "waiting", "over"}
               /\ \A u \in Tasks : u # t => tasks'[u] = tasks[u]
    BY <1>1, <2>2 DEF Typed
  <2>3. CASE Asks(t)
    <3> DEFINE r == [tasks[t] EXCEPT !.pc = "asked", !.temp = ~Uploads[t].url]
    <3>1. r \in TaskRecords /\ r.pc = "asked" /\ tasks' = [tasks EXCEPT ![t] = r]
      BY <1>1, <2>3 DEF Asks, TaskRecords, Places
    <3> HIDE DEF r
    <3> QED BY <2>2, <3>1
  <2>4. CASE SaveFails(t)
    <3> DEFINE r == [tasks[t] EXCEPT !.pc = "over", !.temp = FALSE]
    <3>1. r \in TaskRecords /\ r.pc = "over" /\ tasks' = [tasks EXCEPT ![t] = r]
      BY <1>1, <2>4 DEF SaveFails, TaskRecords, Places
    <3> HIDE DEF r
    <3> QED BY <2>2, <3>1
  <2>5. CASE Creates(t)
    <3> DEFINE r == [tasks[t] EXCEPT !.pc = "waiting"]
    <3>1. r \in TaskRecords /\ r.pc = "waiting" /\ tasks' = [tasks EXCEPT ![t] = r]
      BY <1>1, <2>5 DEF Creates, TaskRecords, Places
    <3> HIDE DEF r
    <3> QED BY <2>2, <3>1
  <2> QED BY <2>1, <2>3, <2>4, <2>5
<1>4. ~Working(t)'
  BY <1>3 DEF Working
<1> QED BY <1>2, <1>3, <1>4, IdlerKeeps

\* A task starts only when no other is at work.
LEMMA StartSearch ==
  ASSUME IInv, SearchInv, MaxConcurrent = 1, NEW t \in Tasks, Starts(t)
  PROVE  SearchInv'
<1>1. Typed /\ tasks[t] \in TaskRecords
  BY DEF IInv, Typed
<1>2. \A u \in Tasks : ~Working(u)
  <2> DEFINE atWork == {u \in Tasks : Working(u)}
  <2>1. IsFiniteSet(Tasks)
    <3>1. Tasks = 1..Len(Uploads) /\ Len(Uploads) \in Nat
      BY KnowledgeBasesAssumption, LenProperties DEF KnowledgeBasesAssumption, Tasks
    <3> QED BY <3>1, FS_Interval
  <2>2. IsFiniteSet(atWork) /\ Cardinality(atWork) < 1
    BY <2>1, FS_Subset DEF Starts
  <2>3. Cardinality(atWork) \in Nat
    BY <2>2, FS_CardinalityType
  <2>4. Cardinality(atWork) = 0
    <3> HIDE DEF atWork
    <3> QED BY <2>2, <2>3
  <2>5. atWork = {}
    BY <2>2, <2>4, FS_EmptySet
  <2> QED BY <2>5
<1> DEFINE r == [tasks[t] EXCEPT !.pc = "build", !.status = "running", !.file = 1]
<1>3. tasks' = [tasks EXCEPT ![t] = r] /\ r.pc = "build"
  BY <1>1 DEF Starts, TaskRecords
<1> HIDE DEF r
<1>4. tasks'[t].pc = "build" /\ \A u \in Tasks : u # t => tasks'[u] = tasks[u]
  BY <1>1, <1>3 DEF Typed
<1>5. \A u \in Tasks : u # t => ~Working(u)'
  BY <1>2, <1>4 DEF Working
<1>6. Alone'
  BY <1>5 DEF Alone
<1>7. \A u \in Tasks : Found(u)'
  BY <1>4, <1>5 DEF Found, Storing, Working
<1> QED BY <1>6, <1>7 DEF SearchInv

LEMMA DeletionSearch ==
  ASSUME IInv, Typed', SearchInv,
         Deletion \/ UNCHANGED vars \/ (\E t \in Tasks : CancelTask(t) \/ RemoveTask(t))
  PROVE  SearchInv'
<1>1. /\ Typed /\ gen \in [Bases -> Nat] /\ tasks \in [Tasks -> TaskRecords]
      /\ \A k \in Bases : gen[k] <= gen[k]
  BY DEF IInv, Typed
<1>2. ASSUME UNCHANGED <<vectors, gen, tasks>>  PROVE  SearchInv'
  BY <1>1, <1>2, SparesKeeps DEF Spares
<1>3. ASSUME NEW t \in Tasks, CancelTask(t)  PROVE  SearchInv'
  <2>1. tasks' = [tasks EXCEPT ![t] = Stopped(tasks[t])] /\ UNCHANGED <<vectors, gen>>
    BY <1>3 DEF CancelTask, Stores
  <2>2. /\ Stopped(tasks[t]).pc = tasks[t].pc /\ Stopped(tasks[t]).file = tasks[t].file
        /\ Stopped(tasks[t]).done = tasks[t].done /\ Stopped(tasks[t]).handle = tasks[t].handle
    BY <1>1, StoppedIs
  <2>3. \A u \in Tasks : /\ tasks'[u].pc = tasks[u].pc /\ tasks'[u].file = tasks[u].file
                         /\ tasks'[u].done = tasks[u].done /\ tasks'[u].handle = tasks[u].handle
    BY <1>1, <2>1, <2>2
  <2> QED BY <1>1, <2>1, <2>3, SparesKeeps DEF Spares
<1>4. ASSUME NEW t \in Tasks, RemoveTask(t)  PROVE  SearchInv'
  <2> DEFINE r == [tasks[t] EXCEPT !.stop = TRUE]
  <2>1. tasks' = [tasks EXCEPT ![t] = r] /\ UNCHANGED <<vectors, gen>>
    BY <1>4 DEF RemoveTask, Stores
  <2>2. /\ r.pc = tasks[t].pc /\ r.file = tasks[t].file
        /\ r.done = tasks[t].done /\ r.handle = tasks[t].handle
    BY <1>1 DEF TaskRecords
  <2> HIDE DEF r
  <2>3. \A u \in Tasks : /\ tasks'[u].pc = tasks[u].pc /\ tasks'[u].file = tasks[u].file
                         /\ tasks'[u].done = tasks[u].done /\ tasks'[u].handle = tasks[u].handle
    BY <1>1, <2>1, <2>2
  <2> QED BY <1>1, <2>1, <2>3, SparesKeeps DEF Spares
<1>5. ASSUME NEW k \in Bases, DropBegins(k)  PROVE  SearchInv'
  <2> DEFINE stopped == {t \in Tasks : Stoppable(t) /\ Uploads[t].base = k}
  <2>1. /\ tasks' = [t \in Tasks |-> IF t \in stopped THEN Stopped(tasks[t]) ELSE tasks[t]]
        /\ gen' = [gen EXCEPT ![k] = @ + 1]
        /\ vectors' = {c \in vectors : c.base # k}
    BY <1>5 DEF DropBegins
  <2> HIDE DEF stopped
  <2>2. \A t \in Tasks : /\ tasks'[t].pc = tasks[t].pc /\ tasks'[t].file = tasks[t].file
                         /\ tasks'[t].done = tasks[t].done /\ tasks'[t].handle = tasks[t].handle
    BY <1>1, <2>1, StoppedIs
  <2>3. \A b \in Bases : gen[b] <= gen'[b]
    BY <1>1, <2>1
  <2>4. gen'[k] # gen[k]
    BY <1>1, <2>1
  <2> QED BY <2>1, <2>2, <2>3, <2>4, SparesKeeps DEF Spares
<1>6. ASSUME NEW d \in Docs, DeleteBegins(d)  PROVE  SearchInv'
  BY <1>1, <1>6, SparesKeeps DEF DeleteBegins, Spares
<1> QED BY <1>2, <1>3, <1>4, <1>5, <1>6 DEF Deletion, DropsRows, DropEnds, DeleteEnds, vars

LEMMA SearchInit == Init => SearchInv
BY DEF Init, SearchInv, Alone, Found, Working, Storing

LEMMA SearchStep ==
  ASSUME MaxConcurrent = 1
  PROVE  IInv /\ SearchInv /\ [Next]_vars => SearchInv'
<1> SUFFICES ASSUME IInv, SearchInv, [Next]_vars  PROVE  SearchInv'
  OBVIOUS
<1>1. Typed'
  BY StepHolds DEF IInv
<1>2. ASSUME NEW t \in Tasks, Request(t) \/ Run(t)  PROVE  SearchInv'
  BY <1>1, <1>2, IdleSearch, StartSearch, RunSearch, DeletionSearch DEF Request, Run
<1>3. CASE Deletion \/ UNCHANGED vars
  BY <1>1, <1>3, DeletionSearch
<1> QED BY <1>2, <1>3 DEF Next

\* A document gets its record from one step only, and from a run that has stored all its batches.
LEMMA RecordStep ==
  ASSUME IInv, SearchInv, [Next]_vars, NEW d \in rows' \ rows, Live(d[1])
  PROVE  Chunks(d) \subseteq vectors
<1>1. PICK t \in Tasks : Records(t)
  <2>1. ASSUME NEW t \in Tasks, Run(t), ~Records(t)  PROVE  rows' \subseteq rows
    BY <2>1 DEF Run, Creates, Starts, Skips, Builds, Examines, Replaces, Embeds, Registers, Stores
  <2>2. ASSUME NEW t \in Tasks, Request(t)  PROVE  rows' \subseteq rows
    BY <2>2 DEF Request, Asks, SaveFails, CancelTask, RemoveTask, Stores
  <2>3. ASSUME Deletion  PROVE  rows' \subseteq rows
    BY <2>3 DEF Deletion, DropBegins, DropsRows, DropEnds, DeleteBegins, DeleteEnds
  <2> QED BY <2>1, <2>2, <2>3 DEF Next, vars
<1>2. d = Current(t) /\ tasks[t].pc = "row"
  BY <1>1 DEF Records
<1>3. /\ d[1] = t /\ AtFile(t) /\ Found(t)
      /\ tasks[t].done = Len(Content(d))
  BY <1>2 DEF IInv, SearchInv, AtFile, Current
<1>4. \A i \in 1..Len(Content(d)) : Chunk(d, i) \in vectors
  BY <1>2, <1>3 DEF Found, Storing
<1> QED BY <1>4 DEF Chunks

\* indexer and rag.py: with one upload at a time, which is what UploadTaskManager is built with
\* (app.py, upload_tasks.py), a document gets its record only when every chunk of it can be
\* found, unless its collection was deleted since.
THEOREM RecordedIsSearchableHolds ==
  ASSUME MaxConcurrent = 1
  PROVE  Spec => RecordedIsSearchable
<1>1. IInv /\ SearchInv /\ [Next]_vars
        => [\A d \in rows' \ rows : Live(d[1]) => Chunks(d) \subseteq vectors]_vars
  BY RecordStep
<1> QED BY <1>1, SearchInit, SearchStep, IInvAlways, PTL DEF Spec, RecordedIsSearchable
==============================================================================
