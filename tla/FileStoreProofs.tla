--------------------------- MODULE FileStoreProofs ---------------------------
(***************************************************************************)
(* Proofs about the files that requests rewrite under the locks of the     *)
(* file store: the library of memories (MemoryStore), for any number of    *)
(* writers, entries and facts, and todolist.md and notes.md (TodoLists),   *)
(* for any number of requests, items, groups and lines.                    *)
(*                                                                         *)
(* LibraryInOrder is not inductive.  That index.md can be trusted rests on *)
(* the lock of index.md, which whoever has checked, written or scanned     *)
(* holds until it ends (HoldsIndex), so that what was scanned is still     *)
(* what the documents say when it is written (Scanned), and what was found *)
(* to fit still fits when the document is written (Fits).  The locks of    *)
(* the documents matter to readers, and to NoRing: who waits holds only    *)
(* what sorts before what it waits for (Orderly).                          *)
(*                                                                         *)
(* NoNoteIsLost rests on the lock of the file (TodoInv).                   *)
(* MovesOnlyTheNamed is about what one rewrite makes of what it read, and  *)
(* holds because what it read holds no line twice and, in notes.md, no     *)
(* note without a group below one that has a group (TodoFiles).  Groups    *)
(* are regions of the file (Under, Belongs): each rewrite is shown to keep *)
(* every line in its region, but for the lines that its request names.     *)
(***************************************************************************)
EXTENDS MemoryStore, TodoLists, FiniteSetTheorems, SequenceTheorems, WellFoundedInduction, TLAPS

------------------------------------------------------------------------------
(* What writers hold at each of their points. *)

Decisions ==
  [act : {"WIPE"}]
    \cup [act : {"NEW", "UPDATE"}, target : Entries \cup {Nothing}, entry : Entries, fact : Facts]
    \cup [act : {"DELETE"}, target : Entries]

Jobs ==
  {Free}
    \cup [phase : {"recalling"}, seen : Library, hits : Seq(Entries)]
    \cup [phase : {"asking"}, seen : Library]
    \cup [phase : {"locking"}, todo : Decisions, keys : Seq(Entries \cup {Index})]
    \cup [phase : {"checking", "writing", "scanning"}, todo : Decisions]
    \cup [phase : {"indexing"}, todo : Decisions, seen : Library]

Typed ==
  /\ doc \in Library /\ index \in Library /\ lagging \in BOOLEAN
  /\ owner \in [Entries \cup {Index} -> Writers \cup {NoWriter}]
  /\ job \in [Writers -> Jobs]

Inside == {"checking", "writing", "scanning", "indexing"}

\* The index is still among the locks that are asked for, or held.
AsksForIndex(w) == \E k \in 1..Len(job[w].keys) : job[w].keys[k] = Index

HoldsIndex(w) ==
  /\ job[w].phase = "locking" => job[w].keys # <<>> /\ (AsksForIndex(w) \/ owner[Index] = w)
  /\ job[w].phase \in Inside => owner[Index] = w

\* Who is at work on the index found the documents as they still are.
Scanned(w) == job[w].phase = "indexing" => job[w].seen = doc

\* What is about to be written replaces a document, or has room.
Fits(w) ==
  job[w].phase = "writing" /\ job[w].todo.act \in {"NEW", "UPDATE"} =>
    doc[job[w].todo.entry] # Nothing \/ Cardinality(Stored(doc)) < MaxEntries

Bounded == IsFiniteSet(Stored(doc)) /\ WithinLimit

IInv ==
  /\ Typed
  /\ \A w \in Writers : HoldsIndex(w) /\ Scanned(w) /\ Fits(w)
  /\ ~lagging => index = doc
  /\ Bounded

------------------------------------------------------------------------------
(* The decisions that validation and the check for twins leave. *)

LEMMA DecisionType ==
  ASSUME NEW a \in Answers, NEW seen \in Library,
         NEW d \in Guarded(Validated(a, seen), seen)
  PROVE  d.act = "NOOP" \/ d \in Decisions
<1> DEFINE v == Validated(a, seen)
<1>1. Nothing \notin Entries
  BY MemoryAssumption
<1>2. CASE v.act = "NEW"
  <2>1. v.entry \in Entries /\ v.fact \in Facts /\ v = [act |-> "NEW", target |-> Nothing, entry |-> v.entry, fact |-> v.fact]
    <3>1. CASE a.act = "NEW"
      BY <3>1 DEF Validated, Answers
    <3>2. CASE a.act # "NEW"
      <4>1. a \in [act : {"UPDATE"}, target : Entries \cup {Nothing}, entry : Entries, fact : Facts]
        BY <1>2, <3>2 DEF Validated, Answers
      <4> QED
        BY <1>2, <3>2, <4>1 DEF Validated
    <3> QED
      BY <3>1, <3>2
  <2>2. \E e \in Entries \cup {Nothing}, act \in {"NEW", "UPDATE"} :
          d = [act |-> act, target |-> e, entry |-> v.entry, fact |-> v.fact]
    BY <1>2, <2>1 DEF Guarded, Stored
  <2> QED
    BY <2>1, <2>2 DEF Decisions
<1>3. CASE v.act # "NEW"
  <2>1. d = v
    BY <1>3 DEF Guarded
  <2> QED
    BY <1>1, <1>3, <2>1 DEF Validated, Answers, Decisions
<1> QED
  BY <1>2, <1>3

LEMMA KeysType ==
  ASSUME NEW d \in Decisions
  PROVE  /\ Keys(d) \in Seq(Entries \cup {Index}) /\ Keys(d) # <<>>
         /\ \E k \in 1..Len(Keys(d)) : Keys(d)[k] = Index
<1>1. d.act # "WIPE" => Path(d) \in Entries
  BY DEF Decisions, Path
<1>2. CASE d.act = "WIPE"
  BY <1>2 DEF Keys
<1>3. CASE d.act # "WIPE"
  <2>1. CASE Keys(d) = <<Path(d), Index>>
    <3>1. Keys(d)[2] = Index /\ 2 \in 1..Len(Keys(d))
      BY <2>1
    <3> QED
      BY <1>1, <1>3, <2>1, <3>1
  <2>2. CASE Keys(d) = <<Index, Path(d)>>
    <3>1. Keys(d)[1] = Index /\ 1 \in 1..Len(Keys(d))
      BY <2>2
    <3> QED
      BY <1>1, <1>3, <2>2, <3>1
  <2> QED
    BY <1>3, <2>1, <2>2 DEF Keys
<1> QED
  BY <1>2, <1>3

(* What is wanted and is not taken now is wanted still. *)
LEMMA StillWanted ==
  ASSUME NEW S, NEW q \in Seq(S), NEW v, NEW i \in 1..Len(q), q[i] = v, Head(q) # v
  PROVE  Tail(q) # <<>> /\ \E j \in 1..Len(Tail(q)) : Tail(q)[j] = v
<1>1. Len(q) \in Nat /\ i \in Nat /\ q # <<>>
  OBVIOUS
<1>2. i # 1
  BY <1>1
<1>3. Tail(q) \in Seq(S) /\ Len(Tail(q)) = Len(q) - 1
  BY <1>1
<1>4. i - 1 \in 1..Len(Tail(q)) /\ Tail(q)[i - 1] = v
  BY <1>1, <1>2, <1>3
<1>5. Tail(q) # <<>>
  <2>1. Len(Tail(q)) # 0
    BY <1>1, <1>2, <1>3
  <2> QED
    BY <1>3, <2>1, EmptySeq
<1> QED
  BY <1>4, <1>5

LEMMA InitIInv == MemoryInit => IInv
<1> SUFFICES ASSUME MemoryInit PROVE IInv
  OBVIOUS
<1>1. Typed
  BY DEF MemoryInit, Typed, Jobs, Library, Free
<1>2. \A w \in Writers : HoldsIndex(w) /\ Scanned(w) /\ Fits(w)
  BY DEF MemoryInit, Free, HoldsIndex, Inside, Scanned, Fits
<1>3. Stored(doc) = {}
  BY DEF MemoryInit, Stored
<1>4. Bounded
  BY <1>3, FS_EmptySet, MemoryAssumption DEF Bounded, WithinLimit
<1> QED
  BY <1>1, <1>2, <1>4 DEF MemoryInit, IInv

------------------------------------------------------------------------------
(* A step of a writer: what it does to the locks, and that it leaves the *)
(* other writers' records alone.                                         *)

LEMMA TypedStep ==
  ASSUME IInv, MemoryNext
  PROVE  Typed'
<1> USE DEF Typed
<1>1. Typed
  BY DEF IInv
<1>2. NoWriter \notin Writers /\ Index \notin Entries /\ Free \in Jobs
  BY MemoryAssumption DEF Jobs
<1>3. CASE MemoryRestarts
  BY <1>1, <1>2, <1>3 DEF MemoryRestarts
<1>4. ASSUME NEW w \in Writers, Loads(w) PROVE Typed'
  <2>1. PICK n \in 0..TopK : \E hits \in [1..n -> Stored(doc)] :
           job' = [job EXCEPT ![w] = [phase |-> "recalling", seen |-> doc, hits |-> hits]]
    BY <1>4 DEF Loads
  <2>2. PICK hits \in [1..n -> Stored(doc)] :
           job' = [job EXCEPT ![w] = [phase |-> "recalling", seen |-> doc, hits |-> hits]]
    BY <2>1
  <2>3. hits \in Seq(Entries)
    BY <2>2, MemoryAssumption DEF Stored
  <2> QED
    BY <1>1, <1>4, <2>2, <2>3 DEF Loads, Jobs
<1>5. ASSUME NEW w \in Writers, Recalls(w) PROVE Typed'
  <2>1. job[w] \in [phase : {"recalling"}, seen : Library, hits : Seq(Entries)]
    BY <1>1, <1>5 DEF Recalls, Jobs, Free
  <2>2. job[w].hits # <<>> => Tail(job[w].hits) \in Seq(Entries)
    BY <2>1
  <2>3. (IF job[w].hits = <<>> THEN [phase |-> "asking", seen |-> job[w].seen]
           ELSE [job[w] EXCEPT !.hits = Tail(@)]) \in Jobs
    BY <2>1, <2>2 DEF Jobs
  <2> QED
    BY <1>1, <1>5, <2>3 DEF Recalls
<1>6. ASSUME NEW w \in Writers, NEW d, d.act = "NOOP" \/ d \in Decisions, Wants(w, d) PROVE Typed'
  <2>1. (IF d.act = "NOOP" THEN Free ELSE [phase |-> "locking", todo |-> d, keys |-> Keys(d)]) \in Jobs
    BY <1>2, <1>6, KeysType DEF Jobs
  <2> QED
    BY <1>1, <1>6, <2>1 DEF Wants
<1>7. ASSUME NEW w \in Writers, Decides(w) PROVE Typed'
  <2>1. job[w].seen \in Library
    BY <1>1, <1>7 DEF Decides, Jobs, Free
  <2>2. CASE Wants(w, [act |-> "NOOP"])
    BY <1>6, <2>2
  <2>3. CASE \E a \in Answers : \E d \in Guarded(Validated(a, job[w].seen), job[w].seen) : Wants(w, d)
    BY <1>6, <2>1, <2>3, DecisionType
  <2> QED
    BY <1>7, <2>2, <2>3 DEF Decides
<1>8. ASSUME NEW w \in Writers, Wipes(w) PROVE Typed'
  BY <1>6, <1>8 DEF Wipes, Decisions
<1>9. ASSUME NEW w \in Writers, Locks(w) PROVE Typed'
  <2>1. job[w] \in [phase : {"locking"}, todo : Decisions, keys : Seq(Entries \cup {Index})]
    BY <1>1, <1>9 DEF Locks, Jobs, Free
  <2>2. job[w].keys # <<>>
    BY <1>9 DEF IInv, HoldsIndex, Locks
  <2>3. Head(job[w].keys) \in Entries \cup {Index} /\ Tail(job[w].keys) \in Seq(Entries \cup {Index})
    BY <2>1, <2>2
  <2>4. (IF Tail(job[w].keys) = <<>> THEN [phase |-> "checking", todo |-> job[w].todo]
           ELSE [job[w] EXCEPT !.keys = Tail(job[w].keys)]) \in Jobs
    BY <2>1, <2>3 DEF Jobs
  <2> QED
    BY <1>1, <1>9, <2>3, <2>4 DEF Locks
<1>10. ASSUME NEW w \in Writers, Closes(w), doc' \in Library, index' \in Library, lagging' \in BOOLEAN
       PROVE  Typed'
  BY <1>1, <1>2, <1>10 DEF Closes, ReleasedBy
<1>11. ASSUME NEW w \in Writers, Checks(w) PROVE Typed'
  <2>1. job[w] \in [phase : {"checking", "writing", "scanning"}, todo : Decisions]
    BY <1>1, <1>11 DEF Checks, Jobs, Free
  <2> QED
    BY <1>1, <1>11, <2>1 DEF Checks, Jobs
<1>12. ASSUME NEW w \in Writers, Writes(w) PROVE Typed'
  <2>1. job[w] \in [phase : {"checking", "writing", "scanning"}, todo : Decisions]
    BY <1>1, <1>12 DEF Writes, Jobs, Free
  <2>2. Recorded(job[w].todo) \in Library
    BY <1>1, <2>1 DEF Recorded, Decisions, Library
  <2> QED
    BY <1>1, <1>12, <2>1, <2>2 DEF Writes, Jobs
<1>13. ASSUME NEW w \in Writers, Scans(w) PROVE Typed'
  <2>1. job[w] \in [phase : {"checking", "writing", "scanning"}, todo : Decisions]
    BY <1>1, <1>13 DEF Scans, Jobs, Free
  <2> QED
    BY <1>1, <1>13, <2>1 DEF Scans, Jobs
<1>14. ASSUME NEW w \in Writers, Reindexes(w) PROVE Typed'
  <2>1. job[w].seen \in Library
    BY <1>1, <1>14 DEF Reindexes, Jobs, Free
  <2> QED
    BY <1>1, <1>10, <1>14, <2>1 DEF Reindexes
<1>15. ASSUME NEW w \in Writers, Refuses(w) \/ StepFails(w) PROVE Typed'
  BY <1>1, <1>10, <1>15 DEF Refuses, StepFails
<1> QED
  BY <1>3, <1>4, <1>5, <1>7, <1>8, <1>9, <1>11, <1>12, <1>13, <1>14, <1>15 DEF MemoryNext, Proceeds

LEMMA HoldsStep ==
  ASSUME IInv, MemoryNext
  PROVE  \A w \in Writers : HoldsIndex(w)'
<1> USE DEF HoldsIndex, AsksForIndex, Inside
<1>1. Typed /\ \A w \in Writers : HoldsIndex(w)
  BY DEF IInv
<1>2. NoWriter \notin Writers /\ Index \in DOMAIN owner
  BY <1>1, MemoryAssumption DEF Typed
<1>3. CASE MemoryRestarts
  BY <1>3 DEF MemoryRestarts, Free
<1>4. ASSUME NEW w \in Writers, owner' = owner,
             job' = [job EXCEPT ![w] = job'[w]],
             job'[w].phase \notin {"locking"} \cup Inside \/ (job[w].phase \in Inside /\ job'[w].phase # "locking")
      PROVE  \A x \in Writers : HoldsIndex(x)'
  BY <1>1, <1>4 DEF Typed
<1>5. ASSUME NEW w \in Writers, NEW d, d.act = "NOOP" \/ d \in Decisions, Wants(w, d)
      PROVE  \A x \in Writers : HoldsIndex(x)'
  <2>1. CASE d.act = "NOOP"
    BY <1>1, <1>4, <1>5, <2>1 DEF Wants, Typed, Free
  <2>2. CASE d.act # "NOOP"
    <3>1. job' = [job EXCEPT ![w] = [phase |-> "locking", todo |-> d, keys |-> Keys(d)]] /\ owner' = owner
      BY <1>5, <2>2 DEF Wants
    <3>2. job'[w].phase = "locking" /\ job'[w].keys = Keys(d)
      BY <1>1, <3>1 DEF Typed
    <3>3. HoldsIndex(w)'
      BY <1>5, <2>2, <3>2, KeysType
    <3> QED
      BY <1>1, <3>1, <3>3 DEF Typed
  <2> QED
    BY <2>1, <2>2
<1>6. ASSUME NEW w \in Writers, Locks(w) PROVE \A x \in Writers : HoldsIndex(x)'
  <2>1. job[w] \in [phase : {"locking"}, todo : Decisions, keys : Seq(Entries \cup {Index})] /\ job[w].keys # <<>>
    BY <1>1, <1>6 DEF Locks, Typed, Jobs, Free
  <2> DEFINE k == Head(job[w].keys)
             rest == Tail(job[w].keys)
  <2>2. /\ owner[k] = NoWriter /\ owner' = [owner EXCEPT ![k] = w]
        /\ job' = [job EXCEPT ![w] = IF rest = <<>> THEN [phase |-> "checking", todo |-> @.todo]
                                     ELSE [@ EXCEPT !.keys = rest]]
    BY <1>6 DEF Locks
  <2>3. k \in Entries \cup {Index} /\ rest \in Seq(Entries \cup {Index})
    BY <2>1
  <2>4. ASSUME AsksForIndex(w), k # Index
        PROVE  rest # <<>> /\ \E i \in 1..Len(rest) : rest[i] = Index
    <3>1. PICK i \in 1..Len(job[w].keys) : job[w].keys[i] = Index
      BY <2>4
    <3> QED
      BY <2>1, <2>4, <3>1, StillWanted, SMTT(30)
  <2>5. AsksForIndex(w) \/ owner[Index] = w
    BY <1>1, <2>1
  <2>6. ~AsksForIndex(w) \/ k = Index => owner'[Index] = w
    BY <1>1, <2>2, <2>3, <2>5 DEF Typed
  <2>7. HoldsIndex(w)'
    <3>1. CASE rest = <<>>
      <4>1. job'[w] = [phase |-> "checking", todo |-> job[w].todo]
        BY <1>1, <2>2, <3>1 DEF Typed
      <4> QED
        BY <2>4, <2>6, <3>1, <4>1
    <3>2. CASE rest # <<>>
      <4>1. job'[w].phase = "locking" /\ job'[w].keys = rest
        BY <1>1, <2>1, <2>2, <3>2 DEF Typed
      <4> QED
        BY <2>4, <2>6, <3>2, <4>1
    <3> QED
      BY <3>1, <3>2
  <2>8. ASSUME NEW x \in Writers, x # w PROVE HoldsIndex(x)'
    <3>1. job'[x] = job[x]
      BY <1>1, <2>2, <2>8 DEF Typed
    <3>2. owner[Index] = x => owner'[Index] = x
      BY <1>1, <1>2, <2>2, <2>3 DEF Typed
    <3> QED
      BY <1>1, <3>1, <3>2
  <2> QED
    BY <2>7, <2>8
<1>7. ASSUME NEW w \in Writers, Closes(w) PROVE \A x \in Writers : HoldsIndex(x)'
  <2>1. HoldsIndex(w)'
    BY <1>1, <1>7 DEF Closes, Typed, Free
  <2>2. ASSUME NEW x \in Writers, x # w PROVE HoldsIndex(x)'
    <3>1. job'[x] = job[x]
      BY <1>1, <1>7, <2>2 DEF Closes, Typed
    <3>2. owner[Index] = x => owner'[Index] = x
      BY <1>2, <1>7, <2>2 DEF Closes, ReleasedBy
    <3> QED
      BY <1>1, <3>1, <3>2
  <2> QED
    BY <2>1, <2>2
<1>8. ASSUME NEW w \in Writers, Loads(w) \/ Recalls(w) PROVE \A x \in Writers : HoldsIndex(x)'
  <2>1. owner' = owner /\ job' = [job EXCEPT ![w] = job'[w]]
    BY <1>1, <1>8 DEF Loads, Recalls, Typed
  <2>2. job'[w].phase \in {"recalling", "asking"}
    <3>1. CASE Loads(w)
      BY <1>1, <3>1 DEF Loads, Typed
    <3>2. CASE Recalls(w)
      <4>1. job[w] \in [phase : {"recalling"}, seen : Library, hits : Seq(Entries)]
        BY <1>1, <3>2 DEF Recalls, Typed, Jobs, Free
      <4> QED
        BY <1>1, <3>2, <4>1 DEF Recalls, Typed
    <3> QED
      BY <1>8, <3>1, <3>2
  <2> QED
    BY <1>4, <2>1, <2>2
<1>9. ASSUME NEW w \in Writers, Checks(w) \/ Writes(w) \/ Scans(w)
      PROVE  \A x \in Writers : HoldsIndex(x)'
  <2>1. job[w] \in [phase : {"checking", "writing", "scanning"}, todo : Decisions]
    BY <1>1, <1>9 DEF Checks, Writes, Scans, Typed, Jobs, Free
  <2>2. owner' = owner /\ job' = [job EXCEPT ![w] = job'[w]] /\ job'[w].phase \in Inside
    BY <1>1, <1>9, <2>1 DEF Checks, Writes, Scans, Typed
  <2> QED
    BY <1>4, <2>1, <2>2
<1>10. ASSUME NEW w \in Writers, Decides(w) \/ Wipes(w) PROVE \A x \in Writers : HoldsIndex(x)'
  <2>1. CASE Wipes(w)
    BY <1>5, <2>1 DEF Wipes, Decisions
  <2>2. CASE Decides(w)
    <3>1. job[w].seen \in Library
      BY <1>1, <2>2 DEF Decides, Typed, Jobs, Free
    <3> QED
      BY <1>5, <2>2, <3>1, DecisionType DEF Decides
  <2> QED
    BY <1>10, <2>1, <2>2
<1>11. ASSUME NEW w \in Writers, Refuses(w) \/ Reindexes(w) \/ StepFails(w)
       PROVE  \A x \in Writers : HoldsIndex(x)'
  BY <1>7, <1>11 DEF Refuses, Reindexes, StepFails
<1> QED
  BY <1>3, <1>6, <1>8, <1>9, <1>10, <1>11 DEF MemoryNext, Proceeds

------------------------------------------------------------------------------
(* The library. *)

\* What a step does to the documents, the index and the count of the stored.
LEMMA StoredAfter ==
  ASSUME NEW d \in Decisions, doc \in Library, IsFiniteSet(Stored(doc)), WithinLimit,
         d.act \in {"NEW", "UPDATE"} =>
           doc[d.entry] # Nothing \/ Cardinality(Stored(doc)) < MaxEntries,
         doc' = Recorded(d)
  PROVE  Bounded'
<1>1. MaxEntries \in Nat /\ Nothing \notin Facts /\ Cardinality(Stored(doc)) \in Nat
  BY MemoryAssumption, FS_CardinalityType
<1>2. CASE d.act \in {"NEW", "UPDATE"}
  <2>1. d.entry \in Entries /\ d.fact \in Facts /\ doc' = [doc EXCEPT ![d.entry] = d.fact]
    BY <1>2 DEF Decisions, Recorded
  <2>2. Stored(doc)' = Stored(doc) \cup {d.entry}
    BY <1>1, <2>1 DEF Stored, Library
  <2>3. /\ IsFiniteSet(Stored(doc) \cup {d.entry})
        /\ Cardinality(Stored(doc) \cup {d.entry}) =
             IF d.entry \in Stored(doc) THEN Cardinality(Stored(doc)) ELSE Cardinality(Stored(doc)) + 1
    BY FS_AddElement
  <2>4. d.entry \in Stored(doc) \/ Cardinality(Stored(doc)) < MaxEntries
    BY <1>2, <2>1 DEF Stored
  <2> QED
    BY <1>1, <2>2, <2>3, <2>4 DEF Bounded, WithinLimit
<1>3. CASE d.act \notin {"NEW", "UPDATE"}
  <2>1. Stored(doc)' \subseteq Stored(doc)
    BY <1>1, <1>3 DEF Decisions, Recorded, Stored, Library
  <2>2. IsFiniteSet(Stored(doc)') /\ Cardinality(Stored(doc)') <= Cardinality(Stored(doc))
    BY <2>1, FS_Subset
  <2>3. Cardinality(Stored(doc)') \in Nat
    BY <2>2, FS_CardinalityType
  <2> QED
    BY <1>1, <2>2, <2>3 DEF Bounded, WithinLimit
<1> QED
  BY <1>2, <1>3

LEMMA LibraryStep ==
  ASSUME IInv, MemoryNext
  PROVE  /\ \A w \in Writers : Scanned(w)' /\ Fits(w)'
         /\ lagging' \/ index' = doc'
         /\ Bounded'
<1> DEFINE Kept ==
      /\ \A w \in Writers : Scanned(w)' /\ Fits(w)'
      /\ lagging' \/ index' = doc'
      /\ Bounded'
<1>1. /\ Typed /\ Bounded /\ (lagging \/ index = doc)
      /\ \A w \in Writers : HoldsIndex(w) /\ Scanned(w) /\ Fits(w)
  BY DEF IInv, Typed
<1>2. doc' = doc => Bounded'
  BY <1>1 DEF Bounded, WithinLimit, Stored
<1>3. ASSUME doc' = doc, index' = index, lagging' = lagging, NEW w \in Writers,
             \A x \in Writers : x # w => job'[x] = job[x],
             Scanned(w)', Fits(w)'
      PROVE  Kept
  BY <1>1, <1>2, <1>3 DEF Scanned, Fits, Stored
<1>4. ASSUME NEW w \in Writers, job' = [job EXCEPT ![w] = job'[w]], job'[w].phase \notin {"indexing", "writing"},
             doc' = doc, index' = index, lagging' = lagging
      PROVE  Kept
  <2>1. \A x \in Writers : x # w => job'[x] = job[x]
    BY <1>1, <1>4 DEF Typed
  <2>2. Scanned(w)' /\ Fits(w)'
    BY <1>4 DEF Scanned, Fits
  <2> QED
    BY <1>3, <1>4, <2>1, <2>2
<1>5. CASE MemoryRestarts
  <2>1. \A w \in Writers : Scanned(w)' /\ Fits(w)'
    BY <1>5 DEF MemoryRestarts, Free, Scanned, Fits
  <2> QED
    BY <1>1, <1>2, <1>5, <2>1 DEF MemoryRestarts
<1>6. ASSUME NEW w \in Writers, NEW d, Wants(w, d) PROVE Kept
  <2>1. job'[w].phase \in {"idle", "locking"} /\ job' = [job EXCEPT ![w] = job'[w]]
    BY <1>1, <1>6 DEF Wants, Typed, Free
  <2> QED
    BY <1>4, <1>6, <2>1 DEF Wants
<1>7. ASSUME NEW w \in Writers, Decides(w) \/ Wipes(w) PROVE Kept
  BY <1>6, <1>7 DEF Decides, Wipes
<1>8. ASSUME NEW w \in Writers, Loads(w) \/ Recalls(w) \/ Locks(w) PROVE Kept
  <2>1. job' = [job EXCEPT ![w] = job'[w]]
    BY <1>1, <1>8 DEF Loads, Recalls, Locks, Typed
  <2>2. job'[w].phase \in {"recalling", "asking", "locking", "checking"}
    <3>1. CASE Loads(w)
      BY <1>1, <3>1 DEF Loads, Typed
    <3>2. CASE Recalls(w)
      <4>1. job[w] \in [phase : {"recalling"}, seen : Library, hits : Seq(Entries)]
        BY <1>1, <3>2 DEF Recalls, Typed, Jobs, Free
      <4> QED
        BY <1>1, <3>2, <4>1 DEF Recalls, Typed
    <3>3. CASE Locks(w)
      <4>1. job[w] \in [phase : {"locking"}, todo : Decisions, keys : Seq(Entries \cup {Index})]
        BY <1>1, <3>3 DEF Locks, Typed, Jobs, Free
      <4> QED
        BY <1>1, <3>3, <4>1 DEF Locks, Typed
    <3> QED
      BY <1>8, <3>1, <3>2, <3>3
  <2> QED
    BY <1>4, <1>8, <2>1, <2>2 DEF Loads, Recalls, Locks
<1>9. ASSUME NEW w \in Writers, Refuses(w) \/ StepFails(w) PROVE Kept
  <2>1. job' = [job EXCEPT ![w] = job'[w]] /\ job'[w].phase = "idle"
    BY <1>1, <1>9 DEF Refuses, StepFails, Closes, Typed, Free
  <2> QED
    BY <1>4, <1>9, <2>1 DEF Refuses, StepFails
<1>10. ASSUME NEW w \in Writers, Checks(w) PROVE Kept
  <2>1. job[w] \in [phase : {"checking", "writing", "scanning"}, todo : Decisions]
    BY <1>1, <1>10 DEF Checks, Typed, Jobs, Free
  <2>2. job'[w] = [job[w] EXCEPT !.phase = "writing"] /\ \A x \in Writers : x # w => job'[x] = job[x]
    BY <1>1, <1>10 DEF Checks, Typed
  <2>3. Cardinality(Stored(doc)) \in Nat /\ MaxEntries \in Nat
    BY <1>1, FS_CardinalityType, MemoryAssumption DEF Bounded
  <2>4. job[w].todo.act \in {"NEW", "UPDATE"} =>
          doc[job[w].todo.entry] # Nothing \/ Cardinality(Stored(doc)) < MaxEntries
    BY <1>10, <2>3 DEF Checks, Full
  <2>5. job'[w].phase = "writing" /\ job'[w].todo = job[w].todo
    BY <2>1, <2>2
  <2>6. doc' = doc /\ index' = index /\ lagging' = lagging
    BY <1>10 DEF Checks
  <2>7. Fits(w)'
    BY <2>4, <2>5, <2>6 DEF Fits, Stored
  <2>8. Scanned(w)'
    BY <2>5 DEF Scanned
  <2> QED
    BY <1>3, <2>2, <2>6, <2>7, <2>8
<1>11. ASSUME NEW w \in Writers, Writes(w) PROVE Kept
  <2>1. job[w] \in [phase : {"checking", "writing", "scanning"}, todo : Decisions]
    BY <1>1, <1>11 DEF Writes, Typed, Jobs, Free
  <2>2. job'[w].phase = "scanning" /\ \A x \in Writers : x # w => job'[x] = job[x]
    BY <1>1, <1>11, <2>1 DEF Writes, Typed
  <2>3. \A x \in Writers : x # w => job[x].phase \notin Inside
    BY <1>1, <1>11 DEF Writes, HoldsIndex, Inside
  <2>4. \A x \in Writers : Scanned(x)' /\ Fits(x)'
    BY <2>2, <2>3 DEF Scanned, Fits, Inside
  <2>5. Bounded'
    BY <1>1, <1>11, <2>1, StoredAfter DEF Writes, Bounded, Fits, Typed
  <2> QED
    BY <1>11, <2>4, <2>5 DEF Writes
<1>12. ASSUME NEW w \in Writers, Scans(w) PROVE Kept
  <2>1. job'[w] = [phase |-> "indexing", todo |-> job[w].todo, seen |-> doc]
        /\ \A x \in Writers : x # w => job'[x] = job[x]
    BY <1>1, <1>12 DEF Scans, Typed
  <2>2. Scanned(w)' /\ Fits(w)'
    BY <1>12, <2>1 DEF Scans, Scanned, Fits
  <2> QED
    BY <1>3, <1>12, <2>1, <2>2 DEF Scans
<1>13. ASSUME NEW w \in Writers, Reindexes(w) PROVE Kept
  <2>1. job' = [job EXCEPT ![w] = Free] /\ doc' = doc /\ index' = doc
    BY <1>1, <1>13 DEF Reindexes, Closes, Scanned
  <2>2. \A x \in Writers : x # w => job'[x] = job[x]
    BY <1>1, <2>1 DEF Typed
  <2>3. job'[w].phase = "idle"
    BY <1>1, <2>1 DEF Typed, Free
  <2>4. \A x \in Writers : Scanned(x)' /\ Fits(x)'
    BY <1>1, <2>1, <2>2, <2>3 DEF Scanned, Fits, Stored
  <2> QED
    BY <1>2, <2>1, <2>4
<1> QED
  BY <1>5, <1>7, <1>8, <1>9, <1>10, <1>11, <1>12, <1>13 DEF MemoryNext, Proceeds

------------------------------------------------------------------------------
(* Locks, records and the library stay in the shape that the proofs need. *)
THEOREM IInvAlways == MemorySpec => []IInv
<1>1. IInv /\ UNCHANGED memoryVars => IInv'
  BY DEF IInv, memoryVars, Typed, HoldsIndex, AsksForIndex, Scanned, Fits, Bounded, WithinLimit, Stored
<1>2. IInv /\ MemoryNext => IInv'
  BY TypedStep, HoldsStep, LibraryStep DEF IInv
<1> QED
  BY <1>1, <1>2, InitIInv, PTL DEF MemorySpec

(* The documents, the index and every writer's record stay what they are to be. *)
THEOREM TypeCorrect == MemorySpec => []MemoryTypeOK
<1>1. IInv => MemoryTypeOK
  BY DEF IInv, Typed, Jobs, Free, MemoryTypeOK
<1> QED
  BY <1>1, IInvAlways, PTL

(* index.md follows the documents, and the library stays within its limit, however
   many turns extract at the same time and whatever fails. *)
THEOREM LibraryInOrderHolds == MemorySpec => []LibraryInOrder
<1>1. IInv => LibraryInOrder
  BY DEF IInv, Bounded, LibraryInOrder, IndexFollows
<1> QED
  BY <1>1, IInvAlways, PTL

------------------------------------------------------------------------------
(* The order of the locks. *)

\* Who waits for index.md holds the document that sorts before it or nothing, and
\* who waits for a document holds nothing or index.md, which sorts before it.
Order(w) ==
  job[w].phase = "locking" =>
    LET keys == job[w].keys
        held == {k \in Entries \cup {Index} : owner[k] = w}
    IN  \/ held = {} /\ keys \in {Keys(d) : d \in Decisions}
        \/ held \subseteq Early /\ keys = <<Index>>
        \/ held \subseteq {Index} /\ \E e \in Entries \ Early : keys = <<e>>

\* Only who waits for locks, or has them all, holds one.
Idles(w) == job[w].phase \notin {"locking"} \cup Inside => \A k \in Entries \cup {Index} : owner[k] # w

Orderly == \A w \in Writers : Order(w) /\ Idles(w)

(* What is asked for, by its first lock and what is left to ask for then. *)
LEMMA KeysInOrder ==
  ASSUME NEW d \in Decisions
  PROVE  \/ Keys(d) = <<Index>>
         \/ \E e \in Early : Keys(d) = <<e, Index>>
         \/ \E e \in Entries \ Early : Keys(d) = <<Index, e>>
<1>1. d.act # "WIPE" => Path(d) \in Entries
  BY DEF Decisions, Path
<1> QED
  BY <1>1 DEF Keys

LEMMA OrderStep ==
  ASSUME IInv, Orderly, MemoryNext
  PROVE  Orderly'
<1> USE DEF Inside
<1>1. Typed /\ NoWriter \notin Writers /\ Index \notin Entries /\ Early \subseteq Entries
  BY MemoryAssumption DEF IInv
<1>2. CASE MemoryRestarts
  BY <1>1, <1>2 DEF MemoryRestarts, Orderly, Order, Idles, Free, Typed
\* A writer whose record and locks are not touched.
<1>3. ASSUME NEW x \in Writers, job'[x] = job[x],
             \A k \in Entries \cup {Index} : owner'[k] = x <=> owner[k] = x
      PROVE  Order(x)' /\ Idles(x)'
  <2>1. Order(x) /\ Idles(x)
    BY DEF Orderly
  <2>2. {k \in Entries \cup {Index} : owner'[k] = x} = {k \in Entries \cup {Index} : owner[k] = x}
    BY <1>3
  <2> QED
    BY <1>3, <2>1, <2>2 DEF Order, Idles
<1>4. ASSUME NEW w \in Writers, owner' = owner, job' = [job EXCEPT ![w] = job'[w]],
             job'[w].phase # "locking", job'[w].phase \in Inside \/ job[w].phase \notin {"locking"} \cup Inside
      PROVE  Orderly'
  <2>1. Order(w)' /\ Idles(w)'
    BY <1>4 DEF Orderly, Order, Idles
  <2> QED
    BY <1>1, <1>3, <1>4, <2>1 DEF Orderly, Typed
<1>5. ASSUME NEW w \in Writers, NEW d, d.act = "NOOP" \/ d \in Decisions, Wants(w, d),
             job[w].phase \notin {"locking"} \cup Inside
      PROVE  Orderly'
  <2>1. CASE d.act = "NOOP"
    BY <1>1, <1>4, <1>5, <2>1 DEF Wants, Typed, Free
  <2>2. CASE d.act # "NOOP"
    <3>1. job' = [job EXCEPT ![w] = [phase |-> "locking", todo |-> d, keys |-> Keys(d)]] /\ owner' = owner
      BY <1>5, <2>2 DEF Wants
    <3>2. job'[w].phase = "locking" /\ job'[w].keys = Keys(d)
      BY <1>1, <3>1 DEF Typed
    <3>3. \A k \in Entries \cup {Index} : owner'[k] # w
      BY <1>5, <3>1 DEF Orderly, Idles
    <3>4. {k \in Entries \cup {Index} : owner'[k] = w} = {} /\ d \in Decisions
      BY <1>5, <2>2, <3>3
    <3>5. Order(w)' /\ Idles(w)'
      BY <3>2, <3>4 DEF Order, Idles
    <3> QED
      BY <1>1, <1>3, <3>1, <3>5 DEF Orderly, Typed
  <2> QED
    BY <2>1, <2>2
<1>6. ASSUME NEW w \in Writers, Locks(w) PROVE Orderly'
  <2>1. /\ job[w] \in [phase : {"locking"}, todo : Decisions, keys : Seq(Entries \cup {Index})]
        /\ job[w].keys # <<>>
    BY <1>1, <1>6 DEF IInv, HoldsIndex, Locks, Typed, Jobs, Free
  <2> DEFINE k == Head(job[w].keys)
             rest == Tail(job[w].keys)
             held == {l \in Entries \cup {Index} : owner[l] = w}
  <2>2. /\ owner[k] = NoWriter /\ owner' = [owner EXCEPT ![k] = w]
        /\ job' = [job EXCEPT ![w] = IF rest = <<>> THEN [phase |-> "checking", todo |-> @.todo]
                                     ELSE [@ EXCEPT !.keys = rest]]
    BY <1>6 DEF Locks
  <2>3. k \in Entries \cup {Index}
    BY <2>1
  <2>4. rest = <<>> => job'[w].phase = "checking"
    BY <1>1, <2>2 DEF Typed
  <2>5. rest # <<>> => job'[w].phase = "locking" /\ job'[w].keys = rest
    BY <1>1, <2>1, <2>2 DEF Typed
  <2>6. {l \in Entries \cup {Index} : owner'[l] = w} \subseteq held \cup {k}
    BY <1>1, <2>2 DEF Typed
  <2>7. rest # <<>> =>
          /\ held = {}
          /\ \/ k \in Early /\ rest = <<Index>>
             \/ k = Index /\ \E e \in Entries \ Early : rest = <<e>>
    <3>1. ASSUME NEW e, job[w].keys = <<e>> PROVE rest = <<>>
      BY <3>1
    <3>2. ASSUME NEW d, NEW e, job[w].keys = <<d, e>> PROVE k = d /\ rest = <<e>>
      BY <3>2
    <3>3. CASE held = {} /\ \E d \in Decisions : job[w].keys = Keys(d)
      <4>1. PICK d \in Decisions : job[w].keys = Keys(d)
        BY <3>3
      <4> HIDE DEF k, rest, held
      <4> QED
        BY <3>1, <3>2, <3>3, <4>1, KeysInOrder
    <3>4. CASE \E e : job[w].keys = <<e>>
      BY <3>1, <3>4
    <3> QED
      BY <2>1, <3>3, <3>4 DEF Orderly, Order
  <2>8. Order(w)' /\ Idles(w)'
    <3> HIDE DEF rest, held, k
    <3> QED
      BY <2>4, <2>5, <2>6, <2>7 DEF Order, Idles
  <2>9. ASSUME NEW x \in Writers, x # w PROVE Order(x)' /\ Idles(x)'
    <3>1. job'[x] = job[x]
      BY <1>1, <2>2, <2>9 DEF Typed
    <3>2. \A l \in Entries \cup {Index} : owner'[l] = x <=> owner[l] = x
      BY <1>1, <2>2, <2>3, <2>9 DEF Typed
    <3> QED
      BY <1>3, <3>1, <3>2
  <2> QED
    BY <2>8, <2>9 DEF Orderly
<1>7. ASSUME NEW w \in Writers, Closes(w) PROVE Orderly'
  <2>1. job'[w].phase = "idle" /\ \A x \in Writers : x # w => job'[x] = job[x]
    BY <1>1, <1>7 DEF Closes, Typed, Free
  <2>2. \A l \in Entries \cup {Index} :
          owner'[l] # w /\ \A x \in Writers : x # w => (owner'[l] = x <=> owner[l] = x)
    BY <1>1, <1>7 DEF Closes, ReleasedBy, Typed
  <2>3. Order(w)' /\ Idles(w)'
    BY <2>1, <2>2 DEF Order, Idles
  <2> QED
    BY <1>3, <2>1, <2>2, <2>3 DEF Orderly
<1>8. ASSUME NEW w \in Writers, Loads(w) \/ Recalls(w) PROVE Orderly'
  <2>1. owner' = owner /\ job' = [job EXCEPT ![w] = job'[w]]
    BY <1>1, <1>8 DEF Loads, Recalls, Typed
  <2>2. job'[w].phase \in {"recalling", "asking"} /\ job[w].phase \in {"idle", "recalling"}
    <3>1. CASE Loads(w)
      BY <1>1, <3>1 DEF Loads, Typed, Free
    <3>2. CASE Recalls(w)
      <4>1. job[w] \in [phase : {"recalling"}, seen : Library, hits : Seq(Entries)]
        BY <1>1, <3>2 DEF Recalls, Typed, Jobs, Free
      <4> QED
        BY <1>1, <3>2, <4>1 DEF Recalls, Typed
    <3> QED
      BY <1>8, <3>1, <3>2
  <2> QED
    BY <1>4, <2>1, <2>2
<1>9. ASSUME NEW w \in Writers, Checks(w) \/ Writes(w) \/ Scans(w) PROVE Orderly'
  <2>1. job[w] \in [phase : {"checking", "writing", "scanning"}, todo : Decisions]
    BY <1>1, <1>9 DEF Checks, Writes, Scans, Typed, Jobs, Free
  <2>2. owner' = owner /\ job' = [job EXCEPT ![w] = job'[w]] /\ job'[w].phase \in Inside
    BY <1>1, <1>9, <2>1 DEF Checks, Writes, Scans, Typed
  <2> QED
    BY <1>4, <2>1, <2>2
<1>10. ASSUME NEW w \in Writers, Decides(w) \/ Wipes(w) PROVE Orderly'
  <2>1. CASE Wipes(w)
    BY <1>5, <2>1 DEF Wipes, Decisions, Free
  <2>2. CASE Decides(w)
    <3>1. job[w].seen \in Library
      BY <1>1, <2>2 DEF Decides, Typed, Jobs, Free
    <3> QED
      BY <1>5, <2>2, <3>1, DecisionType DEF Decides
  <2> QED
    BY <1>10, <2>1, <2>2
<1>11. ASSUME NEW w \in Writers, Refuses(w) \/ Reindexes(w) \/ StepFails(w) PROVE Orderly'
  BY <1>7, <1>11 DEF Refuses, Reindexes, StepFails
<1> QED
  BY <1>2, <1>6, <1>8, <1>9, <1>10, <1>11 DEF MemoryNext, Proceeds

(* However many writers there are, they never wait for one another in a ring: what the
   holder of a lock waits for sorts after it, so a document after index.md is held only
   by who has all that it asked for. *)
THEOREM NoRingHolds == MemorySpec => []NoRing
<1>1. MemoryInit => Orderly
  BY MemoryAssumption DEF MemoryInit, Orderly, Order, Idles, Free
<1>2. IInv /\ Orderly /\ [MemoryNext]_memoryVars => Orderly'
  <2>1. Orderly /\ UNCHANGED memoryVars => Orderly'
    BY DEF Orderly, Order, Idles, memoryVars
  <2> QED
    BY <2>1, OrderStep
<1>3. IInv /\ Orderly => NoRing
  <2> SUFFICES ASSUME IInv, Orderly, NEW ring \in SUBSET Writers, ring # {},
                      \A w \in ring : job[w].phase = "locking" /\ owner[Head(job[w].keys)] \in ring
               PROVE  FALSE
    BY DEF NoRing
  <2> DEFINE Held(w) == {k \in Entries \cup {Index} : owner[k] = w}
             First(w) == Head(job[w].keys)
  <2>1. \A w \in ring : job[w].keys # <<>> /\ job[w].keys \in Seq(Entries \cup {Index})
    BY DEF IInv, HoldsIndex, Typed, Jobs, Free
  <2>2. \A w \in ring : First(w) \in Held(owner[First(w)])
    BY <2>1
  <2>3. ASSUME NEW w \in ring, Held(w) # {}
        PROVE  \/ Held(w) \subseteq Early /\ First(w) = Index
               \/ Held(w) \subseteq {Index} /\ First(w) \in Entries \ Early
    BY <2>3 DEF Orderly, Order
  <2> HIDE DEF Held, First
  \* Who waits for another of the ring leads to one who holds index.md ...
  <2>4. \E w \in ring : Held(w) \subseteq {Index} /\ First(w) \in Entries \ Early
    <3>1. PICK w \in ring : TRUE
      OBVIOUS
    <3>2. PICK v \in ring : Held(v) # {}
      BY <2>2, <3>1 DEF First
    <3>3. CASE First(v) = Index
      <4>1. owner[First(v)] \in ring /\ Index \in Held(owner[First(v)])
        BY <2>2, <3>3 DEF First
      <4>2. Index \notin Early
        BY MemoryAssumption
      <4> QED
        BY <2>3, <4>1, <4>2
    <3> QED
      BY <2>3, <3>2, <3>3
  \* ... and waits for a document that nobody who waits holds.
  <2>5. PICK w \in ring : Held(w) \subseteq {Index} /\ First(w) \in Entries \ Early
    BY <2>4
  <2>6. owner[First(w)] \in ring /\ First(w) \in Held(owner[First(w)])
    BY <2>2 DEF First
  <2>7. First(w) # Index
    BY <2>5, MemoryAssumption
  <2> QED
    BY <2>3, <2>5, <2>6, <2>7
<1> QED
  BY <1>1, <1>2, <1>3, IInvAlways, PTL DEF MemorySpec

------------------------------------------------------------------------------
(* To-do lists *)

\* Text, of a file of some kind.
TextOf(k, op, was) == IF k = "notes" THEN Reread(NotesAfter(op, was)) ELSE ItemsAfter(op, was)

\* A request under way is a record; what it writes, and what it wrote, fits.
AtWork(c) ==
  LET r == client[c] IN
  Busy(c) =>
    /\ r = [phase |-> r.phase, op |-> r.op, was |-> r.was]
    /\ r.phase \in {"read", "staged"} /\ r.op \in Ops
    /\ Len(TextOf(kind, r.op, r.was)) <= MaxLines
    /\ kind = "notes" => lock = c /\ r.was = file

TodoInv ==
  /\ kind \in {"items", "notes"} /\ lock \in Clients \cup {Nobody}
  /\ Len(file) <= MaxLines /\ (tmp # Gone => Len(tmp) <= MaxLines)
  /\ client = [c \in Clients |-> client[c]]
  /\ \A c \in Clients : AtWork(c)

LEMMA TodoStarts == TodoInit => TodoInv
<1> SUFFICES ASSUME TodoInit PROVE TodoInv
  OBVIOUS
<1>1. \A c \in Clients : ~Busy(c)
  BY DEF TodoInit, Busy, Idle
<1>2. Len(file) <= MaxLines
  <2>1. Len(<<>>) = 0
    BY EmptySeq
  <2> QED
    BY <2>1, TodoAssumption DEF TodoInit, TodoAssumption
<1> QED
  BY <1>1, <1>2 DEF TodoInit, TodoInv, AtWork

LEMMA ReadsKeeps ==
  ASSUME TodoInv, NEW c \in Clients, NEW op \in Ops, Reads(c, op)
  PROVE  TodoInv'
<1> DEFINE call == [phase |-> "read", op |-> op, was |-> file]
<1>1. /\ ~Busy(c) /\ lock = Nobody /\ Len(TextOf(kind, op, file)) <= MaxLines
      /\ client' = [client EXCEPT ![c] = call]
      /\ lock' = IF Unguarded(op) THEN Nobody ELSE c
      /\ UNCHANGED <<kind, file, tmp>>
  BY DEF Reads, Text, TextOf
<1>2. client = [d \in Clients |-> client[d]] /\ kind \in {"items", "notes"} /\ Nobody \notin Clients
  BY TodoAssumption DEF TodoInv, TodoAssumption
<1>3. client' = [d \in Clients |-> client'[d]] /\ client'[c] = call
      /\ \A d \in Clients \ {c} : client'[d] = client[d]
  BY <1>1, <1>2
<1>5. AtWork(c)'
  <2>1. client'[c].phase = "read" /\ client'[c].op = op /\ client'[c].was = file
    BY <1>3
  <2>2. kind = "notes" => lock' = c
    BY <1>1 DEF Unguarded
  <2> QED
    BY <1>1, <1>3, <2>1, <2>2 DEF AtWork
<1>6. ASSUME NEW d \in Clients \ {c} PROVE AtWork(d)'
  <2>1. AtWork(d) /\ (kind = "notes" => ~Busy(d))
    BY <1>1, <1>2 DEF TodoInv, AtWork
  <2>2. Busy(d)' <=> Busy(d)
    BY <1>3 DEF Busy
  <2> QED
    BY <1>1, <1>3, <2>1, <2>2 DEF AtWork
<1> QED
  BY <1>1, <1>3, <1>5, <1>6 DEF TodoInv

LEMMA StagesKeeps ==
  ASSUME TodoInv, NEW c \in Clients, Stages(c)
  PROVE  TodoInv'
<1> DEFINE call == [client[c] EXCEPT !.phase = "staged"]
<1>1. /\ client[c].phase = "read" /\ tmp' = TextOf(kind, client[c].op, client[c].was)
      /\ client' = [client EXCEPT ![c] = call] /\ UNCHANGED <<kind, file, lock>>
  BY DEF Stages, Text, TextOf
<1>2. /\ client = [d \in Clients |-> client[d]] /\ AtWork(c) /\ Busy(c)
  BY <1>1 DEF TodoInv, Busy
<1>3. client[c] = [phase |-> client[c].phase, op |-> client[c].op, was |-> client[c].was]
  BY <1>2 DEF AtWork
<1>4. call = [phase |-> "staged", op |-> client[c].op, was |-> client[c].was]
  BY <1>3
<1>5. client' = [d \in Clients |-> client'[d]] /\ client'[c] = call
      /\ \A d \in Clients \ {c} : client'[d] = client[d]
  BY <1>1, <1>2
<1>7. AtWork(c)'
  <2>1. client'[c].phase = "staged" /\ client'[c].op = client[c].op /\ client'[c].was = client[c].was
    BY <1>4, <1>5
  <2> QED
    BY <1>1, <1>2, <1>4, <1>5, <2>1 DEF AtWork
<1>8. ASSUME NEW d \in Clients \ {c} PROVE AtWork(d)'
  <2>1. AtWork(d)
    BY DEF TodoInv
  <2>2. Busy(d)' <=> Busy(d)
    BY <1>5 DEF Busy
  <2> QED
    BY <1>1, <1>5, <2>1, <2>2 DEF AtWork
<1>9. Len(tmp') <= MaxLines
  BY <1>1, <1>2 DEF AtWork
<1> QED
  BY <1>1, <1>5, <1>7, <1>8, <1>9 DEF TodoInv

\* A request ends: its text is the file, or nothing is.
LEMMA TodoEndsKeeps ==
  ASSUME TodoInv, NEW c \in Clients, Publishes(c) \/ WriteFails(c)
  PROVE  TodoInv'
<1>1. /\ Busy(c) /\ client' = [client EXCEPT ![c] = Idle] /\ lock' = Release(c) /\ tmp' = Gone
      /\ UNCHANGED kind /\ (file' = file \/ (tmp # Gone /\ file' = tmp))
  BY DEF Publishes, WriteFails, Busy
<1>2. /\ client = [d \in Clients |-> client[d]] /\ AtWork(c) /\ lock \in Clients \cup {Nobody}
      /\ Len(file) <= MaxLines /\ (tmp # Gone => Len(tmp) <= MaxLines)
  BY DEF TodoInv
<1>3. client' = [d \in Clients |-> client'[d]] /\ client'[c] = Idle
      /\ \A d \in Clients \ {c} : client'[d] = client[d]
  BY <1>1, <1>2
<1>5. ~Busy(c)'
  BY <1>3 DEF Busy, Idle
<1>6. ASSUME NEW d \in Clients \ {c} PROVE AtWork(d)'
  <2>1. AtWork(d)
    BY DEF TodoInv
  <2>2. Busy(d)' <=> Busy(d)
    BY <1>3 DEF Busy
  <2>3. kind = "notes" => ~Busy(d)
    BY <1>1, <1>2, <2>1 DEF AtWork
  <2> QED
    BY <1>1, <1>3, <2>1, <2>2, <2>3 DEF AtWork
<1>7. lock' \in Clients \cup {Nobody} /\ Len(file') <= MaxLines
  BY <1>1, <1>2 DEF Release
<1>8. AtWork(c)'
  BY <1>5 DEF AtWork
<1>9. \A d \in Clients : AtWork(d)'
  BY <1>6, <1>8
<1> QED
  BY <1>1, <1>3, <1>7, <1>9 DEF TodoInv

LEMMA TodoRestartsKeeps ==
  ASSUME TodoInv, TodoRestarts
  PROVE  TodoInv'
<1>1. \A c \in Clients : ~Busy(c)'
  BY DEF TodoRestarts, Busy, Idle
<1> QED
  BY <1>1 DEF TodoRestarts, TodoInv, AtWork

LEMMA TodoStutters ==
  ASSUME TodoInv, UNCHANGED todoVars
  PROVE  TodoInv'
<1>2. ASSUME NEW c \in Clients PROVE AtWork(c)'
  <2>1. AtWork(c)
    BY DEF TodoInv
  <2> QED
    BY <2>1 DEF AtWork, Busy, todoVars
<1> QED
  BY <1>2 DEF TodoInv, todoVars

(* Requests are records that fit, and one on notes.md has the lock and the file as it is. *)
THEOREM TodoInvAlways == TodoSpec => []TodoInv
<1>1. TodoInit => TodoInv
  BY TodoStarts
<1>2. TodoInv /\ UNCHANGED todoVars => TodoInv'
  BY TodoStutters
<1>3. TodoInv /\ TodoNext => TodoInv'
  BY ReadsKeeps, StagesKeeps, TodoEndsKeeps, TodoRestartsKeeps DEF TodoNext
<1> QED
  BY <1>1, <1>2, <1>3, PTL DEF TodoSpec

(* A file fits, and a request under way is at a phase of an operation. *)
THEOREM TodoTypeCorrect == TodoSpec => []TodoTypeOK
<1>1. TodoInv => TodoTypeOK
  BY DEF TodoInv, AtWork, TodoTypeOK
<1> QED
  BY <1>1, TodoInvAlways, PTL

(* todo/service.py: the lock of notes.md spans reading, rearranging and writing, so what a
   request replaces is what it read, whatever fails on the way. *)
THEOREM NoNoteIsLostHolds == TodoSpec => []NoNoteIsLost
<1>1. TodoInv => NoNoteIsLost
  BY DEF TodoInv, AtWork, NoNoteIsLost
<1> QED
  BY <1>1, TodoInvAlways, PTL

\* Of a set of numbers one is the least.
LEMMA LeastOf ==
  ASSUME NEW B, B \subseteq Nat, B # {}
  PROVE  \E m \in B : \A n \in B : m <= n
<1>1. IsWellFoundedOn(OpToRel(<, Nat), Nat)
  BY NatLessThanWellFounded
<1>2. PICK m \in B : \A n \in B : ~(<<n, m>> \in OpToRel(<, Nat))
  BY <1>1, WFMin
<1>3. \A n \in B : ~(n < m)
  BY <1>2 DEF OpToRel
<1>4. ASSUME NEW n \in B PROVE m <= n
  <2>1. ~(n < m) /\ n \in Nat /\ m \in Nat
    BY <1>3
  <2> QED
    BY <2>1
<1>5. QED
  BY <1>4

------------------------------------------------------------------------------
(* To-do lists: where the lines of a rewritten file come from *)

\* The largest of some of the places up to n.
LEMMA LargestOf ==
  ASSUME NEW n \in Nat, NEW S, S \subseteq 0..n, S # {}
  PROVE  Max(S) \in S /\ \A x \in S : x <= Max(S)
<1> DEFINE B == {n - x : x \in S}
<1>1. B \subseteq Nat /\ B # {}
  OBVIOUS
<1>2. PICK b \in B : \A c \in B : b <= c
  BY <1>1, LeastOf
<1>3. PICK m \in S : b = n - m
  BY <1>2
<1>4. \A x \in S : x <= m
  <2> SUFFICES ASSUME NEW x \in S PROVE x <= m
    OBVIOUS
  <2>1. n - x \in B
    OBVIOUS
  <2>2. n - m <= n - x
    BY <1>2, <1>3, <2>1
  <2> HIDE DEF B
  <2>3. x \in Nat /\ m \in Nat /\ n \in Nat
    OBVIOUS
  <2> QED
    BY <2>2, <2>3
<1>5. \A x \in S : m >= x
  <2> SUFFICES ASSUME NEW x \in S PROVE m >= x
    OBVIOUS
  <2>1. x <= m /\ x \in Nat /\ m \in Nat
    BY <1>4
  <2> QED
    BY <2>1
<1> QED
  <2>1. \E x \in S : \A y \in S : x >= y
    BY <1>5
  <2>2. Max(S) \in S /\ \A y \in S : Max(S) >= y
    BY <2>1 DEF Max
  <2>3. \A x \in S : x \in Nat
    OBVIOUS
  <2> QED
    BY <2>2, <2>3

\* What FirstFrom returns, of the places that have what is looked for.
LEMMA SmallestOf ==
  ASSUME NEW S, S \subseteq Nat, S # {}
  PROVE  Min(S) \in S /\ \A x \in S : Min(S) <= x
<1>1. \E m \in S : \A x \in S : m <= x
  BY LeastOf
<1> QED
  BY <1>1 DEF Min

\* Two sequences one after the other.
LEMMA JoinedIs ==
  ASSUME NEW L, NEW u \in Seq(L), NEW v \in Seq(L)
  PROVE  /\ u \o v \in Seq(L) /\ Len(u \o v) = Len(u) + Len(v)
         /\ \A q \in 1..Len(u) : (u \o v)[q] = u[q]
         /\ \A j \in 1..Len(v) : (u \o v)[Len(u) + j] = v[j]
<1>1. u \o v \in Seq(L) /\ Len(u \o v) = Len(u) + Len(v)
  OBVIOUS
<1>2. ASSUME NEW q \in 1..Len(u) PROVE (u \o v)[q] = u[q]
  OBVIOUS
<1>3. ASSUME NEW j \in 1..Len(v) PROVE (u \o v)[Len(u) + j] = v[j]
  <2>1. Len(u) \in Nat /\ Len(v) \in Nat /\ j \in Nat /\ j >= 1 /\ j <= Len(v)
    OBVIOUS
  <2>2. Len(u) + j \in 1..(Len(u) + Len(v)) /\ Len(u) + j > Len(u) /\ (Len(u) + j) - Len(u) = j
    BY <2>1
  <2> QED
    BY <2>1, <2>2
<1> QED
  BY <1>1, <1>2, <1>3

\* A sequence with another one put in before place k.
Spliced(s, k, b) == SubSeq(s, 1, k - 1) \o b \o SubSeq(s, k, Len(s))

LEMMA SplicedIs ==
  ASSUME NEW L, NEW s \in Seq(L), NEW b \in Seq(L), NEW k \in 1..(Len(s) + 1)
  PROVE  /\ Spliced(s, k, b) \in Seq(L) /\ Len(Spliced(s, k, b)) = Len(s) + Len(b)
         /\ \A q \in 1..(k - 1) : Spliced(s, k, b)[q] = s[q]
         /\ \A j \in 1..Len(b) : Spliced(s, k, b)[k - 1 + j] = b[j]
         /\ \A q \in k..Len(s) : Spliced(s, k, b)[q + Len(b)] = s[q]
<1> DEFINE u == SubSeq(s, 1, k - 1)
           v == SubSeq(s, k, Len(s))
           n == Len(s)
<1>1. n \in Nat /\ Len(b) \in Nat /\ k \in Nat /\ k >= 1 /\ k <= n + 1
  OBVIOUS
<1>2. u \in Seq(L) /\ Len(u) = k - 1 /\ \A q \in 1..(k - 1) : u[q] = s[q]
  BY <1>1
<1>3. v \in Seq(L) /\ Len(v) = n - k + 1 /\ \A j \in 1..(n - k + 1) : v[j] = s[k + j - 1]
  BY <1>1
<1> HIDE DEF u, v, n
<1> DEFINE w == u \o b
<1>4. w \in Seq(L) /\ Len(w) = k - 1 + Len(b)
      /\ (\A q \in 1..(k - 1) : w[q] = s[q]) /\ (\A j \in 1..Len(b) : w[k - 1 + j] = b[j])
  <2>1. u \in Seq(L) /\ b \in Seq(L)
    BY <1>2
  <2>2. /\ u \o b \in Seq(L) /\ Len(u \o b) = Len(u) + Len(b)
        /\ \A q \in 1..Len(u) : (u \o b)[q] = u[q]
        /\ \A j \in 1..Len(b) : (u \o b)[Len(u) + j] = b[j]
    BY <2>1, JoinedIs
  <2> HIDE DEF w
  <2>3. w = u \o b
    BY DEF w
  <2> QED
    BY <1>2, <2>2, <2>3
<1> HIDE DEF w
<1> DEFINE z == w \o v
<1>5. z \in Seq(L) /\ Len(z) = Len(w) + Len(v)
      /\ (\A q \in 1..Len(w) : z[q] = w[q]) /\ (\A j \in 1..Len(v) : z[Len(w) + j] = v[j])
  <2>1. w \in Seq(L) /\ v \in Seq(L)
    BY <1>3, <1>4
  <2>2. /\ w \o v \in Seq(L) /\ Len(w \o v) = Len(w) + Len(v)
        /\ \A q \in 1..Len(w) : (w \o v)[q] = w[q]
        /\ \A j \in 1..Len(v) : (w \o v)[Len(w) + j] = v[j]
    BY <2>1, JoinedIs
  <2> QED
    BY <2>2
<1>6. Len(z) = n + Len(b)
  BY <1>1, <1>3, <1>4, <1>5
<1>7. ASSUME NEW q \in k..n PROVE z[q + Len(b)] = s[q]
  <2>1. Len(w) + (q - k + 1) = q + Len(b) /\ q - k + 1 \in 1..(n - k + 1) /\ k + (q - k + 1) - 1 = q
    BY <1>1, <1>4
  <2>2. z[Len(w) + (q - k + 1)] = v[q - k + 1]
    BY <1>3, <1>5, <2>1
  <2> QED
    BY <1>3, <2>1, <2>2
<1>8. z = Spliced(s, k, b)
  BY DEF z, w, u, v, n, Spliced
<1> HIDE DEF z
<1>9. \A q \in 1..(k - 1) : z[q] = s[q]
  BY <1>1, <1>4, <1>5
<1>10. ASSUME NEW j \in 1..Len(b) PROVE z[k - 1 + j] = b[j]
  <2>1. k - 1 + j \in 1..Len(w)
    BY <1>1, <1>4
  <2> QED
    BY <1>4, <1>5, <2>1
<1>11. Len(z) = Len(s) + Len(b) /\ \A q \in k..Len(s) : z[q + Len(b)] = s[q]
  BY <1>6, <1>7 DEF n
<1>12. z \in Seq(L)
  BY <1>5
<1> QED
  BY <1>8, <1>9, <1>10, <1>11, <1>12, SMTT(30)

\* A sequence without its line at k.
LEMMA RemovedIs ==
  ASSUME NEW L, NEW s \in Seq(L), NEW k \in 1..Len(s)
  PROVE  /\ RemoveAt(s, k) \in Seq(L) /\ Len(RemoveAt(s, k)) = Len(s) - 1
         /\ \A q \in 1..(k - 1) : RemoveAt(s, k)[q] = s[q]
         /\ \A q \in k+1..Len(s) : RemoveAt(s, k)[q - 1] = s[q]
<1> DEFINE u == SubSeq(s, 1, k - 1)
           v == SubSeq(s, k + 1, Len(s))
           n == Len(s)
<1>1. n \in Nat /\ k \in Nat /\ k >= 1 /\ k <= n
  OBVIOUS
<1>2. u \in Seq(L) /\ Len(u) = k - 1 /\ \A q \in 1..(k - 1) : u[q] = s[q]
  BY <1>1
<1>3. v \in Seq(L) /\ Len(v) = n - k /\ \A j \in 1..(n - k) : v[j] = s[k + j]
  BY <1>1
<1> HIDE DEF u, v, n
<1> DEFINE z == u \o v
<1>4. z \in Seq(L) /\ Len(z) = Len(u) + Len(v)
      /\ (\A q \in 1..Len(u) : z[q] = u[q]) /\ (\A j \in 1..Len(v) : z[Len(u) + j] = v[j])
  <2>1. u \in Seq(L) /\ v \in Seq(L)
    BY <1>2, <1>3
  <2>2. /\ u \o v \in Seq(L) /\ Len(u \o v) = Len(u) + Len(v)
        /\ \A q \in 1..Len(u) : (u \o v)[q] = u[q]
        /\ \A j \in 1..Len(v) : (u \o v)[Len(u) + j] = v[j]
    BY <2>1, JoinedIs
  <2> QED
    BY <2>2
<1>5. ASSUME NEW q \in k+1..n PROVE z[q - 1] = s[q]
  <2>1. Len(u) + (q - k) = q - 1 /\ q - k \in 1..(n - k) /\ k + (q - k) = q
    BY <1>1, <1>2
  <2>2. z[Len(u) + (q - k)] = v[q - k]
    BY <1>3, <1>4, <2>1
  <2> QED
    BY <1>3, <2>1, <2>2
<1>6. z = RemoveAt(s, k)
  BY DEF z, u, v, n, RemoveAt
<1>7. Len(z) = n - 1 /\ \A q \in 1..(k - 1) : z[q] = s[q]
  BY <1>1, <1>2, <1>3, <1>4
<1> HIDE DEF z
<1> QED
  BY <1>4, <1>5, <1>6, <1>7 DEF n

\* The lines at some of the places: each is one of them, in their order, and
\* none is left out.
LEMMA LinesAtIs ==
  ASSUME NEW L, NEW s \in Seq(L), NEW S, S \subseteq DOMAIN s
  PROVE  \E f \in [1..Cardinality(S) -> S] :
           /\ LinesAt(s, S) \in Seq(L) /\ Len(LinesAt(s, S)) = Cardinality(S) /\ Cardinality(S) \in Nat
           /\ \A j \in 1..Cardinality(S) : LinesAt(s, S)[j] = s[f[j]]
           /\ \A i, j \in 1..Cardinality(S) : i < j => f[i] < f[j]
           /\ \A p \in S : \E j \in 1..Cardinality(S) : f[j] = p
<1> DEFINE N == Cardinality(S)
           Up(p) == {q \in S : q <= p}
           Rank(p) == Cardinality(Up(p))
           f == [j \in 1..N |-> CHOOSE p \in S : Rank(p) = j]
<1>1. DOMAIN s = 1..Len(s) /\ Len(s) \in Nat /\ \A p \in S : p \in Nat
  OBVIOUS
<1>2. IsFiniteSet(S) /\ N \in Nat
  <2>1. IsFiniteSet(1..Len(s)) /\ S \in SUBSET (1..Len(s))
    BY <1>1, FS_Interval
  <2>2. IsFiniteSet(S)
    BY <2>1, FS_Subset
  <2> QED
    BY <2>2, FS_CardinalityType
<1>3. \A p : Up(p) \subseteq S /\ \A q \in S : q \in Up(p) <=> q <= p
  OBVIOUS
<1> HIDE DEF Up
<1>4. ASSUME NEW p \in S PROVE IsFiniteSet(Up(p)) /\ Rank(p) \in Nat /\ Rank(p) <= N
  <2>1. Up(p) \in SUBSET S
    BY <1>3
  <2>2. IsFiniteSet(Up(p)) /\ Rank(p) <= N
    BY <1>2, <2>1, FS_Subset
  <2> QED
    BY <2>2, FS_CardinalityType
<1>5. ASSUME NEW p \in S PROVE Rank(p) \in 1..N
  <2>1. p \in Up(p)
    BY <1>1, <1>3
  <2>2. Rank(p) # 0
    BY <1>4, <2>1, FS_EmptySet
  <2>3. Rank(p) \in Nat /\ Rank(p) <= N
    BY <1>4
  <2> HIDE DEF Rank, N
  <2> QED
    BY <1>2, <2>2, <2>3
<1>6. ASSUME NEW p \in S, NEW q \in S, p < q PROVE Rank(p) < Rank(q)
  <2>1. Up(p) \subseteq Up(q) /\ Up(p) # Up(q)
    <3>1. q \in Up(q) /\ q \notin Up(p)
      BY <1>1, <1>3, <1>6
    <3>2. ASSUME NEW x \in Up(p) PROVE x \in Up(q)
      <4>1. x \in S /\ x <= p /\ x \in Nat /\ p \in Nat /\ q \in Nat
        BY <1>1, <1>3
      <4> QED
        BY <1>3, <1>6, <4>1
    <3> QED
      BY <3>1, <3>2
  <2>2. IsFiniteSet(Up(q)) /\ Rank(q) \in Nat /\ Rank(p) \in Nat
    BY <1>4
  <2>3. Rank(p) <= Rank(q) /\ Rank(p) # Rank(q)
    <3>1. Up(p) \in SUBSET Up(q)
      BY <2>1
    <3> QED
      BY <2>1, <2>2, <3>1, FS_Subset
  <2> HIDE DEF Rank
  <2> QED
    BY <2>2, <2>3
<1> HIDE DEF Rank
<1>7. ASSUME NEW p \in S, NEW q \in S, Rank(p) = Rank(q) PROVE p = q
  <2>1. Rank(p) \in Nat /\ p \in Nat /\ q \in Nat
    BY <1>1, <1>4
  <2>2. CASE p < q
    BY <1>6, <1>7, <2>1, <2>2
  <2>3. CASE q < p
    BY <1>6, <1>7, <2>1, <2>3
  <2> QED
    BY <2>1, <2>2, <2>3
<1>8. ASSUME NEW j \in 1..N PROVE \E p \in S : Rank(p) = j
  <2> SUFFICES ASSUME \A p \in S : Rank(p) # j PROVE FALSE
    OBVIOUS
  <2> DEFINE T == (1..N) \ {j}
             r == [p \in S |-> Rank(p)]
  <2>1. r \in [S -> T] /\ \A p \in S : r[p] = Rank(p)
    BY <1>5
  <2>2. IsFiniteSet(1..N) /\ Cardinality(1..N) = N
    BY <1>2, FS_Interval
  <2>3. IsFiniteSet(T) /\ Cardinality(T) = N - 1
    BY <2>2, FS_RemoveElement
  <2> HIDE DEF T, r
  <2>4. Cardinality(T) < Cardinality(S)
    BY <1>2, <2>3
  <2>5. \E p, q \in S : p # q /\ r[p] = r[q]
    BY <1>2, <2>1, <2>3, <2>4, FS_PigeonHole
  <2> QED
    BY <1>7, <2>1, <2>5
<1>9. ASSUME NEW j \in 1..N PROVE f[j] \in S /\ Rank(f[j]) = j
  BY <1>8
<1>10. f \in [1..N -> S]
  BY <1>9
<1>11. ASSUME NEW p \in S PROVE \E j \in 1..N : f[j] = p
  BY <1>5, <1>7, <1>9
<1>12. LinesAt(s, S) = [j \in 1..N |-> s[f[j]]]
  BY DEF LinesAt, Rank, Up
<1> HIDE DEF f
<1>13. ASSUME NEW i \in 1..N, NEW j \in 1..N, i < j PROVE f[i] < f[j]
  <2>1. f[i] \in S /\ f[j] \in S /\ Rank(f[i]) = i /\ Rank(f[j]) = j /\ i \in Nat /\ j \in Nat
    BY <1>2, <1>9
  <2>2. f[i] \in Nat /\ f[j] \in Nat
    BY <1>1, <2>1
  <2>3. CASE f[i] = f[j]
    BY <1>13, <2>1, <2>3
  <2>4. CASE f[j] < f[i]
    <3>1. j < i
      BY <1>6, <2>1, <2>4
    <3> QED
      BY <1>13, <2>1, <3>1
  <2> QED
    BY <2>2, <2>3, <2>4
<1>14. LinesAt(s, S) \in Seq(L) /\ Len(LinesAt(s, S)) = N
  <2>1. \A j \in 1..N : s[f[j]] \in L
    BY <1>9
  <2> HIDE DEF N
  <2> QED
    BY <1>2, <1>12, <2>1
<1>15. \A j \in 1..N : LinesAt(s, S)[j] = s[f[j]]
  BY <1>12
<1> QED
  BY <1>2, <1>10, <1>11, <1>13, <1>14, <1>15
------------------------------------------------------------------------------
(* The groups of todolist.md are regions of the file *)

ItemLines == {Item(i) : i \in Ids} \cup {Heading(g) : g \in Names}

\* No line of a file occurs twice.
Distinctly(lines) ==
  lines \in Seq(ItemLines) /\ \A p, q \in DOMAIN lines : lines[p] = lines[q] => p = q

\* The lines up to p end in the region of g.
Under(lines, p, g) ==
  \/ g = NoName /\ \A q \in 1..p : ~IsHeading(lines[q])
  \/ \E h \in 1..p : IsNamed(lines[h], g) /\ \A q \in h+1..p : ~IsHeading(lines[q])

Belongs(lines, x, g) == \E p \in DOMAIN lines : lines[p] = x /\ Under(lines, p, g)

LEMMA ItemLineIs ==
  /\ \A x \in ItemLines : IsHeading(x) => x.name \in Names /\ x = Heading(x.name)
  /\ \A x \in ItemLines : ~IsHeading(x) => x.id \in Ids /\ x = Item(x.id)
  /\ \A i \in Ids : Item(i) \in ItemLines /\ ~IsHeading(Item(i)) /\ Item(i).id = i
  /\ \A g \in Names : Heading(g) \in ItemLines /\ IsHeading(Heading(g)) /\ Heading(g).name = g
  /\ \A g \in Names : g # NoName
<1>1. Nobody \notin Ids /\ NoName \notin Names
  BY TodoAssumption DEF TodoAssumption
<1>2. \A i \in Ids : Item(i).id = i /\ ~IsHeading(Item(i))
  BY <1>1 DEF Item, IsHeading
<1>3. \A g \in Names : IsHeading(Heading(g)) /\ Heading(g).name = g
  BY DEF Heading, IsHeading
<1>4. ASSUME NEW x \in ItemLines
      PROVE  (\E i \in Ids : x = Item(i)) \/ (\E g \in Names : x = Heading(g))
  BY DEF ItemLines
<1>5. \A x \in ItemLines : IsHeading(x) => x.name \in Names /\ x = Heading(x.name)
  BY <1>2, <1>3, <1>4
<1>6. \A x \in ItemLines : ~IsHeading(x) => x.id \in Ids /\ x = Item(x.id)
  BY <1>2, <1>3, <1>4
<1>7. (\A i \in Ids : Item(i) \in ItemLines) /\ (\A g \in Names : Heading(g) \in ItemLines)
  BY DEF ItemLines
<1> QED
  BY <1>1, <1>2, <1>3, <1>5, <1>6, <1>7

\* The region that a place is in is the group that GroupAt finds for it.
LEMMA GroupAtIs ==
  ASSUME NEW s \in Seq(ItemLines), NEW p \in 0..Len(s)
  PROVE  /\ Under(s, p, GroupAt(s, p))
         /\ \A g : Under(s, p, g) => GroupAt(s, p) = g
<1> DEFINE above == {q \in 1..p : IsHeading(s[q])}
<1>1. p \in Nat
  OBVIOUS
<1>2. CASE above = {}
  <2>1. GroupAt(s, p) = NoName
    BY <1>2 DEF GroupAt
  <2>2. \A q \in 1..p : ~IsHeading(s[q])
    BY <1>2
  <2> QED
    BY <2>1, <2>2 DEF Under, IsNamed
<1>3. CASE above # {}
  <2> DEFINE m == Max(above)
  <2>1. m \in above /\ \A x \in above : x <= m
    <3>1. above \subseteq 0..p
      OBVIOUS
    <3> HIDE DEF above
    <3> QED
      BY <1>1, <1>3, <3>1, LargestOf
  <2>2. GroupAt(s, p) = s[m].name
    BY <1>3 DEF GroupAt
  <2>3. m \in 1..p /\ IsHeading(s[m])
    BY <2>1
  <2> HIDE DEF m
  <2>4. \A q \in m+1..p : ~IsHeading(s[q])
    <3> SUFFICES ASSUME NEW q \in m+1..p, IsHeading(s[q]) PROVE FALSE
      OBVIOUS
    <3>1. q \in 1..p /\ ~(q <= m)
      BY <1>1, <2>3
    <3> QED
      BY <2>1, <3>1
  <2>5. Under(s, p, GroupAt(s, p))
    BY <2>2, <2>3, <2>4 DEF Under, IsNamed
  <2>6. ASSUME NEW g, Under(s, p, g) PROVE s[m].name = g
    <3>1. PICK h \in 1..p : IsNamed(s[h], g) /\ \A q \in h+1..p : ~IsHeading(s[q])
      BY <2>3, <2>6 DEF Under
    <3>2. h <= m
      BY <2>1, <3>1 DEF IsNamed
    <3>3. m \notin h+1..p
      BY <2>3, <3>1
    <3>4. h = m
      BY <1>1, <2>3, <3>2, <3>3
    <3> QED
      BY <3>1, <3>4 DEF IsNamed
  <2> QED
    BY <2>2, <2>5, <2>6
<1> QED
  BY <1>2, <1>3

\* Of the lines up to r of t those at E come from above p in s, by way of e,
\* and keep their order; they are all headings there are, and g's is one.
Carries(s, p, t, r, g, E, e) ==
  /\ p \in Nat /\ r \in Nat /\ E \subseteq 1..r /\ e \in [E -> 1..p]
  /\ \A x \in E : s[e[x]] = t[x]
  /\ \A x, y \in E : x < y => e[x] < e[y]
  /\ \A x \in 1..r : IsHeading(t[x]) => x \in E
  /\ \A q \in 1..p : IsNamed(s[q], g) => \E x \in E : e[x] = q

\* A place stays in its region then.
LEMMA UnderCarried ==
  ASSUME NEW s, NEW p, NEW t, NEW r, NEW g, NEW E, NEW e,
         Carries(s, p, t, r, g, E, e), Under(s, p, g)
  PROVE  Under(t, r, g)
<1> USE DEF Carries
<1>1. CASE g = NoName /\ \A q \in 1..p : ~IsHeading(s[q])
  <2>1. \A x \in 1..r : ~IsHeading(t[x])
    BY <1>1
  <2> QED
    BY <1>1, <2>1 DEF Under
<1>2. ASSUME NEW h \in 1..p, IsNamed(s[h], g), \A q \in h+1..p : ~IsHeading(s[q])
      PROVE  Under(t, r, g)
  <2>1. PICK x \in E : e[x] = h
    BY <1>2
  <2>2. ASSUME NEW y \in x+1..r, IsHeading(t[y]) PROVE FALSE
    <3>1. x \in 1..r /\ y \in 1..r /\ x < y
      BY <2>1
    <3>2. y \in E
      BY <2>2, <3>1
    <3>3. e[x] < e[y] /\ e[y] \in 1..p /\ s[e[y]] = t[y]
      BY <3>1, <3>2
    <3>4. e[y] \in h+1..p
      BY <2>1, <3>3
    <3> QED
      BY <1>2, <2>2, <3>3, <3>4
  <2>3. x \in 1..r /\ IsNamed(t[x], g)
    BY <1>2, <2>1
  <2> QED
    BY <2>2, <2>3 DEF Under
<1> QED
  BY <1>1, <1>2 DEF Under

\* Items put in at place k: every line stays in its region, and they are in
\* the region of the line before them.
LEMMA SplicedKeeps ==
  ASSUME NEW s \in Seq(ItemLines), NEW b \in Seq(ItemLines), NEW k \in 1..(Len(s) + 1),
         \A j \in 1..Len(b) : ~IsHeading(b[j])
  PROVE  /\ \A x, g : Belongs(s, x, g) => Belongs(Spliced(s, k, b), x, g)
         /\ \A j \in 1..Len(b) : \A g : Under(s, k - 1, g) => Belongs(Spliced(s, k, b), b[j], g)
<1> DEFINE t == Spliced(s, k, b)
           n == Len(s)
           l == Len(b)
           In == {x \in 1..(n + l) : x < k \/ x >= k + l}
           e == [x \in In |-> IF x < k THEN x ELSE x - l]
<1>1. /\ t \in Seq(ItemLines) /\ Len(t) = n + l
      /\ \A q \in 1..(k - 1) : t[q] = s[q]
      /\ \A j \in 1..l : t[k - 1 + j] = b[j]
      /\ \A q \in k..n : t[q + l] = s[q]
  BY SplicedIs
<1>2. n \in Nat /\ l \in Nat /\ k \in Nat /\ k >= 1 /\ k <= n + 1 /\ DOMAIN s = 1..n /\ DOMAIN b = 1..l
  OBVIOUS
<1>3. DOMAIN t = 1..(n + l)
  BY <1>1
<1> HIDE DEF t, n, l
<1>4. /\ \A x \in In : x \in 1..(n + l) /\ (x < k \/ x >= k + l)
                       /\ (x < k => e[x] = x) /\ (~(x < k) => e[x] = x - l)
      /\ \A x \in 1..(n + l) : x < k \/ x >= k + l => x \in In
  OBVIOUS
<1> HIDE DEF In, e
<1>5. ASSUME NEW x \in In
      PROVE  /\ e[x] \in 1..n /\ s[e[x]] = t[x] /\ x \in Nat /\ x <= n + l
             /\ x < k => e[x] = x
             /\ x >= k + l => e[x] = x - l
  <2>1. x \in Nat /\ x >= 1 /\ x <= n + l
    BY <1>2, <1>4
  <2>2. CASE x < k
    <3>1. e[x] = x /\ x \in 1..(k - 1) /\ x \in 1..n /\ ~(x >= k + l)
      BY <1>2, <1>4, <2>1, <2>2
    <3> QED
      BY <1>1, <2>1, <3>1
  <2>3. CASE x >= k + l
    <3>1. x - l \in k..n /\ (x - l) + l = x /\ ~(x < k) /\ x - l \in 1..n
      BY <1>2, <2>1, <2>3
    <3>2. e[x] = x - l
      BY <1>4, <3>1
    <3> QED
      BY <1>1, <2>1, <3>1, <3>2
  <2> QED
    BY <1>4, <2>2, <2>3
<1>50. \A x \in 1..(n + l) : IsHeading(t[x]) => x \in In
  <2> SUFFICES ASSUME NEW x \in 1..(n + l), x \notin In PROVE ~IsHeading(t[x])
    OBVIOUS
  <2>1. x \in Nat /\ ~(x < k) /\ ~(x >= k + l)
    BY <1>2, <1>4
  <2>2. x - k + 1 \in 1..l /\ k - 1 + (x - k + 1) = x
    BY <1>2, <2>1
  <2>3. t[x] = b[x - k + 1]
    BY <1>1, <2>2
  <2> QED
    BY <2>2, <2>3 DEF l
<1>6. \A x, y \in In : x < y => e[x] < e[y]
  <2> SUFFICES ASSUME NEW x \in In, NEW y \in In, x < y PROVE e[x] < e[y]
    OBVIOUS
  <2>1. /\ x \in Nat /\ (x < k \/ x >= k + l) /\ (x < k => e[x] = x) /\ (x >= k + l => e[x] = x - l)
        /\ y \in Nat /\ (y < k \/ y >= k + l) /\ (y < k => e[y] = y) /\ (y >= k + l => e[y] = y - l)
    BY <1>4, <1>5
  <2> QED
    BY <1>2, <2>1
<1>7. \A q \in 1..n : \E x \in In : e[x] = q /\ (q < k => x = q) /\ (q >= k => x = q + l)
  <2> SUFFICES ASSUME NEW q \in 1..n
               PROVE  \E x \in In : e[x] = q /\ (q < k => x = q) /\ (q >= k => x = q + l)
    OBVIOUS
  <2>0. q \in Nat /\ q >= 1 /\ q <= n
    BY <1>2
  <2>1. CASE q < k
    <3>1. q \in 1..(n + l) /\ ~(q >= k)
      BY <1>2, <2>0, <2>1
    <3>2. q \in In /\ e[q] = q
      BY <1>4, <2>1, <3>1
    <3> QED
      BY <3>1, <3>2
  <2>2. CASE q >= k
    <3>1. q + l \in 1..(n + l) /\ q + l >= k + l /\ (q + l) - l = q /\ ~(q < k)
      BY <1>2, <2>0, <2>2
    <3>2. q + l \in In
      BY <1>4, <3>1
    <3>3. e[q + l] = q
      BY <1>5, <3>1, <3>2
    <3> QED
      BY <3>1, <3>2, <3>3
  <2> QED
    BY <1>2, <2>0, <2>1, <2>2
<1>8. ASSUME NEW p \in 0..n, NEW r \in 0..(n + l), NEW g, Under(s, p, g),
             \A x \in In : x <= r <=> e[x] <= p
      PROVE  Under(t, r, g)
  <2> DEFINE E == {x \in In : x <= r}
             d == [x \in E |-> e[x]]
  <2>1. \A x \in In : x \in 1..(n + l)
    BY <1>4
  <2>2. E \subseteq 1..r /\ p \in Nat /\ r \in Nat
    BY <1>2, <2>1
  <2>3. \A x \in E : d[x] = e[x] /\ d[x] \in 1..p /\ s[d[x]] = t[x]
    BY <1>2, <1>5, <1>8
  <2>4. d \in [E -> 1..p]
    BY <2>3
  <2>5. \A x, y \in E : x < y => d[x] < d[y]
    BY <1>6
  <2>6. \A x \in 1..r : IsHeading(t[x]) => x \in E
    BY <1>2, <1>50
  <2>7. \A q \in 1..p : \E x \in E : d[x] = q
    <3> SUFFICES ASSUME NEW q \in 1..p PROVE \E x \in E : d[x] = q
      OBVIOUS
    <3>1. q \in 1..n /\ q <= p
      BY <1>2
    <3>2. PICK x \in In : e[x] = q
      BY <1>7, <3>1
    <3> QED
      BY <1>8, <3>1, <3>2
  <2>8. \A q \in 1..p : IsNamed(s[q], g) => \E x \in E : d[x] = q
    BY <2>7
  <2>9. \A x \in E : s[d[x]] = t[x]
    BY <2>3
  <2>10. E \subseteq 1..r /\ p \in Nat /\ r \in Nat
    BY <2>2
  <2>11. Under(s, p, g)
    BY <1>8
  <2> HIDE DEF E, d
  <2>12. Carries(s, p, t, r, g, E, d)
    BY <2>4, <2>5, <2>6, <2>8, <2>9, <2>10 DEF Carries
  <2> QED
    BY <2>11, <2>12, UnderCarried
<1>9. ASSUME NEW x, NEW g, Belongs(s, x, g) PROVE Belongs(t, x, g)
  <2>1. PICK p \in 1..n : s[p] = x /\ Under(s, p, g)
    BY <1>2, <1>9 DEF Belongs
  <2>2. PICK r \in In : e[r] = p /\ (p < k => r = p) /\ (p >= k => r = p + l)
    BY <1>7
  <2>3. r \in 1..(n + l) /\ t[r] = x
    BY <1>4, <1>5, <2>1, <2>2
  <2>4. \A y \in In : y <= r <=> e[y] <= p
    <3> SUFFICES ASSUME NEW y \in In PROVE y <= r <=> e[y] <= p
      OBVIOUS
    <3>1. y \in Nat /\ r \in Nat /\ p \in Nat /\ e[y] \in Nat
      BY <1>2, <1>4, <1>5, <2>3
    <3>2. (y < r => e[y] < e[r]) /\ (r < y => e[r] < e[y])
      BY <1>6
    <3> QED
      BY <2>2, <3>1, <3>2
  <2>5. Under(t, r, g)
    BY <1>2, <1>8, <2>1, <2>3, <2>4
  <2> QED
    BY <1>3, <2>3, <2>5 DEF Belongs
<1>10. ASSUME NEW j \in 1..l, NEW g, Under(s, k - 1, g) PROVE Belongs(t, b[j], g)
  <2>1. k - 1 \in 0..n /\ k - 1 + j \in 1..(n + l) /\ t[k - 1 + j] = b[j]
    BY <1>1, <1>2
  <2>2. \A y \in In : y <= k - 1 + j <=> e[y] <= k - 1
    <3> SUFFICES ASSUME NEW y \in In PROVE y <= k - 1 + j <=> e[y] <= k - 1
      OBVIOUS
    <3>1. y \in Nat /\ (y < k \/ y >= k + l)
      BY <1>4, <1>5
    <3>2. (y < k => e[y] = y) /\ (y >= k + l => e[y] = y - l)
      BY <1>5
    <3>3. j \in Nat /\ j >= 1 /\ j <= l
      BY <1>2
    <3> QED
      BY <1>2, <3>1, <3>2, <3>3
  <2>3. Under(t, k - 1 + j, g)
    BY <1>2, <1>8, <1>10, <2>1, <2>2
  <2> QED
    BY <1>3, <2>1, <2>3 DEF Belongs
<1> QED
  BY <1>9, <1>10 DEF t, l
\* Where each line of a spliced sequence is from.
LEMMA SplicedFrom ==
  ASSUME NEW L, NEW s \in Seq(L), NEW b \in Seq(L), NEW k \in 1..(Len(s) + 1),
         NEW x \in DOMAIN Spliced(s, k, b)
  PROVE  \/ \E q \in DOMAIN s : /\ Spliced(s, k, b)[x] = s[q]
                                /\ q < k => x = q
                                /\ q >= k => x = q + Len(b)
         \/ \E j \in DOMAIN b : Spliced(s, k, b)[x] = b[j] /\ x = k - 1 + j
<1> DEFINE t == Spliced(s, k, b)
           n == Len(s)
           l == Len(b)
<1>1. /\ t \in Seq(L) /\ Len(t) = n + l
      /\ \A q \in 1..(k - 1) : t[q] = s[q]
      /\ \A j \in 1..l : t[k - 1 + j] = b[j]
      /\ \A q \in k..n : t[q + l] = s[q]
  BY SplicedIs
<1>2. n \in Nat /\ l \in Nat /\ k \in Nat /\ k >= 1 /\ k <= n + 1 /\ DOMAIN s = 1..n /\ DOMAIN b = 1..l
  OBVIOUS
<1>3. x \in 1..(n + l)
  BY <1>1
<1> HIDE DEF t, n, l
<1>4. CASE x < k
  <2>1. x \in 1..(k - 1) /\ x \in 1..n /\ ~(x >= k)
    BY <1>2, <1>3, <1>4
  <2>2. t[x] = s[x]
    BY <1>1, <2>1
  <2> QED
    BY <1>2, <2>1, <2>2 DEF t
<1>5. CASE x >= k /\ x < k + l
  <2>1. x - k + 1 \in 1..l /\ k - 1 + (x - k + 1) = x
    BY <1>2, <1>3, <1>5
  <2>2. t[x] = b[x - k + 1]
    BY <1>1, <2>1
  <2> QED
    BY <1>2, <2>1, <2>2 DEF t
<1>6. CASE x >= k + l
  <2>1. x - l \in k..n /\ (x - l) + l = x /\ x - l \in 1..n /\ ~(x - l < k)
    BY <1>2, <1>3, <1>6
  <2>2. t[x] = s[x - l]
    BY <1>1, <2>1
  <2> QED
    BY <1>2, <2>1, <2>2 DEF t, l
<1> QED
  BY <1>2, <1>3, <1>4, <1>5, <1>6

\* What is in a sequence stands at one of its places.
LEMMA InToSet == \A s, x : x \in ToSet(s) <=> \E q \in DOMAIN s : s[q] = x
BY DEF ToSet

\* The lines of a spliced sequence.
LEMMA SplicedSet ==
  ASSUME NEW L, NEW s \in Seq(L), NEW b \in Seq(L), NEW k \in 1..(Len(s) + 1)
  PROVE  ToSet(Spliced(s, k, b)) = ToSet(s) \cup ToSet(b)
<1> DEFINE t == Spliced(s, k, b)
           n == Len(s)
           l == Len(b)
<1>1. /\ t \in Seq(L) /\ Len(t) = n + l
      /\ \A q \in 1..(k - 1) : t[q] = s[q]
      /\ \A j \in 1..l : t[k - 1 + j] = b[j]
      /\ \A q \in k..n : t[q + l] = s[q]
  BY SplicedIs
<1>2. n \in Nat /\ l \in Nat /\ k \in Nat /\ k >= 1 /\ k <= n + 1 /\ DOMAIN s = 1..n /\ DOMAIN b = 1..l
  OBVIOUS
<1>3. DOMAIN t = 1..(n + l)
  BY <1>1
<1>4. \A x \in DOMAIN t : t[x] \in ToSet(s) \cup ToSet(b)
  <2> SUFFICES ASSUME NEW x \in DOMAIN t PROVE t[x] \in ToSet(s) \cup ToSet(b)
    OBVIOUS
  <2>1. (\E q \in DOMAIN s : t[x] = s[q]) \/ (\E j \in DOMAIN b : t[x] = b[j])
    BY SplicedFrom
  <2> HIDE DEF t
  <2> QED
    BY <2>1 DEF ToSet
<1> HIDE DEF t, n, l
<1>5. ASSUME NEW q \in 1..n PROVE \E x \in 1..(n + l) : t[x] = s[q]
  <2>1. CASE q < k
    BY <1>1, <1>2, <2>1
  <2>2. CASE q >= k
    <3>1. q \in k..n /\ q + l \in 1..(n + l)
      BY <1>2, <2>2
    <3> QED
      BY <1>1, <3>1
  <2> QED
    BY <1>2, <2>1, <2>2
<1>6. ASSUME NEW j \in 1..l PROVE \E x \in 1..(n + l) : t[x] = b[j]
  <2>1. k - 1 + j \in 1..(n + l)
    BY <1>2
  <2> QED
    BY <1>1, <2>1
<1>7. ASSUME NEW x, x \in ToSet(t) PROVE x \in ToSet(s) \cup ToSet(b)
  BY <1>4, <1>7, InToSet
<1>8. ASSUME NEW x, x \in ToSet(s) PROVE x \in ToSet(t)
  <2>1. PICK q \in 1..n : s[q] = x
    BY <1>2, <1>8, InToSet
  <2> QED
    BY <1>3, <1>5, <2>1, InToSet
<1>9. ASSUME NEW x, x \in ToSet(b) PROVE x \in ToSet(t)
  <2>1. PICK q \in 1..l : b[q] = x
    BY <1>2, <1>9, InToSet
  <2> QED
    BY <1>3, <1>6, <2>1, InToSet
<1> QED
  BY <1>7, <1>8, <1>9 DEF t

LEMMA SplicedDistinct ==
  ASSUME NEW s, Distinctly(s), NEW b, Distinctly(b), ToSet(s) \cap ToSet(b) = {},
         NEW k \in 1..(Len(s) + 1)
  PROVE  Distinctly(Spliced(s, k, b))
<1> DEFINE t == Spliced(s, k, b)
<1>1. s \in Seq(ItemLines) /\ b \in Seq(ItemLines) /\ Len(b) \in Nat /\ k \in Nat
      /\ \A q \in DOMAIN s : q \in Nat
  BY DEF Distinctly
<1>2. t \in Seq(ItemLines)
  BY <1>1, SplicedIs
<1>3. ASSUME NEW x \in DOMAIN t
      PROVE  \/ \E q \in DOMAIN s : t[x] = s[q] /\ x = IF q < k THEN q ELSE q + Len(b)
             \/ \E j \in DOMAIN b : t[x] = b[j] /\ x = k - 1 + j
  <2>1. \/ \E q \in DOMAIN s : t[x] = s[q] /\ (q < k => x = q) /\ (q >= k => x = q + Len(b))
        \/ \E j \in DOMAIN b : t[x] = b[j] /\ x = k - 1 + j
    BY <1>1, SplicedFrom
  <2> HIDE DEF t
  <2> QED
    BY <1>1, <2>1
<1>4. \A q \in DOMAIN s, j \in DOMAIN b : s[q] # b[j]
  BY DEF ToSet
<1> HIDE DEF t
<1>5. ASSUME NEW x \in DOMAIN t, NEW y \in DOMAIN t, t[x] = t[y] PROVE x = y
  <2>1. CASE \E q \in DOMAIN s : t[x] = s[q]
    <3>1. \A j \in DOMAIN b : t[x] # b[j]
      BY <1>4, <2>1
    <3>2. PICK q \in DOMAIN s : t[x] = s[q] /\ x = IF q < k THEN q ELSE q + Len(b)
      BY <1>3, <3>1
    <3>3. PICK p \in DOMAIN s : t[y] = s[p] /\ y = IF p < k THEN p ELSE p + Len(b)
      BY <1>3, <1>5, <3>1
    <3>4. q = p
      BY <1>5, <3>2, <3>3 DEF Distinctly
    <3> QED
      BY <3>2, <3>3, <3>4
  <2>2. CASE \A q \in DOMAIN s : t[x] # s[q]
    <3>1. PICK j \in DOMAIN b : t[x] = b[j] /\ x = k - 1 + j
      BY <1>3, <2>2
    <3>2. PICK i \in DOMAIN b : t[y] = b[i] /\ y = k - 1 + i
      BY <1>3, <1>5, <2>2
    <3>3. j = i
      BY <1>5, <3>1, <3>2 DEF Distinctly
    <3> QED
      BY <3>1, <3>2, <3>3
  <2> QED
    BY <2>1, <2>2
<1> QED
  BY <1>2, <1>5 DEF Distinctly, t

\* Where each line of a sequence without its line at k is from.
LEMMA RemovedFrom ==
  ASSUME NEW L, NEW s \in Seq(L), NEW k \in 1..Len(s), NEW x \in DOMAIN RemoveAt(s, k)
  PROVE  \E q \in DOMAIN s : /\ q # k /\ RemoveAt(s, k)[x] = s[q]
                            /\ q = IF x < k THEN x ELSE x + 1
<1> DEFINE t == RemoveAt(s, k)
           n == Len(s)
<1>1. /\ t \in Seq(L) /\ Len(t) = n - 1
      /\ \A p \in 1..(k - 1) : t[p] = s[p]
      /\ \A p \in k+1..n : t[p - 1] = s[p]
  BY RemovedIs
<1>2. n \in Nat /\ k \in Nat /\ k >= 1 /\ k <= n /\ DOMAIN s = 1..n
  OBVIOUS
<1>3. x \in 1..(n - 1)
  BY <1>1
<1> HIDE DEF t, n
<1>4. CASE x < k
  <2>1. x \in 1..(k - 1) /\ x \in 1..n /\ x # k
    BY <1>2, <1>3, <1>4
  <2>2. t[x] = s[x]
    BY <1>1, <2>1
  <2> QED
    BY <1>2, <1>4, <2>1, <2>2 DEF t
<1>5. CASE ~(x < k)
  <2>1. x + 1 \in k+1..n /\ (x + 1) - 1 = x /\ x + 1 \in 1..n /\ x + 1 # k
    BY <1>2, <1>3, <1>5
  <2>2. t[x] = s[x + 1]
    BY <1>1, <2>1
  <2> QED
    BY <1>2, <1>5, <2>1, <2>2 DEF t
<1> QED
  BY <1>4, <1>5

\* An item taken out: every other line stays in its region.
LEMMA RemovedKeeps ==
  ASSUME NEW s, Distinctly(s), NEW k \in DOMAIN s, ~IsHeading(s[k])
  PROVE  /\ Distinctly(RemoveAt(s, k))
         /\ ToSet(RemoveAt(s, k)) = ToSet(s) \ {s[k]}
         /\ \A x, g : x # s[k] /\ Belongs(s, x, g) => Belongs(RemoveAt(s, k), x, g)
<1> DEFINE t == RemoveAt(s, k)
           n == Len(s)
           e == [x \in 1..(n - 1) |-> IF x < k THEN x ELSE x + 1]
<1>1. s \in Seq(ItemLines) /\ k \in 1..Len(s) /\ DOMAIN s = 1..n
      /\ n \in Nat /\ k \in Nat /\ k >= 1 /\ k <= n
  BY DEF Distinctly
<1>2. t \in Seq(ItemLines) /\ Len(t) = n - 1 /\ DOMAIN t = 1..(n - 1)
      /\ (\A q \in 1..(k - 1) : t[q] = s[q]) /\ (\A q \in k+1..n : t[q - 1] = s[q])
  <2>1. /\ t \in Seq(ItemLines) /\ Len(t) = Len(s) - 1
        /\ \A q \in 1..(k - 1) : t[q] = s[q]
        /\ \A q \in k+1..Len(s) : t[q - 1] = s[q]
    BY <1>1, RemovedIs
  <2> HIDE DEF t
  <2> QED
    BY <2>1
<1>3. ASSUME NEW x \in 1..(n - 1) PROVE e[x] \in 1..n /\ e[x] # k /\ t[x] = s[e[x]]
  <2>1. x \in DOMAIN t
    BY <1>2
  <2>2. \E q \in DOMAIN s : q # k /\ t[x] = s[q] /\ q = IF x < k THEN x ELSE x + 1
    BY <1>1, <2>1, RemovedFrom
  <2> QED
    BY <1>1, <2>2
<1> HIDE DEF t, n
<1>4. \A x, y \in 1..(n - 1) : x < y => e[x] < e[y]
  BY <1>1
<1>5. ASSUME NEW q \in 1..n, q # k
      PROVE  \E x \in 1..(n - 1) : e[x] = q /\ t[x] = s[q]
  <2>1. CASE q < k
    <3>1. q \in 1..(n - 1) /\ e[q] = q
      BY <1>1, <2>1
    <3> QED
      BY <1>3, <3>1
  <2>2. CASE q > k
    <3>1. q - 1 \in 1..(n - 1) /\ ~(q - 1 < k) /\ (q - 1) + 1 = q
      BY <1>1, <2>2
    <3>2. e[q - 1] = q
      BY <3>1
    <3> QED
      BY <1>3, <3>1, <3>2
  <2> QED
    BY <1>1, <1>5, <2>1, <2>2
<1> HIDE DEF e
<1>6. e \in [1..(n - 1) -> 1..n]
  BY <1>3 DEF e
<1>7. ASSUME NEW x \in 1..(n - 1), NEW y \in 1..(n - 1), t[x] = t[y] PROVE x = y
  <2>1. e[x] = e[y]
    BY <1>1, <1>3, <1>7 DEF Distinctly
  <2>2. ~(x < y) /\ ~(y < x)
    <3>1. e[x] \in Nat
      BY <1>1, <1>3
    <3> QED
      BY <1>4, <2>1, <3>1
  <2> QED
    BY <1>1, <2>2
<1>8. ToSet(t) = ToSet(s) \ {s[k]}
  <2>1. \A x \in 1..(n - 1) : t[x] \in ToSet(s) /\ t[x] # s[k]
    BY <1>1, <1>3 DEF ToSet, Distinctly
  <2>2. \A q \in 1..n : s[q] # s[k] => \E x \in 1..(n - 1) : t[x] = s[q]
    BY <1>5
  <2>3. ASSUME NEW x, x \in ToSet(t) PROVE x \in ToSet(s) /\ x # s[k]
    BY <1>2, <2>1, <2>3, InToSet
  <2>4. ASSUME NEW x, x \in ToSet(s), x # s[k] PROVE x \in ToSet(t)
    <3>1. PICK q \in 1..n : s[q] = x
      BY <1>1, <2>4, InToSet
    <3> QED
      BY <1>2, <2>2, <2>4, <3>1, InToSet
  <2> QED
    BY <2>3, <2>4
<1>9. ASSUME NEW x, NEW g, x # s[k], Belongs(s, x, g) PROVE Belongs(t, x, g)
  <2>1. PICK p \in 1..n : s[p] = x /\ Under(s, p, g)
    BY <1>1, <1>9 DEF Belongs
  <2>2. PICK r \in 1..(n - 1) : e[r] = p /\ t[r] = s[p]
    BY <1>5, <1>9, <2>1
  <2> DEFINE E == 1..r
             d == [y \in E |-> e[y]]
  <2>3. \A y \in E : y \in 1..(n - 1) /\ d[y] = e[y] /\ y \in Nat
    BY <1>1
  <2>4. ASSUME NEW y \in E PROVE d[y] \in 1..p /\ s[d[y]] = t[y]
    <3>1. y < r \/ y = r
      BY <1>1
    <3>2. y < r => e[y] < e[r]
      BY <1>4, <2>3
    <3>3. e[y] \in 1..n /\ t[y] = s[e[y]]
      BY <1>3, <2>3
    <3>4. e[y] \in 1..p
      BY <1>1, <2>2, <3>1, <3>2, <3>3
    <3> QED
      BY <2>3, <3>3, <3>4
  <2>5. ASSUME NEW q \in 1..p, IsNamed(s[q], g) PROVE \E y \in E : d[y] = q
    <3>1. q \in 1..n /\ q # k
      BY <1>1, <2>5 DEF IsNamed
    <3>2. PICK y \in 1..(n - 1) : e[y] = q
      BY <1>5, <3>1
    <3>3. ~(r < y)
      <4>1. q \in Nat /\ p \in Nat /\ q <= p
        BY <1>1
      <4> QED
        BY <1>4, <2>2, <3>2, <4>1
    <3>4. y \in E
      BY <1>1, <3>3
    <3> QED
      BY <2>3, <3>2, <3>4
  <2>6. d \in [E -> 1..p] /\ \A y, z \in E : y < z => d[y] < d[z]
    BY <1>4, <2>3, <2>4
  <2>7. p \in Nat /\ r \in Nat
    BY <1>1
  <2>8. \A y \in E : s[d[y]] = t[y]
    BY <2>4
  <2> HIDE DEF d
  <2>9. Carries(s, p, t, r, g, E, d)
    BY <2>5, <2>6, <2>7, <2>8 DEF Carries
  <2>10. Under(t, r, g)
    BY <2>1, <2>9, UnderCarried
  <2> QED
    BY <1>2, <2>1, <2>2, <2>10 DEF Belongs
<1>10. Distinctly(t)
  BY <1>2, <1>7 DEF Distinctly
<1> QED
  BY <1>8, <1>9, <1>10 DEF t

\* Lines added at the end.
LEMMA AppendedKeeps ==
  ASSUME NEW s \in Seq(ItemLines), NEW b \in Seq(ItemLines)
  PROVE  \A x, g : Belongs(s, x, g) => Belongs(s \o b, x, g)
<1> DEFINE t == s \o b
<1>1. t \in Seq(ItemLines) /\ Len(t) = Len(s) + Len(b) /\ \A q \in 1..Len(s) : t[q] = s[q]
  BY JoinedIs
<1>2. DOMAIN s = 1..Len(s) /\ Len(s) \in Nat /\ Len(b) \in Nat /\ DOMAIN t = 1..(Len(s) + Len(b))
  BY <1>1
<1> HIDE DEF t
<1>3. ASSUME NEW x, NEW g, Belongs(s, x, g) PROVE Belongs(t, x, g)
  <2>1. PICK p \in 1..Len(s) : s[p] = x /\ Under(s, p, g)
    BY <1>2, <1>3 DEF Belongs
  <2>2. \A q \in 1..p : q \in 1..Len(s) /\ t[q] = s[q]
    BY <1>1, <1>2
  <2>3. Under(t, p, g)
    <3>1. CASE g = NoName /\ \A q \in 1..p : ~IsHeading(s[q])
      BY <2>2, <3>1 DEF Under
    <3>2. ASSUME NEW h \in 1..p, IsNamed(s[h], g), \A q \in h+1..p : ~IsHeading(s[q])
          PROVE  Under(t, p, g)
      <4>1. \A q \in h+1..p : q \in 1..p
        BY <1>2
      <4> QED
        BY <2>2, <3>2, <4>1 DEF Under
    <3> QED
      BY <2>1, <3>1, <3>2 DEF Under
  <2>4. p \in DOMAIN t /\ t[p] = x
    BY <1>1, <1>2, <2>1
  <2> QED
    BY <2>3, <2>4 DEF Belongs
<1> QED
  BY <1>3 DEF t
\* Some of the lines: each stays in its region if its heading stays.
LEMMA LinesAtKeeps ==
  ASSUME NEW s, Distinctly(s), NEW S, S \subseteq DOMAIN s
  PROVE  /\ Distinctly(LinesAt(s, S))
         /\ \A x : x \in ToSet(LinesAt(s, S)) <=> \E p \in S : s[p] = x
         /\ \A x, g : /\ Belongs(s, x, g) /\ x \in ToSet(LinesAt(s, S))
                      /\ \A q \in DOMAIN s : IsNamed(s[q], g) => q \in S
                      => Belongs(LinesAt(s, S), x, g)
<1> DEFINE t == LinesAt(s, S)
           n == Cardinality(S)
<1>1. s \in Seq(ItemLines) /\ \A p \in S : p \in Nat
  BY DEF Distinctly
<1>2. PICK f \in [1..n -> S] :
        /\ t \in Seq(ItemLines) /\ Len(t) = n /\ n \in Nat
        /\ \A j \in 1..n : t[j] = s[f[j]]
        /\ \A i, j \in 1..n : i < j => f[i] < f[j]
        /\ \A p \in S : \E j \in 1..n : f[j] = p
  <2>1. \E f \in [1..Cardinality(S) -> S] :
          /\ LinesAt(s, S) \in Seq(ItemLines) /\ Len(LinesAt(s, S)) = Cardinality(S) /\ Cardinality(S) \in Nat
          /\ \A j \in 1..Cardinality(S) : LinesAt(s, S)[j] = s[f[j]]
          /\ \A i, j \in 1..Cardinality(S) : i < j => f[i] < f[j]
          /\ \A p \in S : \E j \in 1..Cardinality(S) : f[j] = p
    BY <1>1, LinesAtIs, SMTT(30)
  <2> QED
    BY <2>1
<1>3. DOMAIN t = 1..n /\ \A j \in 1..n : f[j] \in S /\ f[j] \in Nat /\ j \in Nat
  BY <1>1, <1>2
<1> HIDE DEF t, n
<1>4. ASSUME NEW i \in 1..n, NEW j \in 1..n, t[i] = t[j] PROVE i = j
  <2>1. f[i] = f[j]
    BY <1>2, <1>3, <1>4 DEF Distinctly
  <2>2. ~(i < j) /\ ~(j < i)
    BY <1>2, <1>3, <2>1
  <2> QED
    BY <1>3, <2>2
<1>5. \A x : x \in ToSet(t) <=> \E p \in S : s[p] = x
  <2>1. ASSUME NEW x, x \in ToSet(t) PROVE \E p \in S : s[p] = x
    <3>1. PICK j \in 1..n : t[j] = x
      BY <1>3, <2>1, InToSet
    <3> QED
      BY <1>2, <1>3, <3>1
  <2>2. ASSUME NEW p \in S PROVE s[p] \in ToSet(t)
    <3>1. PICK j \in 1..n : f[j] = p
      BY <1>2
    <3>2. t[j] = s[p]
      BY <1>2, <3>1
    <3> QED
      BY <1>3, <3>2, InToSet
  <2> QED
    BY <2>1, <2>2
<1>6. ASSUME NEW x, NEW g, Belongs(s, x, g), x \in ToSet(t),
             \A q \in DOMAIN s : IsNamed(s[q], g) => q \in S
      PROVE  Belongs(t, x, g)
  <2>1. PICK p \in DOMAIN s : s[p] = x /\ Under(s, p, g)
    BY <1>6 DEF Belongs
  <2>2. p \in S /\ p \in Nat
    <3>1. PICK q \in S : s[q] = x
      BY <1>5, <1>6
    <3>2. q = p
      BY <2>1, <3>1 DEF Distinctly
    <3> QED
      BY <1>1, <3>2
  <2>3. PICK r \in 1..n : f[r] = p
    BY <1>2, <2>2
  <2> DEFINE E == 1..r
             d == [y \in E |-> f[y]]
  <2>4. r \in Nat /\ \A y \in E : y \in 1..n /\ d[y] = f[y] /\ y \in Nat
    BY <1>2, <1>3
  <2>5. ASSUME NEW y \in E PROVE d[y] \in 1..p /\ s[d[y]] = t[y]
    <3>1. y < r \/ y = r
      BY <2>4
    <3>2. f[y] \in DOMAIN s /\ f[y] \in Nat /\ f[y] # 0 /\ (y < r => f[y] < f[r]) /\ t[y] = s[f[y]]
      BY <1>1, <1>2, <1>3, <2>4
    <3>3. f[y] <= p /\ f[y] >= 1
      BY <2>2, <2>3, <3>1, <3>2
    <3>4. d[y] = f[y]
      BY <2>4
    <3> QED
      BY <2>2, <3>2, <3>3, <3>4
  <2>6. ASSUME NEW q \in 1..p, IsNamed(s[q], g) PROVE \E y \in E : d[y] = q
    <3>1. q \in S
      BY <1>1, <1>6, <2>6
    <3>2. PICK y \in 1..n : f[y] = q
      BY <1>2, <3>1
    <3>3. ~(r < y)
      <4>1. q \in Nat /\ q <= p
        BY <2>2
      <4> QED
        BY <1>2, <2>2, <2>3, <3>2, <4>1
    <3>4. y \in E
      BY <1>3, <2>4, <3>3
    <3> QED
      BY <2>4, <3>2, <3>4
  <2>7. d \in [E -> 1..p] /\ \A y, z \in E : y < z => d[y] < d[z]
    BY <1>2, <2>4, <2>5
  <2>8. \A y \in E : s[d[y]] = t[y]
    BY <2>5
  <2> HIDE DEF d
  <2>9. Carries(s, p, t, r, g, E, d)
    BY <2>2, <2>4, <2>6, <2>7, <2>8 DEF Carries
  <2>10. Under(t, r, g)
    BY <2>1, <2>9, UnderCarried
  <2>11. t[r] = x
    BY <1>2, <2>1, <2>3
  <2> QED
    BY <1>3, <2>10, <2>11 DEF Belongs
<1>7. Distinctly(t)
  BY <1>2, <1>3, <1>4 DEF Distinctly
<1> QED
  BY <1>5, <1>6, <1>7 DEF t

\* An item put in at place k.
LEMMA InsertKeeps ==
  ASSUME NEW s, Distinctly(s), NEW x \in ItemLines, ~IsHeading(x), x \notin ToSet(s),
         NEW k \in 1..(Len(s) + 1)
  PROVE  /\ Distinctly(InsertAt(s, k, x))
         /\ ToSet(InsertAt(s, k, x)) = ToSet(s) \cup {x}
         /\ \A y, g : Belongs(s, y, g) => Belongs(InsertAt(s, k, x), y, g)
         /\ \A g : Under(s, k - 1, g) => Belongs(InsertAt(s, k, x), x, g)
<1> DEFINE b == <<x>>
<1>1. s \in Seq(ItemLines)
  BY DEF Distinctly
<1>2. b \in Seq(ItemLines) /\ Len(b) = 1 /\ DOMAIN b = 1..1 /\ b[1] = x
  OBVIOUS
<1>3. ToSet(b) = {x}
  BY <1>2 DEF ToSet
<1>4. Distinctly(b)
  BY <1>2 DEF Distinctly
<1>5. InsertAt(s, k, x) = Spliced(s, k, b)
  BY DEF InsertAt, Spliced
<1> HIDE DEF b
<1>6. ToSet(s) \cap ToSet(b) = {}
  BY <1>3
<1>7. Distinctly(Spliced(s, k, b))
  BY <1>4, <1>6, SplicedDistinct
<1>8. ToSet(Spliced(s, k, b)) = ToSet(s) \cup {x}
  BY <1>1, <1>2, <1>3, SplicedSet
<1>9. \A j \in 1..Len(b) : ~IsHeading(b[j])
  BY <1>2
<1>10. /\ \A y, g : Belongs(s, y, g) => Belongs(Spliced(s, k, b), y, g)
       /\ \A j \in 1..Len(b) : \A g : Under(s, k - 1, g) => Belongs(Spliced(s, k, b), b[j], g)
  BY <1>1, <1>2, <1>9, SplicedKeeps
<1>11. \A g : Under(s, k - 1, g) => Belongs(Spliced(s, k, b), x, g)
  BY <1>2, <1>10
<1> QED
  BY <1>5, <1>7, <1>8, <1>10, <1>11

\* The places where items are put in.
LEMMA UngroupedIs ==
  ASSUME NEW s \in Seq(ItemLines)
  PROVE  Ungrouped(s) \in 1..(Len(s) + 1) /\ Under(s, Ungrouped(s) - 1, NoName)
<1> DEFINE S == {q \in 1..Len(s) : IsHeading(s[q])} \cup {Len(s) + 1}
<1>1. Ungrouped(s) = Min(S) /\ Len(s) \in Nat
  BY DEF Ungrouped, FirstFrom
<1>2. S \subseteq Nat /\ S # {} /\ S \subseteq 1..(Len(s) + 1)
  BY <1>1
<1>3. Min(S) \in S /\ \A x \in S : Min(S) <= x
  <2> HIDE DEF S
  <2> QED
    BY <1>2, SmallestOf
<1>4. Min(S) \in 1..(Len(s) + 1)
  BY <1>2, <1>3
<1>5. ASSUME NEW q \in 1..(Min(S) - 1), IsHeading(s[q]) PROVE FALSE
  <2> DEFINE m == Min(S)
  <2>1. m \in 1..(Len(s) + 1)
    BY <1>4
  <2> HIDE DEF m
  <2>2. q \in 1..(m - 1)
    BY DEF m
  <2>3. q \in 1..Len(s) /\ ~(m <= q)
    BY <1>1, <2>1, <2>2
  <2>4. q \in S
    BY <1>5, <2>3
  <2> QED
    BY <1>3, <2>3, <2>4 DEF m
<1> QED
  BY <1>1, <1>4, <1>5 DEF Under

LEMMA NewItemAtIs ==
  ASSUME NEW s \in Seq(ItemLines)
  PROVE  NewItemAt(s) \in 1..(Len(s) + 1)
<1> DEFINE S == {0} \cup {q \in DOMAIN s : ~IsHeading(s[q])}
<1>1. S \subseteq 0..Len(s) /\ S # {} /\ Len(s) \in Nat
  OBVIOUS
<1>2. Max(S) \in S
  <2> HIDE DEF S
  <2> QED
    BY <1>1, LargestOf
<1>3. NewItemAt(s) = 1 + Max(S)
  BY DEF NewItemAt
<1>4. Max(S) \in 0..Len(s)
  BY <1>1, <1>2
<1> HIDE DEF S
<1> QED
  BY <1>1, <1>3, <1>4

\* An item that joins a group is in it afterwards; the group is made, if there
\* is none, where it is in nobody's way.
LEMMA IntoGroupIs ==
  ASSUME NEW s, Distinctly(s), NEW x \in ItemLines, ~IsHeading(x), x \notin ToSet(s), NEW g \in Names
  PROVE  /\ Distinctly(IntoGroup(s, x, g))
         /\ ToSet(IntoGroup(s, x, g)) = ToSet(s) \cup {Heading(g), x}
         /\ \A y, h : Belongs(s, y, h) => Belongs(IntoGroup(s, x, g), y, h)
         /\ Belongs(IntoGroup(s, x, g), x, g)
<1> DEFINE n == Len(s)
           t == IntoGroup(s, x, g)
<1>1. s \in Seq(ItemLines) /\ n \in Nat /\ DOMAIN s = 1..n
  BY DEF Distinctly
<1>2. CASE HasHeading(s, g)
  <2> DEFINE A == {q \in 1..n : IsNamed(s[q], g)} \cup {n + 1}
             m == Min(A)
             B == {q \in m+1..n : IsHeading(s[q])} \cup {n + 1}
             k == Min(B)
  <2>1. PICK c \in 1..n : IsNamed(s[c], g)
    BY <1>1, <1>2 DEF HasHeading
  <2>2. A \subseteq Nat /\ A # {} /\ c \in A
    BY <1>1, <2>1
  <2>3. m \in A /\ m <= c
    <3> HIDE DEF A
    <3> QED
      BY <2>2, SmallestOf
  <2>4. m \in 1..n /\ IsNamed(s[m], g)
    BY <1>1, <2>1, <2>3
  <2> HIDE DEF m
  <2>5. B \subseteq Nat /\ B # {} /\ B \subseteq m+1..(n + 1)
    BY <1>1, <2>4
  <2>6. k \in B /\ \A y \in B : k <= y
    <3> HIDE DEF B
    <3> QED
      BY <2>5, SmallestOf
  <2>7. k \in m+1..(n + 1)
    BY <2>5, <2>6
  <2> HIDE DEF k
  <2>8. ASSUME NEW q \in m+1..(k - 1), IsHeading(s[q]) PROVE FALSE
    <3>1. q \in m+1..n /\ ~(k <= q)
      BY <1>1, <2>4, <2>7
    <3>2. q \in B
      BY <2>8, <3>1
    <3> QED
      BY <2>6, <3>1, <3>2
  <2>9. k \in 1..(n + 1) /\ m \in 1..(k - 1)
    BY <1>1, <2>4, <2>7
  <2>10. Under(s, k - 1, g)
    BY <2>4, <2>8, <2>9 DEF Under
  <2>11. t = InsertAt(s, k, x)
    BY <1>2 DEF IntoGroup, FirstFrom, k, m
  <2>12. Heading(g) \in ToSet(s)
    <3>1. s[m] \in ItemLines /\ IsHeading(s[m]) /\ s[m].name = g
      BY <1>1, <2>4 DEF IsNamed
    <3>2. s[m] = Heading(g)
      BY <3>1, ItemLineIs
    <3> QED
      BY <1>1, <2>4, <3>2, InToSet
  <2> HIDE DEF t
  <2>13. /\ Distinctly(t) /\ ToSet(t) = ToSet(s) \cup {x}
         /\ \A y, h : Belongs(s, y, h) => Belongs(t, y, h)
         /\ \A h : Under(s, k - 1, h) => Belongs(t, x, h)
    BY <2>9, <2>11, InsertKeeps
  <2> QED
    BY <2>10, <2>12, <2>13 DEF t
<1>3. CASE ~HasHeading(s, g)
  <2> DEFINE b == <<Heading(g), x>>
  <2>1. Heading(g) \in ItemLines /\ IsHeading(Heading(g)) /\ Heading(g).name = g
    BY ItemLineIs
  <2>2. b \in Seq(ItemLines) /\ Len(b) = 2 /\ DOMAIN b = 1..2 /\ b[1] = Heading(g) /\ b[2] = x
    BY <2>1
  <2>3. Heading(g) \notin ToSet(s)
    BY <1>1, <1>3, <2>1, InToSet DEF HasHeading, IsNamed
  <2>4. t = s \o b
    BY <1>3 DEF IntoGroup
  <2> HIDE DEF b, t
  <2>5. Distinctly(b)
    <3>1. Heading(g) # x
      BY <2>1
    <3> QED
      BY <2>2, <3>1 DEF Distinctly
  <2>6. ToSet(b) = {Heading(g), x}
    <3>1. ASSUME NEW y PROVE y \in ToSet(b) <=> y = Heading(g) \/ y = x
      BY <2>2, InToSet
    <3> QED
      BY <3>1
  <2>7. t = Spliced(s, n + 1, b)
    <3>1. SubSeq(s, 1, n) = s /\ SubSeq(s, n + 1, n) = <<>>
      BY <1>1
    <3>2. (n + 1) - 1 = n
      BY <1>1
    <3>3. s \o b \in Seq(ItemLines)
      BY <1>1, <2>2
    <3>4. s \o b \o <<>> = s \o b
      BY <3>3
    <3> QED
      BY <2>4, <3>1, <3>2, <3>4 DEF Spliced
  <2>8. n + 1 \in 1..(Len(s) + 1) /\ ToSet(s) \cap ToSet(b) = {}
    BY <1>1, <2>3, <2>6
  <2>9. Distinctly(t) /\ ToSet(t) = ToSet(s) \cup {Heading(g), x}
    BY <1>1, <2>2, <2>5, <2>6, <2>7, <2>8, SplicedDistinct, SplicedSet
  <2>10. \A y, h : Belongs(s, y, h) => Belongs(t, y, h)
    BY <1>1, <2>2, <2>4, AppendedKeeps
  <2>11. t \in Seq(ItemLines) /\ Len(t) = n + 2 /\ t[n + 1] = Heading(g) /\ t[n + 2] = x
    <3>1. t \in Seq(ItemLines) /\ Len(t) = Len(s) + Len(b) /\ \A j \in 1..Len(b) : t[Len(s) + j] = b[j]
      <4>1. /\ s \o b \in Seq(ItemLines) /\ Len(s \o b) = Len(s) + Len(b)
            /\ \A q \in 1..Len(s) : (s \o b)[q] = s[q]
            /\ \A j \in 1..Len(b) : (s \o b)[Len(s) + j] = b[j]
        <5>1. s \in Seq(ItemLines) /\ b \in Seq(ItemLines)
          BY <1>1, <2>2
        <5> QED
          BY <5>1, JoinedIs
      <4> QED
        BY <2>4, <4>1
    <3> QED
      BY <2>2, <3>1
  <2>12. Under(t, n + 2, g)
    <3>1. n + 1 \in 1..(n + 2) /\ IsNamed(t[n + 1], g)
      BY <1>1, <2>1, <2>11 DEF IsNamed
    <3>2. ASSUME NEW q \in (n + 1)+1..(n + 2) PROVE ~IsHeading(t[q])
      <4>1. q = n + 2
        BY <1>1
      <4> QED
        BY <2>11, <4>1
    <3> QED
      BY <3>1, <3>2 DEF Under
  <2>13. n + 2 \in DOMAIN t
    BY <1>1, <2>11
  <2> QED
    BY <2>9, <2>10, <2>11, <2>12, <2>13 DEF Belongs, t
<1> QED
  BY <1>2, <1>3
\* An item that is moved: out of its place and into the group it is to join.
LEMMA MoveItemIs ==
  ASSUME NEW s, Distinctly(s), NEW p \in DOMAIN s, ~IsHeading(s[p]), NEW g \in Names \cup {NoName}
  PROVE  /\ Distinctly(MoveItem(s, p, g))
         /\ \A i \in Ids : Item(i) \in ToSet(MoveItem(s, p, g)) <=> Item(i) \in ToSet(s)
         /\ \A y, h : y # s[p] /\ Belongs(s, y, h) => Belongs(MoveItem(s, p, g), y, h)
         /\ Belongs(MoveItem(s, p, g), s[p], g)
<1> DEFINE rest == RemoveAt(s, p)
           x == s[p]
           t == MoveItem(s, p, g)
<1>1. s \in Seq(ItemLines) /\ x \in ItemLines /\ x \in ToSet(s) /\ p \in 0..Len(s)
  BY DEF Distinctly, ToSet
<1>2. CASE GroupAt(s, p) = g
  <2>1. t = s
    BY <1>2 DEF MoveItem
  <2>2. Under(s, p, g)
    BY <1>1, <1>2, GroupAtIs
  <2> QED
    BY <2>1, <2>2 DEF Belongs
<1>3. CASE GroupAt(s, p) # g
  <2>1. /\ Distinctly(rest) /\ ToSet(rest) = ToSet(s) \ {x}
        /\ \A y, h : y # x /\ Belongs(s, y, h) => Belongs(rest, y, h)
    BY RemovedKeeps
  <2>2. rest \in Seq(ItemLines) /\ x \notin ToSet(rest)
    BY <2>1 DEF Distinctly
  <2>3. CASE g = NoName
    <3>1. t = InsertAt(rest, Ungrouped(rest), x)
      BY <1>3, <2>3 DEF MoveItem
    <3> HIDE DEF t, rest, x
    <3>2. Ungrouped(rest) \in 1..(Len(rest) + 1) /\ Under(rest, Ungrouped(rest) - 1, NoName)
      BY <2>2, UngroupedIs
    <3>3. /\ Distinctly(t) /\ ToSet(t) = ToSet(rest) \cup {x}
          /\ \A y, h : Belongs(rest, y, h) => Belongs(t, y, h)
          /\ \A h : Under(rest, Ungrouped(rest) - 1, h) => Belongs(t, x, h)
      <4>1. ~IsHeading(x)
        BY DEF x
      <4> QED
        BY <1>1, <2>1, <2>2, <3>1, <3>2, <4>1, InsertKeeps
    <3>4. ToSet(t) = ToSet(s)
      BY <1>1, <2>1, <3>3
    <3> QED
      BY <2>1, <2>3, <3>2, <3>3, <3>4 DEF t, x
  <2>4. CASE g # NoName
    <3>1. t = IntoGroup(rest, x, g) /\ g \in Names
      BY <1>3, <2>4 DEF MoveItem
    <3> HIDE DEF t, rest, x
    <3>2. /\ Distinctly(t) /\ ToSet(t) = ToSet(rest) \cup {Heading(g), x}
          /\ \A y, h : Belongs(rest, y, h) => Belongs(t, y, h)
          /\ Belongs(t, x, g)
      <4>1. ~IsHeading(x)
        BY DEF x
      <4> QED
        BY <1>1, <2>1, <2>2, <3>1, <4>1, IntoGroupIs
    <3>3. ASSUME NEW i \in Ids PROVE Item(i) \in ToSet(t) <=> Item(i) \in ToSet(s)
      <4>1. Item(i) # Heading(g)
        BY <3>1, ItemLineIs
      <4> QED
        BY <1>1, <2>1, <3>2, <4>1
    <3> QED
      BY <2>1, <3>2, <3>3 DEF t, x
  <2> QED
    BY <2>3, <2>4
<1> QED
  BY <1>2, <1>3

\* A group that is dropped: its heading goes and its members are in no group.
LEMMA DropItemsIs ==
  ASSUME NEW s, Distinctly(s), NEW g \in Names
  PROVE  /\ Distinctly(DropItems(s, g))
         /\ \A i \in Ids : Item(i) \in ToSet(DropItems(s, g)) <=> Item(i) \in ToSet(s)
         /\ \A i \in Ids : \A h : Belongs(s, Item(i), h) =>
              Belongs(DropItems(s, g), Item(i), IF h = g THEN NoName ELSE h)
<1> DEFINE inside == {p \in DOMAIN s : GroupAt(s, p) = g}
           M == {p \in inside : ~IsHeading(s[p])}
           O == DOMAIN s \ inside
           members == LinesAt(s, M)
           rest == LinesAt(s, O)
           k == Ungrouped(rest)
           t == DropItems(s, g)
<1>1. s \in Seq(ItemLines) /\ M \subseteq DOMAIN s /\ O \subseteq DOMAIN s /\ DOMAIN s = 1..Len(s) /\ Len(s) \in Nat
  BY DEF Distinctly
<1>2. ASSUME NEW p \in DOMAIN s, NEW h, Under(s, p, h) PROVE GroupAt(s, p) = h
  BY <1>1, <1>2, GroupAtIs
<1>3. ASSUME NEW p \in DOMAIN s, NEW h, IsNamed(s[p], h) PROVE GroupAt(s, p) = h
  <2>1. Under(s, p, h)
    BY <1>1, <1>3 DEF Under
  <2> QED
    BY <1>2, <2>1
<1>4. t = Spliced(rest, k, members)
  BY DEF DropItems, Spliced
<1>5. /\ \A p \in DOMAIN s : p \in M <=> GroupAt(s, p) = g /\ ~IsHeading(s[p])
      /\ \A p \in DOMAIN s : p \in O <=> GroupAt(s, p) # g
  OBVIOUS
<1> HIDE DEF M, O
<1>6. Distinctly(members) /\ \A x : x \in ToSet(members) <=> \E p \in M : s[p] = x
  BY <1>1, LinesAtKeeps
<1>7. /\ Distinctly(rest)
      /\ \A x : x \in ToSet(rest) <=> \E p \in O : s[p] = x
      /\ \A x, h : /\ Belongs(s, x, h) /\ x \in ToSet(rest)
                   /\ \A q \in DOMAIN s : IsNamed(s[q], h) => q \in O
                   => Belongs(rest, x, h)
  BY <1>1, LinesAtKeeps
<1> HIDE DEF members, rest, t
<1>8. members \in Seq(ItemLines) /\ rest \in Seq(ItemLines)
  BY <1>6, <1>7 DEF Distinctly
<1>9. k \in 1..(Len(rest) + 1) /\ Under(rest, k - 1, NoName)
  BY <1>8, UngroupedIs
<1> HIDE DEF k
<1>10. \A j \in 1..Len(members) : ~IsHeading(members[j])
  <2> SUFFICES ASSUME NEW j \in 1..Len(members) PROVE ~IsHeading(members[j])
    OBVIOUS
  <2>1. members[j] \in ToSet(members)
    BY <1>8, InToSet
  <2>2. PICK p \in M : s[p] = members[j]
    BY <1>6, <2>1
  <2> QED
    BY <1>1, <1>5, <2>2
<1>11. ToSet(rest) \cap ToSet(members) = {}
  <2> SUFFICES ASSUME NEW x, x \in ToSet(rest), x \in ToSet(members) PROVE FALSE
    OBVIOUS
  <2>1. PICK p \in M : s[p] = x
    BY <1>6
  <2>2. PICK q \in O : s[q] = x
    BY <1>7
  <2>3. p = q
    BY <1>1, <2>1, <2>2 DEF Distinctly
  <2> QED
    BY <1>1, <1>5, <2>3
<1>12. Distinctly(t)
  BY <1>4, <1>6, <1>7, <1>9, <1>11, SplicedDistinct
<1>13. ToSet(t) = ToSet(rest) \cup ToSet(members)
  BY <1>4, <1>8, <1>9, SplicedSet
<1>14. /\ \A x, h : Belongs(rest, x, h) => Belongs(t, x, h)
       /\ \A j \in 1..Len(members) : \A h : Under(rest, k - 1, h) => Belongs(t, members[j], h)
  BY <1>4, <1>8, <1>9, <1>10, SplicedKeeps
<1>15. \A x : x \in ToSet(members) => Belongs(t, x, NoName)
  <2> SUFFICES ASSUME NEW x, x \in ToSet(members) PROVE Belongs(t, x, NoName)
    OBVIOUS
  <2>1. PICK j \in 1..Len(members) : members[j] = x
    BY <1>8, InToSet
  <2> QED
    BY <1>9, <1>14, <2>1
<1>16. ASSUME NEW i \in Ids PROVE Item(i) \in ToSet(t) <=> Item(i) \in ToSet(s)
  <2>1. ~IsHeading(Item(i))
    BY ItemLineIs
  <2>2. ASSUME NEW p \in DOMAIN s, s[p] = Item(i) PROVE Item(i) \in ToSet(t)
    <3>1. p \in M \/ p \in O
      BY <1>5, <2>1, <2>2
    <3> QED
      BY <1>6, <1>7, <1>13, <2>2, <3>1
  <2>3. Item(i) \in ToSet(s) => \E p \in DOMAIN s : s[p] = Item(i)
    BY InToSet
  <2>4. ASSUME Item(i) \in ToSet(t) PROVE Item(i) \in ToSet(s)
    <3>1. (\E p \in M : s[p] = Item(i)) \/ (\E p \in O : s[p] = Item(i))
      BY <1>6, <1>7, <1>13, <2>4
    <3> QED
      BY <1>1, <3>1, InToSet
  <2> QED
    BY <2>2, <2>3, <2>4
<1>17. ASSUME NEW i \in Ids, NEW h, Belongs(s, Item(i), h)
       PROVE  Belongs(t, Item(i), IF h = g THEN NoName ELSE h)
  <2>1. PICK p \in DOMAIN s : s[p] = Item(i) /\ Under(s, p, h)
    BY <1>17 DEF Belongs
  <2>2. GroupAt(s, p) = h /\ ~IsHeading(s[p])
    BY <1>2, <2>1, ItemLineIs
  <2>3. CASE h = g
    <3>1. p \in M
      BY <1>5, <2>2, <2>3
    <3> QED
      BY <1>6, <1>15, <2>1, <2>3, <3>1
  <2>4. CASE h # g
    <3>1. Item(i) \in ToSet(rest)
      BY <1>5, <1>7, <2>1, <2>2, <2>4
    <3>2. \A q \in DOMAIN s : IsNamed(s[q], h) => q \in O
      BY <1>3, <1>5, <2>4
    <3>3. Belongs(rest, Item(i), h)
      BY <1>7, <1>17, <3>1, <3>2
    <3> QED
      BY <1>14, <2>4, <3>3
  <2> QED
    BY <2>3, <2>4
<1> QED
  BY <1>12, <1>16, <1>17 DEF t

\* A group that is renamed takes its members along.
LEMMA RenameItemsIs ==
  ASSUME NEW s, Distinctly(s), NEW g \in Names, NEW u \in Names, u = g \/ ~HasHeading(s, u)
  PROVE  /\ Distinctly(RenameItems(s, g, u))
         /\ \A i \in Ids : Item(i) \in ToSet(RenameItems(s, g, u)) <=> Item(i) \in ToSet(s)
         /\ \A i \in Ids : \A h : Belongs(s, Item(i), h) =>
              Belongs(RenameItems(s, g, u), Item(i), IF h = g THEN u ELSE h)
<1> DEFINE t == RenameItems(s, g, u)
<1>1. s \in Seq(ItemLines) /\ DOMAIN s = 1..Len(s) /\ Len(s) \in Nat
  BY DEF Distinctly
<1>2. \A p \in DOMAIN s : t[p] = IF IsNamed(s[p], g) THEN Heading(u) ELSE s[p]
  BY DEF RenameItems
<1>3. DOMAIN t = DOMAIN s /\ t \in Seq(ItemLines)
  <2>1. \A p \in DOMAIN s : (IF IsNamed(s[p], g) THEN Heading(u) ELSE s[p]) \in ItemLines
    BY <1>1, ItemLineIs
  <2>2. t = [p \in 1..Len(s) |-> IF IsNamed(s[p], g) THEN Heading(u) ELSE s[p]]
    BY <1>1 DEF RenameItems
  <2> HIDE DEF t
  <2> QED
    BY <1>1, <2>1, <2>2
<1> HIDE DEF t
<1>4. Heading(u) \in ItemLines /\ IsHeading(Heading(u)) /\ Heading(u).name = u
      /\ Heading(g) \in ItemLines /\ IsHeading(Heading(g)) /\ Heading(g).name = g
  BY ItemLineIs
<1>5. ASSUME NEW p \in DOMAIN s, IsNamed(s[p], g) PROVE s[p] = Heading(g)
  BY <1>1, <1>5, ItemLineIs DEF IsNamed
<1>6. ASSUME NEW p \in DOMAIN s, NEW q \in DOMAIN s, t[p] = t[q] PROVE p = q
  <2>1. CASE IsNamed(s[p], g) /\ IsNamed(s[q], g)
    BY <1>5, <2>1 DEF Distinctly
  <2>2. CASE ~IsNamed(s[p], g) /\ ~IsNamed(s[q], g)
    BY <1>2, <1>6, <2>2 DEF Distinctly
  <2>3. ASSUME NEW a \in DOMAIN s, NEW b \in DOMAIN s, t[a] = t[b], IsNamed(s[a], g), ~IsNamed(s[b], g)
        PROVE  FALSE
    <3>1. s[b] = Heading(u)
      BY <1>2, <2>3
    <3>2. IsNamed(s[b], u)
      BY <1>4, <3>1 DEF IsNamed
    <3> QED
      BY <2>3, <3>2 DEF HasHeading
  <2> QED
    BY <1>6, <2>1, <2>2, <2>3
<1>7. ASSUME NEW i \in Ids, NEW p \in DOMAIN s PROVE t[p] = Item(i) <=> s[p] = Item(i)
  <2>1. ~IsHeading(Item(i))
    BY ItemLineIs
  <2>2. IsNamed(s[p], g) => t[p] # Item(i) /\ s[p] # Item(i)
    BY <1>2, <1>4, <2>1 DEF IsNamed
  <2> QED
    BY <1>2, <2>2
<1>8. ASSUME NEW p \in DOMAIN s, NEW h, Under(s, p, h)
      PROVE  Under(t, p, IF h = g THEN u ELSE h)
  <2>1. \A q \in 1..p : q \in DOMAIN s /\ (IsHeading(t[q]) <=> IsHeading(s[q]))
    <3> SUFFICES ASSUME NEW q \in 1..p PROVE q \in DOMAIN s /\ (IsHeading(t[q]) <=> IsHeading(s[q]))
      OBVIOUS
    <3>1. q \in DOMAIN s
      BY <1>1
    <3> QED
      BY <1>2, <1>4, <3>1 DEF IsNamed
  <2>2. CASE h = NoName /\ \A q \in 1..p : ~IsHeading(s[q])
    <3>1. h # g
      BY <2>2, ItemLineIs
    <3> QED
      BY <2>1, <2>2, <3>1 DEF Under
  <2>3. ASSUME NEW c \in 1..p, IsNamed(s[c], h), \A q \in c+1..p : ~IsHeading(s[q])
        PROVE  Under(t, p, IF h = g THEN u ELSE h)
    <3>1. \A q \in c+1..p : q \in 1..p /\ ~IsHeading(t[q])
      <4>1. \A q \in c+1..p : q \in 1..p
        BY <1>1
      <4> QED
        BY <2>1, <2>3, <4>1
    <3>2. IsNamed(t[c], IF h = g THEN u ELSE h)
      <4>1. c \in DOMAIN s
        BY <2>1
      <4>2. CASE h = g
        BY <1>2, <1>4, <2>3, <4>1, <4>2 DEF IsNamed
      <4>3. CASE h # g
        BY <1>2, <2>3, <4>1, <4>3 DEF IsNamed
      <4> QED
        BY <4>2, <4>3
    <3> QED
      BY <3>1, <3>2 DEF Under
  <2> QED
    BY <1>8, <2>2, <2>3 DEF Under
<1>9. \A i \in Ids : Item(i) \in ToSet(t) <=> Item(i) \in ToSet(s)
  BY <1>3, <1>7, InToSet
<1>10. ASSUME NEW i \in Ids, NEW h, Belongs(s, Item(i), h)
       PROVE  Belongs(t, Item(i), IF h = g THEN u ELSE h)
  BY <1>3, <1>7, <1>8, <1>10 DEF Belongs
<1>11. Distinctly(t)
  BY <1>3, <1>6 DEF Distinctly
<1> QED
  BY <1>9, <1>10, <1>11 DEF t

------------------------------------------------------------------------------
\* Where a request wants item i to be that is in group g.
Goes(op, s, i, g) ==
  CASE op.act = "move" /\ i = Named(op, s) -> op.to
    [] op.act = "rename" /\ g = op.group -> op.to
    [] op.act = "drop" /\ g = op.group -> NoName
    [] OTHER -> g

ItemsMoved(op, s, t) ==
  /\ Distinctly(t)
  /\ \A i \in Ids : Item(i) \in ToSet(t) <=>
       \/ Item(i) \in ToSet(s) /\ ~(op.act = "delete" /\ i = Named(op, s))
       \/ op.act = "add" /\ i = op.id
  /\ \A i \in Ids : \A g : Belongs(s, Item(i), g) /\ Item(i) \in ToSet(t) =>
       Belongs(t, Item(i), Goes(op, s, i, g))

\* Each rewrite of todolist.md does what its request asks.
LEMMA ItemsAfterIs ==
  ASSUME NEW s, Distinctly(s), NEW op \in Ops, op.act # "fill", ItemsAllow(op, s)
  PROVE  ItemsMoved(op, s, ItemsAfter(op, s))
<1> DEFINE t == ItemsAfter(op, s)
<1>1. s \in Seq(ItemLines) /\ DOMAIN s = 1..Len(s) /\ Len(s) \in Nat
  BY DEF Distinctly
<1>2. CASE op.act = "add"
  <2>1. t = InsertAt(s, NewItemAt(s), Item(op.id)) /\ op.id \in Ids
    BY <1>2 DEF ItemsAfter, Ops
  <2>2. Item(op.id) \in ItemLines /\ ~IsHeading(Item(op.id)) /\ Item(op.id).id = op.id
    BY <2>1, ItemLineIs
  <2>3. Item(op.id) \notin ToSet(s)
    BY <1>2, <2>2, InToSet DEF ItemsAllow
  <2>4. NewItemAt(s) \in 1..(Len(s) + 1)
    BY <1>1, NewItemAtIs
  <2> HIDE DEF t
  <2>5. /\ Distinctly(t) /\ ToSet(t) = ToSet(s) \cup {Item(op.id)}
        /\ \A y, g : Belongs(s, y, g) => Belongs(t, y, g)
    BY <2>1, <2>2, <2>3, <2>4, InsertKeeps
  <2>6. \A i \in Ids : Item(i) = Item(op.id) <=> i = op.id
    BY <2>1, ItemLineIs
  <2>7. \A i, g : Goes(op, s, i, g) = g
    BY <1>2 DEF Goes
  <2> QED
    BY <1>2, <2>5, <2>6, <2>7 DEF ItemsMoved, t
<1>3. CASE op.act = "move"
  <2>1. t = MoveItem(s, op.at, op.to) /\ op.to \in Names \cup {NoName}
    BY <1>3 DEF ItemsAfter, Ops
  <2>2. op.at \in DOMAIN s /\ ~IsHeading(s[op.at]) /\ Named(op, s) = s[op.at].id
    BY <1>3 DEF ItemsAllow, Named
  <2>3. s[op.at] = Item(Named(op, s)) /\ Named(op, s) \in Ids
    BY <1>1, <2>2, ItemLineIs
  <2> HIDE DEF t
  <2>4. /\ Distinctly(t)
        /\ \A i \in Ids : Item(i) \in ToSet(t) <=> Item(i) \in ToSet(s)
        /\ \A y, h : y # s[op.at] /\ Belongs(s, y, h) => Belongs(t, y, h)
        /\ Belongs(t, s[op.at], op.to)
    BY <2>1, <2>2, MoveItemIs
  <2>5. \A i \in Ids : \A g : Goes(op, s, i, g) = IF i = Named(op, s) THEN op.to ELSE g
    BY <1>3 DEF Goes
  <2>6. \A i \in Ids : i # Named(op, s) => Item(i) # s[op.at]
    BY <2>2, ItemLineIs
  <2>7. ASSUME NEW i \in Ids, NEW g, Belongs(s, Item(i), g) PROVE Belongs(t, Item(i), Goes(op, s, i, g))
    <3>1. CASE i = Named(op, s)
      BY <2>3, <2>4, <2>5, <3>1
    <3>2. CASE i # Named(op, s)
      BY <2>4, <2>5, <2>6, <2>7, <3>2
    <3> QED
      BY <3>1, <3>2
  <2> QED
    BY <1>3, <2>4, <2>7 DEF ItemsMoved, t
<1>4. CASE op.act = "delete"
  <2>1. t = RemoveAt(s, op.at)
    BY <1>4 DEF ItemsAfter
  <2>2. op.at \in DOMAIN s /\ ~IsHeading(s[op.at]) /\ Named(op, s) = s[op.at].id
    BY <1>4 DEF ItemsAllow, Named
  <2>3. s[op.at] = Item(Named(op, s)) /\ Named(op, s) \in Ids
    BY <1>1, <2>2, ItemLineIs
  <2> HIDE DEF t
  <2>4. /\ Distinctly(t) /\ ToSet(t) = ToSet(s) \ {s[op.at]}
        /\ \A y, g : y # s[op.at] /\ Belongs(s, y, g) => Belongs(t, y, g)
    BY <2>1, <2>2, RemovedKeeps
  <2>5. \A i, g : Goes(op, s, i, g) = g
    BY <1>4 DEF Goes
  <2>6. \A i \in Ids : Item(i) = s[op.at] <=> i = Named(op, s)
    BY <2>2, <2>3, ItemLineIs
  <2> QED
    BY <1>4, <2>4, <2>5, <2>6 DEF ItemsMoved, t
<1>5. CASE op.act = "create"
  <2> DEFINE b == <<Heading(op.to)>>
  <2>1. t = s \o b /\ op.to \in Names
    BY <1>1, <1>5 DEF ItemsAfter, Ops
  <2>2. Heading(op.to) \in ItemLines /\ IsHeading(Heading(op.to)) /\ Heading(op.to).name = op.to
    BY <2>1, ItemLineIs
  <2>3. b \in Seq(ItemLines) /\ Len(b) = 1 /\ DOMAIN b = 1..1 /\ b[1] = Heading(op.to)
    BY <2>2
  <2>4. Distinctly(b) /\ ToSet(b) = {Heading(op.to)}
    BY <2>3 DEF Distinctly, ToSet
  <2> HIDE DEF b, t
  <2>5. Heading(op.to) \notin ToSet(s)
    BY <1>1, <1>5, <2>2, InToSet DEF ItemsAllow, HasHeading, IsNamed
  <2>6. t = Spliced(s, Len(s) + 1, b)
    <3>1. SubSeq(s, 1, Len(s)) = s /\ SubSeq(s, Len(s) + 1, Len(s)) = <<>> /\ (Len(s) + 1) - 1 = Len(s)
      BY <1>1
    <3>2. s \o b \in Seq(ItemLines)
      BY <1>1, <2>3
    <3>3. s \o b \o <<>> = s \o b
      BY <3>2
    <3> QED
      BY <2>1, <3>1, <3>3 DEF Spliced
  <2>7. Len(s) + 1 \in 1..(Len(s) + 1) /\ ToSet(s) \cap ToSet(b) = {}
    BY <1>1, <2>4, <2>5
  <2>8. Distinctly(t) /\ ToSet(t) = ToSet(s) \cup {Heading(op.to)}
    BY <1>1, <2>3, <2>4, <2>6, <2>7, SplicedDistinct, SplicedSet
  <2>9. \A y, g : Belongs(s, y, g) => Belongs(t, y, g)
    BY <1>1, <2>1, <2>3, AppendedKeeps
  <2>10. \A i, g : Goes(op, s, i, g) = g
    BY <1>5 DEF Goes
  <2>11. \A i \in Ids : Item(i) # Heading(op.to)
    BY <2>2, ItemLineIs
  <2> QED
    BY <1>5, <2>8, <2>9, <2>10, <2>11 DEF ItemsMoved, t
<1>6. CASE op.act = "rename"
  <2>1. t = RenameItems(s, op.group, op.to) /\ op.group \in Names /\ op.to \in Names
    BY <1>6 DEF ItemsAfter, Ops
  <2>2. op.to = op.group \/ ~HasHeading(s, op.to)
    BY <1>6 DEF ItemsAllow
  <2> HIDE DEF t
  <2>3. /\ Distinctly(t)
        /\ \A i \in Ids : Item(i) \in ToSet(t) <=> Item(i) \in ToSet(s)
        /\ \A i \in Ids : \A h : Belongs(s, Item(i), h) => Belongs(t, Item(i), IF h = op.group THEN op.to ELSE h)
    BY <2>1, <2>2, RenameItemsIs
  <2>4. \A i, g : Goes(op, s, i, g) = IF g = op.group THEN op.to ELSE g
    BY <1>6 DEF Goes
  <2> QED
    BY <1>6, <2>3, <2>4 DEF ItemsMoved, t
<1>7. CASE op.act = "drop"
  <2>1. t = DropItems(s, op.group) /\ op.group \in Names
    BY <1>7 DEF ItemsAfter, Ops
  <2> HIDE DEF t
  <2>2. /\ Distinctly(t)
        /\ \A i \in Ids : Item(i) \in ToSet(t) <=> Item(i) \in ToSet(s)
        /\ \A i \in Ids : \A h : Belongs(s, Item(i), h) => Belongs(t, Item(i), IF h = op.group THEN NoName ELSE h)
    BY <2>1, DropItemsIs
  <2>3. \A i, g : Goes(op, s, i, g) = IF g = op.group THEN NoName ELSE g
    BY <1>7 DEF Goes
  <2> QED
    BY <1>7, <2>2, <2>3 DEF ItemsMoved, t
<1> QED
  <2>1. op.act \in {"add", "fill", "move", "delete", "create", "rename", "drop"}
    BY DEF Ops
  <2> QED
    BY <1>2, <1>3, <1>4, <1>5, <1>6, <1>7, <2>1
------------------------------------------------------------------------------
(* The groups of notes.md, when no note's own text holds a heading *)

NoteLines == [id : Ids \cup {Placeholder}, name : Names \cup {NoName}, within : {NoName}]

\* What a save leaves: every note once, those without a group before the others.
Tidy(notes) ==
  /\ notes \in Seq(NoteLines)
  /\ \A p, q \in DOMAIN notes : notes[p].id = notes[q].id /\ notes[p].id \in Ids => p = q
  /\ \A p, q \in DOMAIN notes : p < q /\ notes[q].name = NoName => notes[p].name = NoName

LEMMA NoteLineIs ==
  /\ \A x \in NoteLines : x.id \in Ids \cup {Placeholder} /\ x.name \in Names \cup {NoName}
                          /\ x.within = NoName /\ x = Note(x.id, x.name, NoName)
  /\ \A i \in Ids \cup {Placeholder}, g \in Names \cup {NoName} :
       /\ Note(i, g, NoName) \in NoteLines
       /\ Note(i, g, NoName).id = i /\ Note(i, g, NoName).name = g
  /\ NoName \notin Names /\ Placeholder \notin Ids
<1>1. NoName \notin Names /\ Placeholder \notin Ids
  BY TodoAssumption DEF TodoAssumption
<1> QED
  BY <1>1 DEF NoteLines, Note

\* In a tidy file the last heading above a note with a group is its own or
\* that of the note before it.
LEMMA LastMarkerIs ==
  ASSUME NEW s, Tidy(s), NEW p \in 0..Len(s)
  PROVE  LastMarker(s)[p] = IF p = 0 THEN NoName ELSE s[p].name
<1> DEFINE named == {q \in 1..p : s[q].name # NoName}
<1>1. s \in Seq(NoteLines) /\ DOMAIN s = 1..Len(s) /\ Len(s) \in Nat /\ p \in Nat
  BY DEF Tidy
<1>2. LastMarker(s)[p] = IF named = {} THEN NoName ELSE s[Max(named)].name
  BY DEF LastMarker
<1>3. CASE p = 0
  <2>1. named = {}
    BY <1>3
  <2> QED
    BY <1>2, <1>3, <2>1
<1>4. CASE p # 0 /\ s[p].name = NoName
  <2>1. \A q \in 1..p : s[q].name = NoName
    <3> SUFFICES ASSUME NEW q \in 1..p PROVE s[q].name = NoName
      OBVIOUS
    <3>1. q \in DOMAIN s /\ p \in DOMAIN s /\ (q < p \/ q = p)
      BY <1>1, <1>4
    <3> QED
      BY <1>4, <3>1 DEF Tidy
  <2>2. named = {}
    BY <2>1
  <2> QED
    BY <1>2, <1>4, <2>2
<1>5. CASE p # 0 /\ s[p].name # NoName
  <2>1. p \in named /\ named \subseteq 0..p
    BY <1>1, <1>5
  <2>2. \A q \in named : q \in Nat /\ q <= p
    BY <1>1
  <2> HIDE DEF named
  <2>3. Max(named) \in named /\ \A x \in named : x <= Max(named)
    BY <1>1, <2>1, LargestOf
  <2>4. Max(named) = p
    <3>1. Max(named) \in Nat /\ Max(named) <= p /\ p <= Max(named)
      BY <2>1, <2>2, <2>3
    <3> QED
      BY <1>1, <3>1
  <2> QED
    BY <1>2, <1>5, <2>1, <2>4
<1> QED
  BY <1>3, <1>4, <1>5

\* Writing a tidy file and reading it again changes nothing.
LEMMA RereadIs ==
  ASSUME NEW s, Tidy(s)
  PROVE  Reread(s) = s
<1> DEFINE marked(p) == s[p].name # NoName /\ s[p].name # LastMarker(s)[p - 1]
           headings(p) == {q \in 1..p : marked(q) \/ s[q].within # NoName}
           heading(q) == IF s[q].within # NoName THEN s[q].within ELSE s[q].name
           below(p) == IF headings(p) = {} THEN NoName ELSE heading(Max(headings(p)))
<1>1. s \in Seq(NoteLines) /\ DOMAIN s = 1..Len(s) /\ Len(s) \in Nat
  BY DEF Tidy
<1>2. \A p \in 1..Len(s) : s[p].within = NoName /\ s[p] = Note(s[p].id, s[p].name, NoName)
  BY <1>1, NoteLineIs
<1>3. \A p \in 1..Len(s) : marked(p) <=>
        s[p].name # NoName /\ (p = 1 \/ s[p].name # s[p - 1].name)
  <2> SUFFICES ASSUME NEW p \in 1..Len(s)
               PROVE  LastMarker(s)[p - 1] = IF p = 1 THEN NoName ELSE s[p - 1].name
    OBVIOUS
  <2>1. p - 1 \in 0..Len(s) /\ (p - 1 = 0 <=> p = 1)
    BY <1>1
  <2> QED
    BY <2>1, LastMarkerIs
<1>4. ASSUME NEW p \in 1..Len(s), s[p].name # NoName
      PROVE  below(p) = s[p].name
  \* the first note of the run that p is in is marked
  <2> DEFINE H == headings(p)
             m == Max(H)
             same == {q \in 1..p : \A r \in q..p : s[r].name = s[p].name}
  <2>1. H = {q \in 1..p : marked(q)}
    BY <1>1, <1>2
  <2>2. same \subseteq Nat /\ p \in same
    BY <1>1
  <2>3. PICK f \in same : \A q \in same : f <= q
    BY <2>2, LeastOf
  <2>4. f \in 1..p /\ f \in Nat /\ p \in Nat /\ p <= Len(s) /\ \A r \in f..p : s[r].name = s[p].name
    BY <1>1, <2>3
  <2>5. f \in 1..Len(s) /\ s[f].name = s[p].name
    BY <1>1, <2>4
  <2>6. f = 1 \/ s[f - 1].name # s[p].name
    <3> SUFFICES ASSUME f # 1, s[f - 1].name = s[p].name PROVE FALSE
      OBVIOUS
    <3>1. f - 1 \in 1..p /\ \A r \in (f - 1)..p : r = f - 1 \/ r \in f..p
      BY <2>4
    <3>2. f - 1 \in same
      BY <2>4, <3>1
    <3> QED
      BY <2>3, <2>4, <3>2
  <2>7. marked(f)
    BY <1>3, <1>4, <2>5, <2>6
  <2> HIDE DEF marked
  <2>8. f \in H /\ H \subseteq 0..p
    BY <1>1, <2>1, <2>4, <2>7
  <2>9. m \in H /\ \A x \in H : x <= m
    <3> HIDE DEF H
    <3> QED
      BY <2>4, <2>8, LargestOf
  <2>10. m \in 1..p /\ f <= m
    BY <2>1, <2>8, <2>9
  <2> HIDE DEF m, headings
  <2>11. s[m].name = s[p].name /\ s[m].within = NoName
    <3>1. m \in f..p /\ m \in 1..Len(s)
      BY <1>1, <2>4, <2>10
    <3> QED
      BY <1>2, <2>4, <3>1
  <2>12. headings(p) # {}
    BY <2>8
  <2> QED
    BY <2>11, <2>12 DEF m
<1>5. ASSUME NEW p \in 0..Len(s), p # 0 => s[p].name = NoName
      PROVE  below(p) = NoName
  <2>1. ASSUME NEW q \in 1..p PROVE ~marked(q) /\ s[q].within = NoName
    <3>1. q \in 1..Len(s) /\ p \in 1..Len(s) /\ (q < p \/ q = p) /\ p # 0
      BY <1>1
    <3>2. s[q].name = NoName
      BY <1>1, <1>5, <3>1 DEF Tidy
    <3> QED
      BY <1>2, <3>1, <3>2
  <2>2. headings(p) = {}
    BY <2>1
  <2> QED
    BY <2>2
<1>6. Reread(s) = [p \in DOMAIN s |->
         Note(s[p].id, IF marked(p) THEN s[p].name ELSE below(p - 1), NoName)]
  BY DEF Reread
<1>7. ASSUME NEW p \in 1..Len(s) PROVE (IF marked(p) THEN s[p].name ELSE below(p - 1)) = s[p].name
  <2>1. CASE marked(p)
    BY <2>1
  <2>2. CASE ~marked(p) /\ s[p].name = NoName
    <3>1. p - 1 \in 0..Len(s) /\ (p - 1 # 0 => p - 1 \in DOMAIN s /\ p \in DOMAIN s /\ p - 1 < p)
      BY <1>1
    <3>2. p - 1 # 0 => s[p - 1].name = NoName
      BY <2>2, <3>1 DEF Tidy
    <3>3. below(p - 1) = NoName
      <4> HIDE DEF below
      <4> QED
        BY <1>5, <3>1, <3>2
    <3> HIDE DEF marked, below
    <3> QED
      BY <2>2, <3>3
  <2>3. CASE ~marked(p) /\ s[p].name # NoName
    <3>1. p # 1 /\ s[p - 1].name = s[p].name
      BY <1>3, <2>3
    <3>2. p - 1 \in 1..Len(s)
      BY <1>1, <3>1
    <3>3. below(p - 1) = s[p - 1].name
      <4> HIDE DEF below
      <4> QED
        BY <1>4, <2>3, <3>1, <3>2
    <3> HIDE DEF marked, below
    <3> QED
      BY <2>3, <3>1, <3>3
  <2> QED
    BY <2>1, <2>2, <2>3
<1> HIDE DEF marked, below
<1>8. Reread(s) = [p \in 1..Len(s) |-> s[p]]
  BY <1>1, <1>2, <1>6, <1>7
<1>9. s = [p \in 1..Len(s) |-> s[p]]
  BY <1>1
<1> QED
  BY <1>8, <1>9
\* A new note x may stand before place k.
MayStand(s, k, x) ==
  /\ k \in 1..(Len(s) + 1)
  /\ x.id \in Ids => \A q \in DOMAIN s : s[q].id # x.id
  /\ x.name = NoName => \A q \in DOMAIN s : q < k => s[q].name = NoName
  /\ x.name # NoName => \A q \in DOMAIN s : q >= k => s[q].name # NoName

\* A note put in where its group allows it.
LEMMA NotePutIn ==
  ASSUME NEW s, Tidy(s), NEW x \in NoteLines, NEW k, MayStand(s, k, x)
  PROVE  Tidy(Spliced(s, k, <<x>>)) /\ ToSet(Spliced(s, k, <<x>>)) = ToSet(s) \cup {x}
<1> DEFINE b == <<x>>
           t == Spliced(s, k, b)
<1>1. s \in Seq(NoteLines) /\ k \in Nat /\ k \in 1..(Len(s) + 1) /\ \A q \in DOMAIN s : q \in Nat
  BY DEF Tidy, MayStand
<1>2. b \in Seq(NoteLines) /\ Len(b) = 1 /\ DOMAIN b = 1..1 /\ b[1] = x
  OBVIOUS
<1>3. ToSet(b) = {x}
  BY <1>2 DEF ToSet
<1> HIDE DEF b
<1>4. ToSet(t) = ToSet(s) \cup {x}
  BY <1>1, <1>2, <1>3, SplicedSet
<1>5. t \in Seq(NoteLines) /\ \A y \in DOMAIN t : y \in Nat
  <2>1. t \in Seq(NoteLines)
    BY <1>1, <1>2, SplicedIs
  <2> HIDE DEF t
  <2> QED
    BY <2>1
<1>6. ASSUME NEW y \in DOMAIN t
      PROVE  \/ \E q \in DOMAIN s : t[y] = s[q] /\ y = IF q < k THEN q ELSE q + 1
             \/ t[y] = x /\ y = k
  <2>1. \/ \E q \in DOMAIN s : t[y] = s[q] /\ (q < k => y = q) /\ (q >= k => y = q + Len(b))
        \/ \E j \in DOMAIN b : t[y] = b[j] /\ y = k - 1 + j
    <3>1. s \in Seq(NoteLines) /\ b \in Seq(NoteLines) /\ k \in 1..(Len(s) + 1) /\ y \in DOMAIN Spliced(s, k, b)
      BY <1>1, <1>2
    <3> HIDE DEF t
    <3>2. \/ \E q \in DOMAIN s : /\ Spliced(s, k, b)[y] = s[q]
                                 /\ q < k => y = q
                                 /\ q >= k => y = q + Len(b)
          \/ \E j \in DOMAIN b : Spliced(s, k, b)[y] = b[j] /\ y = k - 1 + j
      BY <3>1, SplicedFrom
    <3> QED
      BY <3>2 DEF t
  <2> HIDE DEF t
  <2>2. CASE \E q \in DOMAIN s : t[y] = s[q] /\ (q < k => y = q) /\ (q >= k => y = q + Len(b))
    <3>1. PICK q \in DOMAIN s : t[y] = s[q] /\ (q < k => y = q) /\ (q >= k => y = q + 1)
      BY <1>2, <2>2
    <3>2. y = IF q < k THEN q ELSE q + 1
      BY <1>1, <3>1
    <3> QED
      BY <3>1, <3>2
  <2>3. CASE \E j \in DOMAIN b : t[y] = b[j] /\ y = k - 1 + j
    <3>1. t[y] = b[1] /\ y = k - 1 + 1
      BY <1>2, <2>3
    <3> QED
      BY <1>1, <1>2, <3>1
  <2> QED
    BY <2>1, <2>2, <2>3
<1> HIDE DEF t
<1>7. ASSUME NEW y \in DOMAIN t, NEW z \in DOMAIN t, t[y].id = t[z].id, t[y].id \in Ids
      PROVE  y = z
  <2>1. CASE t[y] = x /\ y = k
    BY <1>6, <1>7, <2>1 DEF MayStand
  <2>2. CASE t[z] = x /\ z = k
    BY <1>6, <1>7, <2>2 DEF MayStand
  <2>3. ASSUME NEW q \in DOMAIN s, t[y] = s[q], y = IF q < k THEN q ELSE q + 1,
               NEW p \in DOMAIN s, t[z] = s[p], z = IF p < k THEN p ELSE p + 1
        PROVE  y = z
    <3>1. q = p
      BY <1>7, <2>3 DEF Tidy
    <3> QED
      BY <2>3, <3>1
  <2> QED
    BY <1>6, <2>1, <2>2, <2>3
<1>8. ASSUME NEW y \in DOMAIN t, NEW z \in DOMAIN t, y < z, t[z].name = NoName
      PROVE  t[y].name = NoName
  <2>1. CASE t[y] = x /\ y = k
    <3>1. PICK p \in DOMAIN s : t[z] = s[p] /\ z = IF p < k THEN p ELSE p + 1
      BY <1>1, <1>6, <1>8, <2>1
    <3>2. p >= k
      BY <1>1, <1>8, <2>1, <3>1
    <3> QED
      BY <1>8, <2>1, <3>1, <3>2 DEF MayStand
  <2>2. CASE t[z] = x /\ z = k
    <3>1. PICK p \in DOMAIN s : t[y] = s[p] /\ y = IF p < k THEN p ELSE p + 1
      BY <1>1, <1>6, <1>8, <2>2
    <3>2. p < k
      BY <1>1, <1>8, <2>2, <3>1
    <3> QED
      BY <1>8, <2>2, <3>1, <3>2 DEF MayStand
  <2>3. ASSUME NEW q \in DOMAIN s, t[y] = s[q], y = IF q < k THEN q ELSE q + 1,
               NEW p \in DOMAIN s, t[z] = s[p], z = IF p < k THEN p ELSE p + 1
        PROVE  t[y].name = NoName
    <3>1. q < p
      BY <1>1, <1>8, <2>3
    <3> QED
      BY <1>8, <2>3, <3>1 DEF Tidy
  <2> QED
    BY <1>6, <2>1, <2>2, <2>3
<1>9. Tidy(t)
  BY <1>5, <1>7, <1>8 DEF Tidy
<1> QED
  BY <1>4, <1>9 DEF t, b

\* A note taken out.
LEMMA NoteTakenOut ==
  ASSUME NEW s, Tidy(s), NEW k \in DOMAIN s
  PROVE  /\ Tidy(RemoveAt(s, k)) /\ Len(RemoveAt(s, k)) = Len(s) - 1
         /\ \A q \in DOMAIN s : q # k => s[q] \in ToSet(RemoveAt(s, k))
         /\ \A x : x \in ToSet(RemoveAt(s, k)) => \E q \in DOMAIN s : q # k /\ s[q] = x
<1> DEFINE t == RemoveAt(s, k)
           n == Len(s)
<1>1. s \in Seq(NoteLines) /\ k \in 1..Len(s) /\ DOMAIN s = 1..n
      /\ n \in Nat /\ k \in Nat /\ k >= 1 /\ k <= n
  BY DEF Tidy
<1>2. t \in Seq(NoteLines) /\ Len(t) = n - 1 /\ DOMAIN t = 1..(n - 1)
      /\ (\A q \in 1..(k - 1) : t[q] = s[q]) /\ (\A q \in k+1..n : t[q - 1] = s[q])
  <2>1. /\ t \in Seq(NoteLines) /\ Len(t) = Len(s) - 1
        /\ \A q \in 1..(k - 1) : t[q] = s[q]
        /\ \A q \in k+1..Len(s) : t[q - 1] = s[q]
    BY <1>1, RemovedIs
  <2> HIDE DEF t
  <2> QED
    BY <2>1
<1>3. ASSUME NEW x \in DOMAIN t
      PROVE  \E q \in DOMAIN s : q # k /\ t[x] = s[q] /\ q = IF x < k THEN x ELSE x + 1
  BY <1>1, RemovedFrom
<1> HIDE DEF t, n
<1>4. ASSUME NEW q \in 1..n, q # k PROVE s[q] \in ToSet(t)
  <2>1. CASE q < k
    <3>1. q \in 1..(k - 1) /\ q \in 1..(n - 1)
      BY <1>1, <2>1
    <3> QED
      BY <1>2, <3>1, InToSet
  <2>2. CASE q > k
    <3>1. q \in k+1..n /\ q - 1 \in 1..(n - 1)
      BY <1>1, <2>2
    <3> QED
      BY <1>2, <3>1, InToSet
  <2> QED
    BY <1>1, <1>4, <2>1, <2>2
<1>5. ASSUME NEW x, x \in ToSet(t) PROVE \E q \in DOMAIN s : q # k /\ s[q] = x
  <2>1. PICK y \in DOMAIN t : t[y] = x
    BY <1>5, InToSet
  <2> QED
    BY <1>3, <2>1
<1>6. ASSUME NEW y \in DOMAIN t, NEW z \in DOMAIN t, t[y].id = t[z].id, t[y].id \in Ids
      PROVE  y = z
  <2>1. PICK q \in DOMAIN s : t[y] = s[q] /\ q = IF y < k THEN y ELSE y + 1
    BY <1>3
  <2>2. PICK p \in DOMAIN s : t[z] = s[p] /\ p = IF z < k THEN z ELSE z + 1
    BY <1>3
  <2>3. q = p
    BY <1>6, <2>1, <2>2 DEF Tidy
  <2>4. y \in Nat /\ z \in Nat
    BY <1>2
  <2> QED
    BY <1>1, <2>1, <2>2, <2>3, <2>4
<1>7. ASSUME NEW y \in DOMAIN t, NEW z \in DOMAIN t, y < z, t[z].name = NoName
      PROVE  t[y].name = NoName
  <2>1. PICK q \in DOMAIN s : t[y] = s[q] /\ q = IF y < k THEN y ELSE y + 1
    BY <1>3
  <2>2. PICK p \in DOMAIN s : t[z] = s[p] /\ p = IF z < k THEN z ELSE z + 1
    BY <1>3
  <2>3. y \in Nat /\ z \in Nat
    BY <1>2
  <2>4. q < p
    BY <1>1, <1>7, <2>1, <2>2, <2>3
  <2> QED
    BY <1>7, <2>1, <2>2, <2>4 DEF Tidy
<1>8. Tidy(t)
  BY <1>2, <1>6, <1>7 DEF Tidy
<1> QED
  BY <1>1, <1>2, <1>4, <1>5, <1>8 DEF t, n

\* Some of the notes.
LEMMA NotesKept ==
  ASSUME NEW s, Tidy(s), NEW S, S \subseteq DOMAIN s
  PROVE  /\ Tidy(LinesAt(s, S))
         /\ \A x : x \in ToSet(LinesAt(s, S)) <=> \E p \in S : s[p] = x
<1> DEFINE t == LinesAt(s, S)
           n == Cardinality(S)
<1>1. s \in Seq(NoteLines) /\ \A p \in S : p \in Nat
  BY DEF Tidy
<1>2. PICK f \in [1..n -> S] :
        /\ t \in Seq(NoteLines) /\ Len(t) = n /\ n \in Nat
        /\ \A j \in 1..n : t[j] = s[f[j]]
        /\ \A i, j \in 1..n : i < j => f[i] < f[j]
        /\ \A p \in S : \E j \in 1..n : f[j] = p
  <2>1. \E f \in [1..Cardinality(S) -> S] :
          /\ LinesAt(s, S) \in Seq(NoteLines) /\ Len(LinesAt(s, S)) = Cardinality(S) /\ Cardinality(S) \in Nat
          /\ \A j \in 1..Cardinality(S) : LinesAt(s, S)[j] = s[f[j]]
          /\ \A i, j \in 1..Cardinality(S) : i < j => f[i] < f[j]
          /\ \A p \in S : \E j \in 1..Cardinality(S) : f[j] = p
    <3> HIDE DEF t, n
    <3>1. s \in Seq(NoteLines) /\ S \subseteq DOMAIN s
      BY <1>1
    <3> QED
      BY <3>1, LinesAtIs
  <2> QED
    BY <2>1
<1>3. DOMAIN t = 1..n /\ \A j \in 1..n : f[j] \in S /\ f[j] \in Nat /\ j \in Nat /\ f[j] \in DOMAIN s
  BY <1>1, <1>2
<1> HIDE DEF t, n
<1>4. ASSUME NEW i \in 1..n, NEW j \in 1..n, t[i].id = t[j].id, t[i].id \in Ids PROVE i = j
  <2>1. f[i] = f[j]
    BY <1>2, <1>3, <1>4 DEF Tidy
  <2>2. ~(i < j) /\ ~(j < i)
    BY <1>2, <1>3, <2>1
  <2> QED
    BY <1>3, <2>2
<1>5. ASSUME NEW i \in 1..n, NEW j \in 1..n, i < j, t[j].name = NoName PROVE t[i].name = NoName
  <2>1. f[i] < f[j]
    BY <1>2, <1>5
  <2> QED
    BY <1>2, <1>3, <1>5, <2>1, SMTT(30) DEF Tidy
<1>6. ASSUME NEW x, x \in ToSet(t) PROVE \E p \in S : s[p] = x
  <2>1. PICK j \in 1..n : t[j] = x
    BY <1>3, <1>6, InToSet
  <2> QED
    BY <1>2, <1>3, <2>1
<1>7. ASSUME NEW p \in S PROVE s[p] \in ToSet(t)
  <2>1. PICK j \in 1..n : f[j] = p
    BY <1>2
  <2>2. t[j] = s[p]
    BY <1>2, <2>1
  <2> QED
    BY <1>3, <2>2, InToSet
<1>8. Tidy(t)
  <2>1. t \in Seq(NoteLines) /\ DOMAIN t = 1..n
    BY <1>2, <1>3
  <2> QED
    BY <1>4, <1>5, <2>1 DEF Tidy
<1> QED
  BY <1>6, <1>7, <1>8 DEF t
\* A note that is moved has its new group, and nothing else changes.
LEMMA MoveNoteIs ==
  ASSUME NEW s, Tidy(s), NEW p \in DOMAIN s, NEW g \in Names \cup {NoName}
  PROVE  /\ Tidy(MoveNote(s, p, g))
         /\ \A x : x \in ToSet(MoveNote(s, p, g)) <=>
              \/ \E q \in DOMAIN s : q # p /\ s[q] = x
              \/ x = Note(s[p].id, g, NoName)
<1> DEFINE rest == RemoveAt(s, p)
           moved == Note(s[p].id, g, NoName)
           tail == {q \in DOMAIN rest : rest[q].name = g}
           first == FirstFrom(rest, 1, LAMBDA n : n.name # NoName)
           end == IF g = NoName THEN first
                  ELSE IF tail = {} THEN Len(rest) + 1
                  ELSE Max(tail) + 1
           t == MoveNote(s, p, g)
<1>1. s \in Seq(NoteLines) /\ s[p] \in NoteLines
  BY DEF Tidy
<1>2. /\ moved \in NoteLines /\ moved.id = s[p].id /\ moved.name = g
      /\ moved = [s[p] EXCEPT !.name = g] /\ (s[p].name = g => moved = s[p])
  BY <1>1 DEF NoteLines, Note
<1> HIDE DEF moved
<1>3. CASE s[p].name = g
  <2>1. t = s
    BY <1>3 DEF MoveNote
  <2> HIDE DEF t
  <2>2. \A x : x \in ToSet(s) <=> (\E q \in DOMAIN s : q # p /\ s[q] = x) \/ x = s[p]
    BY InToSet
  <2> QED
    BY <1>2, <1>3, <2>1, <2>2 DEF t, moved
<1>4. CASE s[p].name # g
  <2>1. t = Spliced(rest, end, <<moved>>)
    BY <1>2, <1>4 DEF MoveNote, InsertAt, Spliced
  <2> HIDE DEF t
  <2>2. /\ Tidy(rest)
        /\ \A q \in DOMAIN s : q # p => s[q] \in ToSet(rest)
        /\ \A x : x \in ToSet(rest) => \E q \in DOMAIN s : q # p /\ s[q] = x
    BY NoteTakenOut
  <2> HIDE DEF rest
  <2>3. rest \in Seq(NoteLines) /\ DOMAIN rest = 1..Len(rest) /\ Len(rest) \in Nat
    BY <2>2 DEF Tidy
  <2>4. moved.id \in Ids => \A q \in DOMAIN rest : rest[q].id # moved.id
    <3> SUFFICES ASSUME moved.id \in Ids, NEW q \in DOMAIN rest, rest[q].id = moved.id PROVE FALSE
      OBVIOUS
    <3>1. rest[q] \in ToSet(rest)
      BY InToSet
    <3>2. PICK r \in DOMAIN s : r # p /\ s[r] = rest[q]
      BY <2>2, <3>1
    <3> QED
      BY <1>2, <3>2 DEF Tidy
  <2>5. CASE g = NoName
    <3> DEFINE S == {q \in 1..Len(rest) : rest[q].name # NoName} \cup {Len(rest) + 1}
    <3>1. end = Min(S)
      BY <2>5 DEF FirstFrom
    <3>2. S \subseteq Nat /\ S # {} /\ S \subseteq 1..(Len(rest) + 1)
      BY <2>3
    <3> HIDE DEF end
    <3>3. end \in S /\ \A x \in S : end <= x
      <4> HIDE DEF S
      <4> QED
        BY <3>1, <3>2, SmallestOf
    <3>4. end \in 1..(Len(rest) + 1)
      BY <3>2, <3>3
    <3>5. ASSUME NEW q \in DOMAIN rest, q < end PROVE rest[q].name = NoName
      <4>1. q \notin S
        BY <2>3, <3>3, <3>4, <3>5
      <4> QED
        BY <2>3, <4>1
    <3>6. Tidy(t) /\ ToSet(t) = ToSet(rest) \cup {moved}
      <4>1. MayStand(rest, end, moved)
        BY <1>2, <2>4, <2>5, <3>4, <3>5 DEF MayStand
      <4> QED
        BY <1>2, <2>1, <2>2, <4>1, NotePutIn
    <3> QED
      BY <2>2, <3>6 DEF t, moved
  <2>6. CASE g # NoName
    <3>1. end \in 1..(Len(rest) + 1) /\ \A q \in DOMAIN rest : q >= end => rest[q].name # NoName
      <4>1. CASE tail = {}
        <5>1. end = Len(rest) + 1
          BY <2>6, <4>1
        <5> HIDE DEF end
        <5> QED
          BY <2>3, <5>1
      <4>2. CASE tail # {}
        <5> DEFINE m == Max(tail)
        <5>1. end = m + 1
          BY <2>6, <4>2
        <5>2. tail \subseteq 0..Len(rest)
          BY <2>3
        <5>3. m \in tail
          <6> HIDE DEF tail
          <6> QED
            BY <2>3, <4>2, <5>2, LargestOf
        <5>4. m \in DOMAIN rest /\ rest[m].name = g
          BY <5>3
        <5> HIDE DEF end, m
        <5>5. ASSUME NEW q \in DOMAIN rest, q >= end PROVE rest[q].name # NoName
          <6>1. m < q
            BY <2>3, <5>1, <5>4, <5>5
          <6> QED
            BY <2>2, <2>6, <5>4, <6>1 DEF Tidy
        <5> QED
          BY <2>3, <5>1, <5>4, <5>5
      <4> QED
        BY <4>1, <4>2
    <3> HIDE DEF end
    <3>2. Tidy(t) /\ ToSet(t) = ToSet(rest) \cup {moved}
      <4>1. MayStand(rest, end, moved)
        BY <1>2, <2>4, <2>6, <3>1 DEF MayStand
      <4> QED
        BY <1>2, <2>1, <2>2, <4>1, NotePutIn
    <3> QED
      BY <2>2, <3>2 DEF t, moved
  <2> QED
    BY <2>5, <2>6
<1> QED
  BY <1>3, <1>4

\* A group that is renamed takes its notes along.
LEMMA RenameNotesIs ==
  ASSUME NEW s, Tidy(s), NEW g \in Names, NEW u \in Names
  PROVE  /\ Tidy(RenameNotes(s, g, u)) /\ DOMAIN RenameNotes(s, g, u) = DOMAIN s
         /\ \A p \in DOMAIN s : RenameNotes(s, g, u)[p] =
              Note(s[p].id, IF s[p].name = g THEN u ELSE s[p].name, NoName)
<1> DEFINE t == RenameNotes(s, g, u)
           new(p) == Note(s[p].id, IF s[p].name = g THEN u ELSE s[p].name, NoName)
<1>1. s \in Seq(NoteLines) /\ DOMAIN s = 1..Len(s) /\ Len(s) \in Nat
  BY DEF Tidy
<1>2. ASSUME NEW p \in DOMAIN s
      PROVE  /\ new(p) \in NoteLines /\ new(p).id = s[p].id
             /\ new(p).name = NoName <=> s[p].name = NoName
             /\ new(p) = IF s[p].name = g THEN [s[p] EXCEPT !.name = u] ELSE s[p]
  <2>1. s[p] \in NoteLines
    BY <1>1
  <2>2. NoName \notin Names
    BY NoteLineIs
  <2> QED
    BY <2>1, <2>2 DEF NoteLines, Note
<1>3. t = [p \in 1..Len(s) |-> new(p)]
  BY <1>1, <1>2 DEF RenameNotes
<1> HIDE DEF t
<1>4. t \in Seq(NoteLines) /\ DOMAIN t = DOMAIN s /\ \A p \in DOMAIN s : t[p] = new(p)
  <2> HIDE DEF new
  <2> QED
    BY <1>1, <1>2, <1>3
<1> HIDE DEF new
<1>5. \A p, q \in DOMAIN t : t[p].id = t[q].id /\ t[p].id \in Ids => p = q
  BY <1>2, <1>4 DEF Tidy
<1>6. \A p, q \in DOMAIN t : p < q /\ t[q].name = NoName => t[p].name = NoName
  BY <1>2, <1>4 DEF Tidy
<1> QED
  BY <1>4, <1>5, <1>6 DEF Tidy, t, new

\* A group that is dropped: its notes are without one, the blank ones are gone.
LEMMA DropNotesIs ==
  ASSUME NEW s, Tidy(s), NEW g \in Names
  PROVE  /\ Tidy(DropNotes(s, g))
         /\ \A x : x \in ToSet(DropNotes(s, g)) <=>
              \E p \in DOMAIN s :
                \/ s[p].name = g /\ s[p].id # Placeholder /\ x = Note(s[p].id, NoName, NoName)
                \/ s[p].name # g /\ x = s[p]
<1> DEFINE M == {p \in DOMAIN s : s[p].name = g}
           K == {p \in M : s[p].id # Placeholder}
           O == DOMAIN s \ M
           kept == LinesAt(s, K)
           rest == LinesAt(s, O)
           bare == [p \in DOMAIN kept |-> [kept[p] EXCEPT !.name = NoName]]
           t == DropNotes(s, g)
<1>1. s \in Seq(NoteLines) /\ K \subseteq DOMAIN s /\ O \subseteq DOMAIN s
  BY DEF Tidy
<1>2. t = bare \o rest
  BY DEF DropNotes
<1>3. /\ \A p \in DOMAIN s : p \in K <=> s[p].name = g /\ s[p].id # Placeholder
      /\ \A p \in DOMAIN s : p \in O <=> s[p].name # g
  OBVIOUS
<1> HIDE DEF K, O
<1>4. /\ Tidy(kept) /\ \A x : x \in ToSet(kept) <=> \E p \in K : s[p] = x
      /\ Tidy(rest) /\ \A x : x \in ToSet(rest) <=> \E p \in O : s[p] = x
  BY <1>1, NotesKept
<1> HIDE DEF kept, rest
<1>5. /\ kept \in Seq(NoteLines) /\ DOMAIN kept = 1..Len(kept) /\ Len(kept) \in Nat
      /\ rest \in Seq(NoteLines) /\ DOMAIN rest = 1..Len(rest) /\ Len(rest) \in Nat
  BY <1>4 DEF Tidy
<1>6. ASSUME NEW p \in 1..Len(kept)
      PROVE  [kept[p] EXCEPT !.name = NoName] = Note(kept[p].id, NoName, NoName)
             /\ Note(kept[p].id, NoName, NoName) \in NoteLines
  <2>1. kept[p] \in NoteLines
    BY <1>5
  <2> QED
    BY <2>1 DEF NoteLines, Note
<1>7. bare = [p \in 1..Len(kept) |-> Note(kept[p].id, NoName, NoName)]
  BY <1>5, <1>6
<1> HIDE DEF bare
<1>8. bare \in Seq(NoteLines) /\ Len(bare) = Len(kept) /\ DOMAIN bare = 1..Len(kept)
      /\ \A p \in 1..Len(kept) : bare[p] = Note(kept[p].id, NoName, NoName)
  <2> DEFINE new(p) == Note(kept[p].id, NoName, NoName)
  <2>1. \A p \in 1..Len(kept) : new(p) \in NoteLines
    BY <1>6
  <2>2. bare = [p \in 1..Len(kept) |-> new(p)]
    BY <1>7
  <2> HIDE DEF new
  <2>3. bare \in Seq(NoteLines) /\ Len(bare) = Len(kept) /\ DOMAIN bare = 1..Len(kept)
        /\ \A p \in 1..Len(kept) : bare[p] = new(p)
    BY <1>5, <2>1, <2>2
  <2> QED
    BY <2>3 DEF new
<1>9. /\ t \in Seq(NoteLines) /\ Len(t) = Len(kept) + Len(rest)
      /\ \A q \in 1..Len(kept) : t[q] = bare[q]
      /\ \A j \in 1..Len(rest) : t[Len(kept) + j] = rest[j]
  <2>1. /\ bare \o rest \in Seq(NoteLines) /\ Len(bare \o rest) = Len(bare) + Len(rest)
        /\ \A q \in 1..Len(bare) : (bare \o rest)[q] = bare[q]
        /\ \A j \in 1..Len(rest) : (bare \o rest)[Len(bare) + j] = rest[j]
    <3>1. bare \in Seq(NoteLines) /\ rest \in Seq(NoteLines)
      BY <1>5, <1>8
    <3> HIDE DEF t
    <3> QED
      BY <3>1, JoinedIs
  <2> HIDE DEF t
  <2> QED
    BY <1>2, <1>8, <2>1
<1> HIDE DEF t
<1>10. DOMAIN t = 1..(Len(kept) + Len(rest))
  BY <1>5, <1>9
<1>11. ASSUME NEW y \in DOMAIN t
       PROVE  \/ /\ y \in DOMAIN kept /\ t[y] = Note(kept[y].id, NoName, NoName)
              \/ \E j \in DOMAIN rest : y = Len(kept) + j /\ t[y] = rest[j]
  <2>1. CASE y <= Len(kept)
    <3>1. y \in 1..Len(kept)
      BY <1>5, <1>10, <2>1
    <3> QED
      BY <1>5, <1>8, <1>9, <3>1
  <2>2. CASE ~(y <= Len(kept))
    <3>1. y - Len(kept) \in 1..Len(rest) /\ y = Len(kept) + (y - Len(kept))
      BY <1>5, <1>10, <2>2
    <3> QED
      BY <1>5, <1>9, <3>1
  <2> QED
    BY <2>1, <2>2
<1>12. ASSUME NEW y \in DOMAIN kept
       PROVE  /\ kept[y].id \in Ids \cup {Placeholder} /\ Note(kept[y].id, NoName, NoName).id = kept[y].id
              /\ Note(kept[y].id, NoName, NoName).name = NoName
  BY <1>5, NoteLineIs
<1>13. ASSUME NEW y \in DOMAIN kept, NEW j \in DOMAIN rest, kept[y].id \in Ids PROVE kept[y].id # rest[j].id
  <2>1. kept[y] \in ToSet(kept) /\ rest[j] \in ToSet(rest)
    BY InToSet
  <2>2. PICK p \in K : s[p] = kept[y]
    BY <1>4, <2>1
  <2>3. PICK q \in O : s[q] = rest[j]
    BY <1>4, <2>1
  <2>4. p # q
    BY <1>1, <1>3, <2>2, <2>3
  <2> QED
    BY <1>1, <1>13, <2>2, <2>3, <2>4 DEF Tidy
<1>14. ASSUME NEW y \in DOMAIN t, NEW z \in DOMAIN t, t[y].id = t[z].id, t[y].id \in Ids PROVE y = z
  <2>1. CASE y \in DOMAIN kept /\ t[y] = Note(kept[y].id, NoName, NoName)
    <3>1. CASE z \in DOMAIN kept /\ t[z] = Note(kept[z].id, NoName, NoName)
      BY <1>4, <1>12, <1>14, <2>1, <3>1 DEF Tidy
    <3>2. CASE \E j \in DOMAIN rest : z = Len(kept) + j /\ t[z] = rest[j]
      BY <1>12, <1>13, <1>14, <2>1, <3>2
    <3> QED
      BY <1>11, <3>1, <3>2
  <2>2. CASE \E j \in DOMAIN rest : y = Len(kept) + j /\ t[y] = rest[j]
    <3>1. CASE z \in DOMAIN kept /\ t[z] = Note(kept[z].id, NoName, NoName)
      BY <1>12, <1>13, <1>14, <2>2, <3>1
    <3>2. CASE \E j \in DOMAIN rest : z = Len(kept) + j /\ t[z] = rest[j]
      BY <1>4, <1>14, <2>2, <3>2 DEF Tidy
    <3> QED
      BY <1>11, <3>1, <3>2
  <2> QED
    BY <1>11, <2>1, <2>2
<1>15. ASSUME NEW y \in DOMAIN t, NEW z \in DOMAIN t, y < z, t[z].name = NoName PROVE t[y].name = NoName
  <2>1. CASE y \in DOMAIN kept /\ t[y] = Note(kept[y].id, NoName, NoName)
    BY <1>12, <2>1
  <2>2. ASSUME NEW i \in DOMAIN rest, y = Len(kept) + i, t[y] = rest[i] PROVE t[y].name = NoName
    <3>1. z \notin DOMAIN kept
      BY <1>5, <1>10, <1>15, <2>2
    <3>2. PICK j \in DOMAIN rest : z = Len(kept) + j /\ t[z] = rest[j]
      BY <1>11, <3>1
    <3>3. i < j
      BY <1>5, <1>15, <2>2, <3>2
    <3> QED
      BY <1>4, <1>15, <2>2, <3>2, <3>3 DEF Tidy
  <2> QED
    BY <1>11, <2>1, <2>2
<1>16. ASSUME NEW x, x \in ToSet(t)
       PROVE  \E p \in DOMAIN s :
                \/ s[p].name = g /\ s[p].id # Placeholder /\ x = Note(s[p].id, NoName, NoName)
                \/ s[p].name # g /\ x = s[p]
  <2>1. PICK y \in DOMAIN t : t[y] = x
    BY <1>16, InToSet
  <2>2. CASE y \in DOMAIN kept /\ t[y] = Note(kept[y].id, NoName, NoName)
    <3>1. PICK p \in K : s[p] = kept[y]
      BY <1>4, <2>2, InToSet
    <3> QED
      BY <1>1, <1>3, <2>1, <2>2, <3>1
  <2>3. CASE \E j \in DOMAIN rest : y = Len(kept) + j /\ t[y] = rest[j]
    <3>1. x \in ToSet(rest)
      BY <2>1, <2>3, InToSet
    <3>2. PICK p \in O : s[p] = x
      BY <1>4, <3>1
    <3> QED
      BY <1>1, <1>3, <3>2
  <2> QED
    BY <1>11, <2>2, <2>3
<1>17. ASSUME NEW p \in DOMAIN s, s[p].name = g, s[p].id # Placeholder
       PROVE  Note(s[p].id, NoName, NoName) \in ToSet(t)
  <2>1. p \in K
    BY <1>3, <1>17
  <2>2. PICK y \in DOMAIN kept : kept[y] = s[p]
    <3>1. s[p] \in ToSet(kept)
      BY <1>4, <2>1
    <3> QED
      BY <3>1, InToSet
  <2>3. y \in DOMAIN t /\ t[y] = Note(s[p].id, NoName, NoName)
    BY <1>5, <1>8, <1>9, <1>10, <2>2
  <2> QED
    BY <2>3, InToSet
<1>18. ASSUME NEW p \in DOMAIN s, s[p].name # g PROVE s[p] \in ToSet(t)
  <2>1. p \in O
    BY <1>3, <1>18
  <2>2. PICK j \in DOMAIN rest : rest[j] = s[p]
    <3>1. s[p] \in ToSet(rest)
      BY <1>4, <2>1
    <3> QED
      BY <3>1, InToSet
  <2>3. Len(kept) + j \in DOMAIN t /\ t[Len(kept) + j] = s[p]
    BY <1>5, <1>9, <1>10, <2>2
  <2> QED
    BY <2>3, InToSet
<1>19. Tidy(t)
  BY <1>9, <1>14, <1>15 DEF Tidy
<1> QED
  BY <1>16, <1>17, <1>18, <1>19 DEF t
Files(s, i, g) == Note(i, g, NoName) \in ToSet(s)
InNotes(s, i) == \E x \in ToSet(s) : x.id = i

NotesMoved(op, s, t) ==
  /\ Tidy(t)
  /\ \A i \in Ids : InNotes(t, i) <=>
       \/ InNotes(s, i) /\ ~(op.act = "delete" /\ i = Named(op, s))
       \/ op.act \in {"add", "fill"} /\ i = op.id
  /\ \A i \in Ids : \A g : Files(s, i, g) /\ InNotes(t, i) => Files(t, i, Goes(op, s, i, g))

LEMMA TidyIs ==
  ASSUME NEW s, Tidy(s)
  PROVE  /\ s \in Seq(NoteLines) /\ DOMAIN s = 1..Len(s) /\ Len(s) \in Nat
         /\ \A q \in DOMAIN s : s[q] = Note(s[q].id, s[q].name, NoName)
         /\ \A i, g : Note(i, g, NoName).id = i /\ Note(i, g, NoName).name = g
         /\ \A q \in DOMAIN s : \A i : s[q].id = i => InNotes(s, i)
         /\ \A i : InNotes(s, i) => \E q \in DOMAIN s : s[q].id = i
         /\ \A i, g : Files(s, i, g) <=> \E q \in DOMAIN s : s[q].id = i /\ s[q].name = g
<1>1. s \in Seq(NoteLines) /\ DOMAIN s = 1..Len(s) /\ Len(s) \in Nat
  BY DEF Tidy
<1>2. \A q \in DOMAIN s : s[q] = Note(s[q].id, s[q].name, NoName)
  BY <1>1, NoteLineIs
<1>3. \A i, g : Note(i, g, NoName).id = i /\ Note(i, g, NoName).name = g
  BY DEF Note
<1>4. \A q \in DOMAIN s : \A i : s[q].id = i => InNotes(s, i)
  BY InToSet DEF InNotes
<1>5. \A i : InNotes(s, i) => \E q \in DOMAIN s : s[q].id = i
  BY InToSet DEF InNotes
<1>6. ASSUME NEW i, NEW g PROVE Files(s, i, g) <=> \E q \in DOMAIN s : s[q].id = i /\ s[q].name = g
  <2>1. Files(s, i, g) <=> \E q \in DOMAIN s : s[q] = Note(i, g, NoName)
    BY InToSet DEF Files
  <2> QED
    BY <1>2, <1>3, <2>1
<1> QED
  BY <1>1, <1>2, <1>3, <1>4, <1>5, <1>6

\* Each rewrite of notes.md does what its request asks.
LEMMA NotesAfterIs ==
  ASSUME Written = {}, NEW s, Tidy(s), NEW op \in Ops, NotesAllow(op, s)
  PROVE  NotesMoved(op, s, NotesAfter(op, s))
<1> DEFINE t == NotesAfter(op, s)
<1>1. s \in Seq(NoteLines) /\ DOMAIN s = 1..Len(s) /\ Len(s) \in Nat
  BY TidyIs
<1>2. CASE op.act = "add"
  <2> DEFINE x == Note(op.id, NoName, NoName)
  <2>1. t = <<x>> \o s /\ op.id \in Ids
    BY <1>2 DEF NotesAfter, Ops
  <2>2. x \in NoteLines /\ x.id = op.id /\ x.name = NoName
    BY <2>1, NoteLineIs
  <2> HIDE DEF x, t
  <2>3. MayStand(s, 1, x)
    <3>1. \A q \in DOMAIN s : s[q].id # op.id
      BY <1>2 DEF NotesAllow
    <3> QED
      BY <1>1, <2>2, <3>1 DEF MayStand
  <2>4. t = Spliced(s, 1, <<x>>)
    <3>1. SubSeq(s, 1, 1 - 1) = <<>> /\ SubSeq(s, 1, Len(s)) = s
      BY <1>1
    <3>2. <<>> \o <<x>> = <<x>>
      OBVIOUS
    <3> QED
      BY <2>1, <3>1, <3>2 DEF Spliced
  <2>5. Tidy(t) /\ ToSet(t) = ToSet(s) \cup {x}
    BY <2>2, <2>3, <2>4, NotePutIn
  <2>6. \A i, g : Goes(op, s, i, g) = g
    BY <1>2 DEF Goes
  <2> QED
    BY <1>2, <2>2, <2>5, <2>6 DEF NotesMoved, InNotes, Files, t
<1>3. CASE op.act = "fill"
  <2> DEFINE at == op.at
             x == Note(op.id, s[at].name, NoName)
  <2>1. op.id \in Ids /\ op.within = NoName
    BY <1>3 DEF Ops
  <2>2. at \in DOMAIN s /\ s[at].id = Placeholder /\ \A q \in DOMAIN s : s[q].id # op.id
    BY <1>3 DEF NotesAllow
  <2>3. t = [s EXCEPT ![at] = x]
    BY <1>3, <2>1 DEF NotesAfter
  <2>4. x \in NoteLines /\ x.id = op.id /\ x.name = s[at].name
    <3>1. s[at] \in NoteLines
      BY <1>1, <2>2
    <3> QED
      BY <2>1, <3>1, NoteLineIs
  <2> HIDE DEF x, t, at
  <2>5. /\ t \in Seq(NoteLines) /\ DOMAIN t = DOMAIN s /\ t[at] = x
        /\ \A q \in DOMAIN s : q # at => t[q] = s[q]
    BY <1>1, <2>2, <2>3, <2>4
  <2>6. \A p, q \in DOMAIN t : t[p].id = t[q].id /\ t[p].id \in Ids => p = q
    <3> SUFFICES ASSUME NEW p \in DOMAIN t, NEW q \in DOMAIN t, t[p].id = t[q].id, t[p].id \in Ids
                 PROVE  p = q
      OBVIOUS
    <3>1. CASE p = at \/ q = at
      BY <2>2, <2>4, <2>5, <3>1
    <3>2. CASE p # at /\ q # at
      BY <2>5, <3>2 DEF Tidy
    <3> QED
      BY <3>1, <3>2
  <2>7. \A p, q \in DOMAIN t : p < q /\ t[q].name = NoName => t[p].name = NoName
    <3>1. \A q \in DOMAIN t : t[q].name = s[q].name
      BY <2>4, <2>5
    <3> QED
      BY <2>5, <3>1 DEF Tidy
  <2>8. Tidy(t)
    BY <2>5, <2>6, <2>7 DEF Tidy
  <2>9. ASSUME NEW i \in Ids, NEW q \in DOMAIN s, s[q].id = i PROVE t[q] = s[q] /\ i # op.id
    <3>1. Placeholder \notin Ids
      BY NoteLineIs
    <3> QED
      BY <2>2, <2>5, <2>9, <3>1
  <2>10. ASSUME NEW i \in Ids PROVE InNotes(t, i) <=> InNotes(s, i) \/ i = op.id
    <3>1. ASSUME InNotes(s, i) PROVE InNotes(t, i)
      <4>1. PICK q \in DOMAIN s : s[q].id = i
        BY <3>1, TidyIs
      <4> QED
        BY <2>5, <2>8, <2>9, <4>1, TidyIs
    <3>2. i = op.id => InNotes(t, i)
      BY <2>2, <2>4, <2>5, <2>8, TidyIs
    <3>3. ASSUME InNotes(t, i), i # op.id PROVE InNotes(s, i)
      <4>1. PICK q \in DOMAIN t : t[q].id = i
        BY <2>8, <3>3, TidyIs
      <4>2. t[q] = s[q] /\ q \in DOMAIN s
        BY <2>4, <2>5, <3>3, <4>1
      <4> QED
        BY <4>1, <4>2, TidyIs
    <3> QED
      BY <3>1, <3>2, <3>3
  <2>11. ASSUME NEW i \in Ids, NEW g, Files(s, i, g) PROVE Files(t, i, g)
    <3>1. PICK q \in DOMAIN s : s[q].id = i /\ s[q].name = g
      BY <2>11, TidyIs
    <3>2. t[q].id = i /\ t[q].name = g /\ q \in DOMAIN t
      BY <2>5, <2>9, <3>1
    <3> QED
      BY <2>8, <3>2, TidyIs
  <2>12. \A i, g : Goes(op, s, i, g) = g
    BY <1>3 DEF Goes
  <2> QED
    BY <1>3, <2>8, <2>10, <2>11, <2>12 DEF NotesMoved, t
<1>4. CASE op.act = "move"
  <2> DEFINE p == op.at
             y == Note(s[p].id, op.to, NoName)
  <2>1. t = MoveNote(s, p, op.to) /\ op.to \in Names \cup {NoName}
    BY <1>4 DEF NotesAfter, Ops
  <2>2. p \in DOMAIN s /\ Named(op, s) = s[p].id
    BY <1>4 DEF NotesAllow, Named
  <2> HIDE DEF t, p
  <2>3. /\ Tidy(t)
        /\ \A x : x \in ToSet(t) <=> (\E q \in DOMAIN s : q # p /\ s[q] = x) \/ x = y
    BY <2>1, <2>2, MoveNoteIs
  <2>4. y.id = s[p].id /\ y.name = op.to
    BY TidyIs
  <2> HIDE DEF y
  <2>5. ASSUME NEW i \in Ids PROVE InNotes(t, i) <=> InNotes(s, i)
    <3>1. ASSUME InNotes(s, i) PROVE InNotes(t, i)
      <4>1. PICK q \in DOMAIN s : s[q].id = i
        BY <3>1, TidyIs
      <4>2. CASE q = p
        BY <2>3, <2>4, <4>1, <4>2 DEF InNotes
      <4>3. CASE q # p
        BY <2>3, <4>1, <4>3 DEF InNotes
      <4> QED
        BY <4>2, <4>3
    <3>2. ASSUME InNotes(t, i) PROVE InNotes(s, i)
      <4>1. PICK x \in ToSet(t) : x.id = i
        BY <3>2 DEF InNotes
      <4>2. \E q \in DOMAIN s : s[q].id = i
        BY <2>2, <2>3, <2>4, <4>1
      <4> QED
        BY <4>2, TidyIs
    <3> QED
      BY <3>1, <3>2
  <2>6. ASSUME NEW i \in Ids, NEW g, Files(s, i, g) PROVE Files(t, i, Goes(op, s, i, g))
    <3>1. PICK q \in DOMAIN s : s[q].id = i /\ s[q].name = g
      BY <2>6, TidyIs
    <3>2. CASE q = p
      <4>1. Goes(op, s, i, g) = op.to /\ y = Note(i, op.to, NoName)
        BY <1>4, <2>2, <3>1, <3>2 DEF Goes, y
      <4> QED
        BY <2>3, <4>1 DEF Files
    <3>3. CASE q # p
      <4>1. i # Named(op, s)
        BY <2>2, <3>1, <3>3 DEF Tidy
      <4>2. Goes(op, s, i, g) = g
        BY <1>4, <4>1 DEF Goes
      <4>3. s[q] = Note(i, g, NoName)
        BY <3>1, TidyIs
      <4> QED
        BY <2>3, <3>3, <4>2, <4>3 DEF Files
    <3> QED
      BY <3>2, <3>3
  <2> QED
    BY <1>4, <2>3, <2>5, <2>6 DEF NotesMoved, t
<1>5. CASE op.act = "delete"
  <2> DEFINE p == op.at
  <2>1. t = RemoveAt(s, p)
    BY <1>5 DEF NotesAfter
  <2>2. p \in DOMAIN s /\ Named(op, s) = s[p].id
    BY <1>5 DEF NotesAllow, Named
  <2> HIDE DEF t, p
  <2>3. /\ Tidy(t)
        /\ \A q \in DOMAIN s : q # p => s[q] \in ToSet(t)
        /\ \A x : x \in ToSet(t) => \E q \in DOMAIN s : q # p /\ s[q] = x
    BY <2>1, <2>2, NoteTakenOut
  <2>4. ASSUME NEW i \in Ids, NEW q \in DOMAIN s, s[q].id = i PROVE q = p <=> i = Named(op, s)
    BY <2>2, <2>4 DEF Tidy
  <2>5. ASSUME NEW i \in Ids PROVE InNotes(t, i) <=> InNotes(s, i) /\ i # Named(op, s)
    <3>1. ASSUME InNotes(s, i), i # Named(op, s) PROVE InNotes(t, i)
      <4>1. PICK q \in DOMAIN s : s[q].id = i
        BY <3>1, TidyIs
      <4>2. q # p
        BY <2>2, <3>1, <4>1
      <4> QED
        BY <2>3, <4>1, <4>2 DEF InNotes
    <3>2. ASSUME InNotes(t, i) PROVE InNotes(s, i) /\ i # Named(op, s)
      <4>1. PICK x \in ToSet(t) : x.id = i
        BY <3>2 DEF InNotes
      <4>2. PICK q \in DOMAIN s : q # p /\ s[q].id = i
        BY <2>3, <4>1
      <4> QED
        BY <2>4, <4>2, TidyIs
    <3> QED
      BY <3>1, <3>2
  <2>6. ASSUME NEW i \in Ids, NEW g, Files(s, i, g), InNotes(t, i) PROVE Files(t, i, g)
    <3>1. PICK q \in DOMAIN s : s[q].id = i /\ s[q].name = g
      BY <2>6, TidyIs
    <3>2. q # p
      BY <2>4, <2>5, <2>6, <3>1
    <3>3. s[q] = Note(i, g, NoName)
      BY <3>1, TidyIs
    <3> QED
      BY <2>3, <3>2, <3>3 DEF Files
  <2>7. \A i, g : Goes(op, s, i, g) = g
    BY <1>5 DEF Goes
  <2> QED
    BY <1>5, <2>3, <2>5, <2>6, <2>7 DEF NotesMoved, t
<1>6. CASE op.act = "create"
  <2> DEFINE x == Note(Placeholder, op.to, NoName)
  <2>1. t = s \o <<x>> /\ op.to \in Names
    BY <1>1, <1>6 DEF NotesAfter, Anchored, Ops
  <2>2. x \in NoteLines /\ x.id = Placeholder /\ x.id \notin Ids /\ x.name # NoName
    BY <2>1, NoteLineIs
  <2> HIDE DEF x, t
  <2>3. MayStand(s, Len(s) + 1, x)
    <3>1. \A q \in DOMAIN s : ~(q >= Len(s) + 1)
      BY <1>1
    <3>2. Len(s) + 1 \in 1..(Len(s) + 1)
      BY <1>1
    <3> QED
      BY <2>2, <3>1, <3>2 DEF MayStand
  <2>4. t = Spliced(s, Len(s) + 1, <<x>>)
    <3>1. SubSeq(s, 1, Len(s)) = s /\ SubSeq(s, Len(s) + 1, Len(s)) = <<>> /\ (Len(s) + 1) - 1 = Len(s)
      BY <1>1
    <3>2. s \o <<x>> \in Seq(NoteLines)
      BY <1>1, <2>2
    <3>3. s \o <<x>> \o <<>> = s \o <<x>>
      BY <3>2
    <3> QED
      BY <2>1, <3>1, <3>3 DEF Spliced
  <2>5. Tidy(t) /\ ToSet(t) = ToSet(s) \cup {x}
    BY <2>2, <2>3, <2>4, NotePutIn
  <2>6. \A i, g : Goes(op, s, i, g) = g
    BY <1>6 DEF Goes
  <2> QED
    BY <1>6, <2>2, <2>5, <2>6 DEF NotesMoved, InNotes, Files, t
<1>7. CASE op.act = "rename"
  <2>1. t = RenameNotes(s, op.group, op.to) /\ op.group \in Names /\ op.to \in Names
    BY <1>7 DEF NotesAfter, Ops
  <2> HIDE DEF t
  <2>2. /\ Tidy(t) /\ DOMAIN t = DOMAIN s
        /\ \A p \in DOMAIN s : t[p] =
             Note(s[p].id, IF s[p].name = op.group THEN op.to ELSE s[p].name, NoName)
    BY <2>1, RenameNotesIs
  <2>3. \A p \in DOMAIN s : t[p].id = s[p].id
                            /\ t[p].name = IF s[p].name = op.group THEN op.to ELSE s[p].name
    BY <2>2, TidyIs
  <2>4. ASSUME NEW i PROVE InNotes(t, i) <=> InNotes(s, i)
    BY <2>2, <2>3, TidyIs
  <2>5. \A i, g : Goes(op, s, i, g) = IF g = op.group THEN op.to ELSE g
    BY <1>7 DEF Goes
  <2>6. ASSUME NEW i, NEW g, Files(s, i, g) PROVE Files(t, i, Goes(op, s, i, g))
    <3>1. PICK q \in DOMAIN s : s[q].id = i /\ s[q].name = g
      BY <2>6, TidyIs
    <3>2. q \in DOMAIN t /\ t[q].id = i /\ t[q].name = Goes(op, s, i, g)
      BY <2>2, <2>3, <2>5, <3>1
    <3> QED
      BY <2>2, <3>2, TidyIs
  <2> QED
    BY <1>7, <2>2, <2>4, <2>6 DEF NotesMoved, t
<1>8. CASE op.act = "drop"
  <2> DEFINE g == op.group
  <2>1. t = DropNotes(s, g) /\ g \in Names
    BY <1>8 DEF NotesAfter, Ops
  <2> HIDE DEF t, g
  <2>2. /\ Tidy(t)
        /\ \A x : x \in ToSet(t) <=>
             \E p \in DOMAIN s :
               \/ s[p].name = g /\ s[p].id # Placeholder /\ x = Note(s[p].id, NoName, NoName)
               \/ s[p].name # g /\ x = s[p]
    BY <2>1, DropNotesIs
  <2>3. \A i, h : Goes(op, s, i, h) = IF h = g THEN NoName ELSE h
    BY <1>8 DEF Goes, g
  <2>4. ASSUME NEW i \in Ids, NEW h, Files(s, i, h) PROVE Files(t, i, Goes(op, s, i, h))
    <3>1. PICK q \in DOMAIN s : s[q].id = i /\ s[q].name = h
      BY <2>4, TidyIs
    <3>2. s[q] = Note(i, h, NoName) /\ i # Placeholder
      BY <3>1, TidyIs, NoteLineIs
    <3>3. CASE h = g
      BY <2>2, <2>3, <3>1, <3>2, <3>3 DEF Files
    <3>4. CASE h # g
      BY <2>2, <2>3, <3>1, <3>2, <3>4 DEF Files
    <3> QED
      BY <3>3, <3>4
  <2>5. ASSUME NEW i \in Ids, InNotes(s, i) PROVE InNotes(t, i)
    <3>1. PICK q \in DOMAIN s : s[q].id = i
      BY <2>5, TidyIs
    <3>2. Files(s, i, s[q].name)
      BY <3>1, TidyIs
    <3>3. \E h : Files(t, i, h)
      BY <2>4, <3>2
    <3>4. \A h : Note(i, h, NoName).id = i
      BY TidyIs
    <3> QED
      BY <3>3, <3>4 DEF InNotes, Files
  <2>6. ASSUME NEW i \in Ids, InNotes(t, i) PROVE InNotes(s, i)
    <3>1. PICK x \in ToSet(t) : x.id = i
      BY <2>6 DEF InNotes
    <3>2. \E q \in DOMAIN s : s[q].id = i
      BY <2>2, <3>1, TidyIs
    <3> QED
      BY <3>2, TidyIs
  <2> QED
    BY <1>8, <2>2, <2>4, <2>5, <2>6 DEF NotesMoved, t
<1> QED
  <2>1. op.act \in {"add", "fill", "move", "delete", "create", "rename", "drop"}
    BY DEF Ops
  <2> QED
    BY <1>2, <1>3, <1>4, <1>5, <1>6, <1>7, <1>8, <2>1
------------------------------------------------------------------------------
(* What requests find in the two files, and what they leave there *)

\* A file, of either kind, that nothing in it is written twice in, and a
\* request that the service grants on it.
Sound(k, s) == IF k = "notes" THEN Tidy(s) ELSE Distinctly(s)
Granted(k, op, s) ==
  op \in Ops /\ IF k = "notes" THEN NotesAllow(op, s) ELSE op.act # "fill" /\ ItemsAllow(op, s)

\* What is on the disk is sound, and so is what each request has read.
TodoFiles ==
  /\ Sound(kind, file) /\ (tmp # Gone => Sound(kind, tmp))
  /\ \A c \in Clients : Busy(c) =>
       Sound(kind, client[c].was) /\ Granted(kind, client[c].op, client[c].was)

NoHeadingsInNotes == kind = "notes" => Written = {}

LEMMA TextOfIs ==
  ASSUME NEW k \in {"items", "notes"}, k = "notes" => Written = {},
         NEW s, Sound(k, s), NEW op, Granted(k, op, s)
  PROVE  /\ Sound(k, TextOf(k, op, s))
         /\ k = "notes" => NotesMoved(op, s, TextOf(k, op, s))
         /\ k = "items" => ItemsMoved(op, s, TextOf(k, op, s))
<1>1. CASE k = "notes"
  <2>1. NotesMoved(op, s, NotesAfter(op, s))
    BY <1>1, NotesAfterIs DEF Sound, Granted
  <2>2. Reread(NotesAfter(op, s)) = NotesAfter(op, s)
    BY <2>1, RereadIs DEF NotesMoved
  <2>3. TextOf(k, op, s) = NotesAfter(op, s)
    BY <1>1, <2>2 DEF TextOf
  <2>4. Tidy(TextOf(k, op, s))
    BY <2>1, <2>3 DEF NotesMoved
  <2> QED
    BY <1>1, <2>1, <2>3, <2>4 DEF Sound
<1>2. CASE k = "items"
  <2>1. ItemsMoved(op, s, ItemsAfter(op, s))
    BY <1>2, ItemsAfterIs DEF Sound, Granted
  <2>2. TextOf(k, op, s) = ItemsAfter(op, s)
    BY <1>2 DEF TextOf
  <2>3. Distinctly(TextOf(k, op, s))
    BY <2>1, <2>2 DEF ItemsMoved
  <2> QED
    BY <1>2, <2>1, <2>2, <2>3 DEF Sound
<1> QED
  BY <1>1, <1>2

LEMMA TodoFilesStart == TodoInit => TodoFiles
<1> SUFFICES ASSUME TodoInit PROVE TodoFiles
  OBVIOUS
<1>1. \A c \in Clients : ~Busy(c)
  BY DEF TodoInit, Busy, Idle
<1>2. file = <<>> /\ tmp = Gone
  BY DEF TodoInit
<1>3. Distinctly(<<>>) /\ Tidy(<<>>)
  <2>1. DOMAIN <<>> = {} /\ <<>> \in Seq(ItemLines) /\ <<>> \in Seq(NoteLines)
    OBVIOUS
  <2> QED
    BY <2>1 DEF Distinctly, Tidy
<1> QED
  BY <1>1, <1>2, <1>3 DEF TodoFiles, Sound

LEMMA TodoFilesStep ==
  ASSUME TodoInv, TodoFiles, NoHeadingsInNotes, TodoNext
  PROVE  TodoFiles'
<1>1. /\ kind \in {"items", "notes"} /\ client = [d \in Clients |-> client[d]]
      /\ \A d \in Clients : AtWork(d)
  BY DEF TodoInv
<1>2. /\ Sound(kind, file) /\ (tmp # Gone => Sound(kind, tmp))
      /\ \A c \in Clients : Busy(c) =>
           Sound(kind, client[c].was) /\ Granted(kind, client[c].op, client[c].was)
  BY DEF TodoFiles
<1>3. ASSUME NEW c \in Clients, NEW op \in Ops, Reads(c, op) PROVE TodoFiles'
  <2> DEFINE call == [phase |-> "read", op |-> op, was |-> file]
  <2>1. client' = [client EXCEPT ![c] = call] /\ UNCHANGED <<kind, file, tmp>> /\ Allowed(op)
    BY <1>3 DEF Reads
  <2>2. client'[c] = call /\ \A d \in Clients \ {c} : client'[d] = client[d]
    BY <1>1, <2>1
  <2>3. client'[c].op = op /\ client'[c].was = file
    BY <2>2
  <2>4. Granted(kind, op, file)
    BY <1>1, <1>3, <2>1 DEF Allowed, Granted
  <2>5. ASSUME NEW d \in Clients, Busy(d)'
        PROVE  Sound(kind, client'[d].was) /\ Granted(kind, client'[d].op, client'[d].was)
    <3>1. CASE d = c
      BY <1>2, <2>3, <2>4, <3>1
    <3>2. CASE d # c
      BY <1>2, <2>2, <2>5, <3>2 DEF Busy
    <3> QED
      BY <3>1, <3>2
  <2> QED
    BY <1>2, <2>1, <2>5 DEF TodoFiles
<1>4. ASSUME NEW c \in Clients, Stages(c) PROVE TodoFiles'
  <2> DEFINE call == [client[c] EXCEPT !.phase = "staged"]
  <2>1. /\ client[c].phase = "read" /\ tmp' = TextOf(kind, client[c].op, client[c].was)
        /\ client' = [client EXCEPT ![c] = call] /\ UNCHANGED <<kind, file>>
    BY <1>4 DEF Stages, Text, TextOf
  <2>2. Busy(c)
    BY <2>1 DEF Busy
  <2>3. client[c] = [phase |-> client[c].phase, op |-> client[c].op, was |-> client[c].was]
    BY <1>1, <2>2 DEF AtWork
  <2>4. call.op = client[c].op /\ call.was = client[c].was
    BY <2>3
  <2>5. client'[c] = call /\ \A d \in Clients \ {c} : client'[d] = client[d]
    BY <1>1, <2>1
  <2>6. Sound(kind, tmp')
    BY <1>1, <1>2, <2>1, <2>2, TextOfIs DEF NoHeadingsInNotes
  <2>7. ASSUME NEW d \in Clients, Busy(d)'
        PROVE  Sound(kind, client'[d].was) /\ Granted(kind, client'[d].op, client'[d].was)
    <3>1. CASE d = c
      BY <1>2, <2>2, <2>4, <2>5, <3>1
    <3>2. CASE d # c
      BY <1>2, <2>5, <2>7, <3>2 DEF Busy
    <3> QED
      BY <3>1, <3>2
  <2> QED
    BY <1>2, <2>1, <2>6, <2>7 DEF TodoFiles
<1>5. ASSUME NEW c \in Clients, Publishes(c) \/ WriteFails(c) PROVE TodoFiles'
  <2>1. /\ client' = [client EXCEPT ![c] = Idle] /\ tmp' = Gone /\ UNCHANGED kind
        /\ (file' = file \/ (tmp # Gone /\ file' = tmp))
    BY <1>5 DEF Publishes, WriteFails
  <2>2. client'[c] = Idle /\ \A d \in Clients \ {c} : client'[d] = client[d]
    BY <1>1, <2>1
  <2>3. ~Busy(c)'
    BY <2>2 DEF Busy, Idle
  <2>4. ASSUME NEW d \in Clients, Busy(d)'
        PROVE  Sound(kind, client'[d].was) /\ Granted(kind, client'[d].op, client'[d].was)
    <3>1. d # c
      BY <2>3, <2>4
    <3> QED
      BY <1>2, <2>2, <2>4, <3>1 DEF Busy
  <2>5. Sound(kind, file')
    BY <1>2, <2>1
  <2> QED
    BY <2>1, <2>4, <2>5 DEF TodoFiles
<1>6. CASE TodoRestarts
  <2>1. \A c \in Clients : ~Busy(c)'
    BY <1>6 DEF TodoRestarts, Busy, Idle
  <2> QED
    BY <1>2, <1>6, <2>1 DEF TodoRestarts, TodoFiles
<1> QED
  BY <1>3, <1>4, <1>5, <1>6 DEF TodoNext

LEMMA TodoFilesStutter ==
  ASSUME TodoFiles, UNCHANGED todoVars
  PROVE  TodoFiles'
<1>1. \A c \in Clients : Busy(c)' <=> Busy(c)
  BY DEF Busy, todoVars
<1> QED
  BY <1>1 DEF TodoFiles, todoVars

(* todo/service.py, the rewrites of todolist.md and notes.md: whatever requests, failures
   and restarts came before, both files, their temporary files and what the requests under
   way have read hold every item, note and heading once, and the notes without a group
   stand before the others. *)
THEOREM TodoFilesAlways == TodoSpec => [](NoHeadingsInNotes => TodoFiles)
<1>1. TodoInit => (NoHeadingsInNotes => TodoFiles)
  BY TodoFilesStart
<1>2. TodoInv /\ (NoHeadingsInNotes => TodoFiles) /\ [TodoNext]_todoVars
        => (NoHeadingsInNotes => TodoFiles)'
  <2> SUFFICES ASSUME TodoInv, NoHeadingsInNotes => TodoFiles, [TodoNext]_todoVars,
                      NoHeadingsInNotes'
               PROVE  TodoFiles'
    OBVIOUS
  <2>1. kind' = kind
    BY DEF TodoNext, Reads, Stages, Publishes, WriteFails, TodoRestarts, todoVars
  <2>2. NoHeadingsInNotes
    BY <2>1 DEF NoHeadingsInNotes
  <2> QED
    BY <2>2, TodoFilesStep, TodoFilesStutter
<1> QED
  BY <1>1, <1>2, TodoInvAlways, PTL DEF TodoSpec

\* A reader of notes.md finds each note in one place.
LEMMA NotesSeen ==
  ASSUME kind = "notes", NEW s, Tidy(s)
  PROVE  /\ People(s) = {i \in Ids : InNotes(s, i)}
         /\ \A i \in Ids : InNotes(s, i) => Files(s, i, GroupOf(s, i))
         /\ \A i \in Ids : \A g : Files(s, i, g) => GroupOf(s, i) = g
<1>1. ASSUME NEW i \in Ids, NEW q \in DOMAIN s, s[q].id = i PROVE Place(s, i) = q
  <2>1. \A p \in DOMAIN s : s[p].id = i => p = q
    BY <1>1 DEF Tidy
  <2> QED
    BY <1>1, <2>1 DEF Place
<1>2. ASSUME NEW i \in Ids, NEW q \in DOMAIN s, s[q].id = i PROVE GroupOf(s, i) = s[q].name
  BY <1>1, <1>2 DEF GroupOf
<1>3. People(s) = {i \in Ids : \E q \in DOMAIN s : s[q].id = i}
  BY DEF People
<1>4. People(s) = {i \in Ids : InNotes(s, i)}
  BY <1>3, TidyIs
<1>5. ASSUME NEW i \in Ids, InNotes(s, i) PROVE Files(s, i, GroupOf(s, i))
  <2>1. PICK q \in DOMAIN s : s[q].id = i
    BY <1>5, TidyIs
  <2> QED
    BY <1>2, <2>1, TidyIs
<1>6. ASSUME NEW i \in Ids, NEW g, Files(s, i, g) PROVE GroupOf(s, i) = g
  <2>1. PICK q \in DOMAIN s : s[q].id = i /\ s[q].name = g
    BY <1>6, TidyIs
  <2> QED
    BY <1>2, <2>1
<1> QED
  BY <1>4, <1>5, <1>6

\* A reader of todolist.md finds each item in one region.
LEMMA ItemsSeen ==
  ASSUME kind = "items", NEW s, Distinctly(s)
  PROVE  /\ People(s) = {i \in Ids : Item(i) \in ToSet(s)}
         /\ \A i \in Ids : Item(i) \in ToSet(s) => Belongs(s, Item(i), GroupOf(s, i))
         /\ \A i \in Ids : \A g : Belongs(s, Item(i), g) => GroupOf(s, i) = g
<1>1. s \in Seq(ItemLines) /\ DOMAIN s = 1..Len(s) /\ Len(s) \in Nat
  BY DEF Distinctly
<1>2. ASSUME NEW i \in Ids, NEW q \in DOMAIN s PROVE s[q].id = i <=> s[q] = Item(i)
  <2>1. s[q] \in ItemLines /\ Nobody \notin Ids
    BY <1>1, TodoAssumption DEF TodoAssumption
  <2>2. s[q].id = i => ~IsHeading(s[q])
    BY <2>1 DEF IsHeading
  <2> QED
    BY <2>1, <2>2, ItemLineIs
<1>3. ASSUME NEW i \in Ids, NEW q \in DOMAIN s, s[q] = Item(i) PROVE GroupOf(s, i) = GroupAt(s, q)
  <2>1. s[q].id = i /\ \A p \in DOMAIN s : s[p].id = i => p = q
    BY <1>2, <1>3 DEF Distinctly
  <2>2. Place(s, i) = q
    BY <2>1 DEF Place
  <2> QED
    BY <2>2 DEF GroupOf
<1>4. People(s) = {i \in Ids : Item(i) \in ToSet(s)}
  <2>1. People(s) = {i \in Ids : \E q \in DOMAIN s : s[q].id = i}
    BY DEF People
  <2> QED
    BY <1>2, <2>1, InToSet
<1>5. ASSUME NEW i \in Ids, Item(i) \in ToSet(s) PROVE Belongs(s, Item(i), GroupOf(s, i))
  <2>1. PICK q \in DOMAIN s : s[q] = Item(i)
    BY <1>5, InToSet
  <2>2. Under(s, q, GroupAt(s, q))
    BY <1>1, GroupAtIs
  <2> QED
    BY <1>3, <2>1, <2>2 DEF Belongs
<1>6. ASSUME NEW i \in Ids, NEW g, Belongs(s, Item(i), g) PROVE GroupOf(s, i) = g
  <2>1. PICK q \in DOMAIN s : s[q] = Item(i) /\ Under(s, q, g)
    BY <1>6 DEF Belongs
  <2>2. GroupAt(s, q) = g
    BY <1>1, <2>1, GroupAtIs
  <2> QED
    BY <1>3, <2>1, <2>2
<1> QED
  BY <1>4, <1>5, <1>6

(* todo/service.py and todo/store.py: adding, moving, deleting, renaming and dropping put
   every item and every note where the request wants it and leave all others in the group
   they were in.  Of notes.md this needs that no note's own text holds a heading. *)
THEOREM MovesOnlyTheNamedHolds ==
  TodoSpec => []((kind = "notes" => Written = {}) => MovesOnlyTheNamed)
<1>1. TodoInv /\ NoHeadingsInNotes /\ TodoFiles => MovesOnlyTheNamed
  <2> SUFFICES ASSUME TodoInv, NoHeadingsInNotes, TodoFiles, NEW c \in Clients, Busy(c)
               PROVE  LET op == client[c].op
                          was == client[c].was
                          new == Text(op, was)
                      IN  /\ People(new) =
                               (People(was) \ (IF op.act = "delete" THEN {Named(op, was)} ELSE {}))
                                 \cup (IF op.act \in {"add", "fill"} THEN {op.id} ELSE {})
                          /\ \A i \in People(was) \cap People(new) :
                               GroupOf(new, i) = Wanted(op, was, i)
    BY DEF MovesOnlyTheNamed
  <2> DEFINE op == client[c].op
             was == client[c].was
             new == Text(op, was)
  <2>1. kind \in {"items", "notes"} /\ Sound(kind, was) /\ Granted(kind, op, was)
    BY DEF TodoInv, TodoFiles
  <2>2. new = TextOf(kind, op, was)
    BY DEF Text, TextOf
  <2>3. op \in Ops
    BY <2>1 DEF Granted
  <2> HIDE DEF op, was, new
  <2>4. op.act \in {"add", "fill"} => op.id \in Ids
    BY <2>3 DEF Ops
  <2>5. \A i : Wanted(op, was, i) = Goes(op, was, i, GroupOf(was, i))
    BY DEF Wanted, Goes
  <2>6. /\ kind = "notes" => NotesMoved(op, was, new)
        /\ kind = "items" => ItemsMoved(op, was, new)
    BY <2>1, <2>2, TextOfIs DEF NoHeadingsInNotes
  <2>7. CASE kind = "notes"
    <3>1. Tidy(was) /\ Tidy(new) /\ NotesMoved(op, was, new)
      BY <2>1, <2>6, <2>7 DEF Sound, NotesMoved
    <3>2. /\ People(was) = {i \in Ids : InNotes(was, i)}
          /\ \A i \in Ids : InNotes(was, i) => Files(was, i, GroupOf(was, i))
      BY <2>7, <3>1, NotesSeen
    <3>3. /\ People(new) = {i \in Ids : InNotes(new, i)}
          /\ \A i \in Ids : \A g : Files(new, i, g) => GroupOf(new, i) = g
      BY <2>7, <3>1, NotesSeen
    <3>4. \A i \in Ids : i \in People(new) <=>
            \/ i \in People(was) /\ ~(op.act = "delete" /\ i = Named(op, was))
            \/ op.act \in {"add", "fill"} /\ i = op.id
      BY <3>1, <3>2, <3>3 DEF NotesMoved
    <3>5. ASSUME NEW i \in People(was) \cap People(new) PROVE GroupOf(new, i) = Wanted(op, was, i)
      <4>1. i \in Ids /\ Files(was, i, GroupOf(was, i)) /\ InNotes(new, i)
        BY <3>2, <3>3
      <4>2. Files(new, i, Goes(op, was, i, GroupOf(was, i)))
        BY <3>1, <4>1 DEF NotesMoved
      <4> QED
        BY <2>5, <3>3, <4>1, <4>2
    <3>6. People(new) = (People(was) \ (IF op.act = "delete" THEN {Named(op, was)} ELSE {}))
                          \cup (IF op.act \in {"add", "fill"} THEN {op.id} ELSE {})
      <4>1. People(new) \subseteq Ids /\ People(was) \subseteq Ids
        BY DEF People
      <4> QED
        BY <2>4, <3>4, <4>1
    <3> QED
      BY <3>5, <3>6 DEF op, was, new
  <2>8. CASE kind = "items"
    <3>1. Distinctly(was) /\ Distinctly(new) /\ ItemsMoved(op, was, new)
      BY <2>1, <2>6, <2>8 DEF Sound, ItemsMoved
    <3>2. /\ People(was) = {i \in Ids : Item(i) \in ToSet(was)}
          /\ \A i \in Ids : Item(i) \in ToSet(was) => Belongs(was, Item(i), GroupOf(was, i))
      BY <2>8, <3>1, ItemsSeen
    <3>3. /\ People(new) = {i \in Ids : Item(i) \in ToSet(new)}
          /\ \A i \in Ids : \A g : Belongs(new, Item(i), g) => GroupOf(new, i) = g
      BY <2>8, <3>1, ItemsSeen
    <3>4. \A i \in Ids : i \in People(new) <=>
            \/ i \in People(was) /\ ~(op.act = "delete" /\ i = Named(op, was))
            \/ op.act \in {"add", "fill"} /\ i = op.id
      <4>1. op.act # "fill"
        BY <2>1, <2>8 DEF Granted
      <4> QED
        BY <3>1, <3>2, <3>3, <4>1 DEF ItemsMoved
    <3>5. ASSUME NEW i \in People(was) \cap People(new) PROVE GroupOf(new, i) = Wanted(op, was, i)
      <4>1. i \in Ids /\ Belongs(was, Item(i), GroupOf(was, i)) /\ Item(i) \in ToSet(new)
        BY <3>2, <3>3
      <4>2. Belongs(new, Item(i), Goes(op, was, i, GroupOf(was, i)))
        BY <3>1, <4>1 DEF ItemsMoved
      <4> QED
        BY <2>5, <3>3, <4>1, <4>2
    <3>6. People(new) = (People(was) \ (IF op.act = "delete" THEN {Named(op, was)} ELSE {}))
                          \cup (IF op.act \in {"add", "fill"} THEN {op.id} ELSE {})
      <4>1. People(new) \subseteq Ids /\ People(was) \subseteq Ids
        BY DEF People
      <4> QED
        BY <2>4, <3>4, <4>1
    <3> QED
      BY <3>5, <3>6 DEF op, was, new
  <2> QED
    BY <2>1, <2>7, <2>8
<1>2. TodoInv /\ (NoHeadingsInNotes => TodoFiles)
        => ((kind = "notes" => Written = {}) => MovesOnlyTheNamed)
  BY <1>1 DEF NoHeadingsInNotes
<1> QED
  BY <1>2, TodoInvAlways, TodoFilesAlways, PTL
=============================================================================
