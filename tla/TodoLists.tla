----------------------------- MODULE TodoLists ------------------------------
(***************************************************************************)
(* The to-do service: two Markdown files, todolist.md and notes.md, that   *)
(* every request reads, rearranges and writes back under the lock of the   *)
(* file.  The files share nothing, so a behaviour is about one of them.    *)
(*                                                                         *)
(* A file is the sequence of its lines as far as grouping goes.  In        *)
(* todolist.md a heading owns the items below it; in notes.md the heading  *)
(* is a field of the notes it stands above, rewritten at every save.  The  *)
(* wording of items, their check marks and their remarks are left out, and *)
(* so are lines that are neither item nor heading: they stay in place.     *)
(***************************************************************************)
EXTENDS Naturals, FiniteSets, SequencesExt

CONSTANTS
  Clients,   \* requests that can be under way at once
  Ids,       \* the items or notes people write
  Names,     \* the names of groups
  Written,   \* the names that occur as a heading inside a note's own text
  MaxLines,  \* bound: lines of a file
  NoName, Placeholder, Nobody, Gone

ASSUME TodoAssumption ==
  /\ Written \subseteq Names /\ MaxLines \in Nat \ {0}
  /\ NoName \notin Names /\ Placeholder \notin Ids /\ Nobody \notin Clients \cup Ids

VARIABLES
  kind,    \* which file the behaviour is about: "items" or "notes"
  file,    \* its content
  tmp,     \* the sibling file a write goes to first, or Gone
  lock,    \* the client that holds the file's lock, or Nobody
  client   \* what each request is at: phase, op, and the file as it read it

todoVars == <<kind, file, tmp, lock, client>>

-----------------------------------------------------------------------------
\* todolist.md

Item(i) == [id |-> i, name |-> NoName]
Heading(g) == [id |-> Nobody, name |-> g]
IsHeading(line) == line.id = Nobody
IsNamed(line, g) == IsHeading(line) /\ line.name = g

\* The lines at the places of S, in their order.
LinesAt(lines, S) ==
  [k \in 1..Cardinality(S) |->
     lines[CHOOSE p \in S : Cardinality({q \in S : q <= p}) = k]]

\* The group of the line at p: the nearest heading above it.
GroupAt(lines, p) ==
  LET above == {q \in 1..p : IsHeading(lines[q])}
  IN  IF above = {} THEN NoName ELSE lines[Max(above)].name

\* The place of the first line at or after p that satisfies Test, or the end.
FirstFrom(lines, p, Test(_)) ==
  Min({q \in p..Len(lines) : Test(lines[q])} \cup {Len(lines) + 1})

HasHeading(lines, g) == \E p \in DOMAIN lines : IsNamed(lines[p], g)
Ungrouped(lines) == FirstFrom(lines, 1, IsHeading)

\* Where a new item goes: before the headings the file ends with.
NewItemAt(lines) ==
  1 + Max({0} \cup {q \in DOMAIN lines : ~IsHeading(lines[q])})

\* Below the last member of g; the heading is made when there is none.
IntoGroup(lines, line, g) ==
  IF HasHeading(lines, g)
    THEN LET marker == FirstFrom(lines, 1, LAMBDA l : IsNamed(l, g))
         IN  InsertAt(lines, FirstFrom(lines, marker + 1, IsHeading), line)
    ELSE lines \o <<Heading(g), line>>

MoveItem(lines, p, g) ==
  LET rest == RemoveAt(lines, p)
  IN  IF GroupAt(lines, p) = g THEN lines
      ELSE IF g = NoName THEN InsertAt(rest, Ungrouped(rest), lines[p])
      ELSE IntoGroup(rest, lines[p], g)

\* The fault MovesOnlyTheNamed guards against: the members stay where they are.
DropItemsInPlace(lines, g) == LinesAt(lines, {p \in DOMAIN lines : ~IsNamed(lines[p], g)})

\* The heading goes; its members move above the first heading that is left.
DropItems(lines, g) ==
  LET inside == {p \in DOMAIN lines : GroupAt(lines, p) = g}   \* a heading is in its own
      members == LinesAt(lines, {p \in inside : ~IsHeading(lines[p])})
      rest == LinesAt(lines, DOMAIN lines \ inside)
  IN  SubSeq(rest, 1, Ungrouped(rest) - 1) \o members
        \o SubSeq(rest, Ungrouped(rest), Len(rest))

RenameItems(lines, g, to) ==
  [p \in DOMAIN lines |-> IF IsNamed(lines[p], g) THEN Heading(to) ELSE lines[p]]

ItemsAfter(op, lines) ==
  CASE op.act = "add" -> InsertAt(lines, NewItemAt(lines), Item(op.id))
    [] op.act = "move" -> MoveItem(lines, op.at, op.to)
    [] op.act = "delete" -> RemoveAt(lines, op.at)
    [] op.act = "create" -> Append(lines, Heading(op.to))
    [] op.act = "rename" -> RenameItems(lines, op.group, op.to)
    [] op.act = "drop" -> DropItems(lines, op.group)

\* What the service refuses, or finds already done, leaves the file alone.
ItemsAllow(op, lines) ==
  CASE op.act = "add" -> \A p \in DOMAIN lines : lines[p].id # op.id
    [] op.act \in {"move", "delete"} -> op.at \in DOMAIN lines /\ ~IsHeading(lines[op.at])
    [] op.act = "create" -> ~HasHeading(lines, op.to)
    [] op.act = "rename" ->
         HasHeading(lines, op.group) /\ (op.to = op.group \/ ~HasHeading(lines, op.to))
    [] op.act = "drop" -> HasHeading(lines, op.group)

-----------------------------------------------------------------------------
\* notes.md

Note(i, g, w) == [id |-> i, name |-> g, within |-> w]
HasNotes(notes, g) == \E p \in DOMAIN notes : notes[p].name = g

\* A note joins the tail of its group, or of the notes without one.
MoveNote(notes, p, g) ==
  LET moved == [notes[p] EXCEPT !.name = g]
      rest == RemoveAt(notes, p)
      tail == {q \in DOMAIN rest : rest[q].name = g}
      end == IF g = NoName THEN FirstFrom(rest, 1, LAMBDA n : n.name # NoName)
             ELSE IF tail = {} THEN Len(rest) + 1
             ELSE Max(tail) + 1
  IN  IF notes[p].name = g THEN notes ELSE InsertAt(rest, end, moved)

\* A group needs a note: a blank one at the end of the file.
Anchored(notes, g) == Append(notes, Note(Placeholder, g, NoName))

RenameNotes(notes, g, to) ==
  [p \in DOMAIN notes |->
     IF notes[p].name = g THEN [notes[p] EXCEPT !.name = to] ELSE notes[p]]

\* Its notes move to the top of the file; the blank ones go.
DropNotes(notes, g) ==
  LET members == {p \in DOMAIN notes : notes[p].name = g}
      kept == LinesAt(notes, {p \in members : notes[p].id # Placeholder})
  IN  [p \in DOMAIN kept |-> [kept[p] EXCEPT !.name = NoName]]
        \o LinesAt(notes, DOMAIN notes \ members)

NotesAfter(op, notes) ==
  CASE op.act = "add" -> <<Note(op.id, NoName, op.within)>> \o notes
    [] op.act = "fill" -> [notes EXCEPT ![op.at] = Note(op.id, @.name, op.within)]
    [] op.act = "move" -> MoveNote(notes, op.at, op.to)
    [] op.act = "delete" -> RemoveAt(notes, op.at)
    [] op.act = "create" -> Anchored(notes, op.to)
    [] op.act = "rename" -> RenameNotes(notes, op.group, op.to)
    [] op.act = "drop" -> DropNotes(notes, op.group)

NotesAllow(op, notes) ==
  CASE op.act = "add" -> \A p \in DOMAIN notes : notes[p].id # op.id
    [] op.act = "fill" ->
         /\ op.at \in DOMAIN notes /\ notes[op.at].id = Placeholder
         /\ \A p \in DOMAIN notes : notes[p].id # op.id
    [] op.act \in {"move", "delete"} -> op.at \in DOMAIN notes
    [] op.act = "create" -> ~HasNotes(notes, op.to)
    [] op.act = "rename" ->
         HasNotes(notes, op.group) /\ (op.to = op.group \/ ~HasNotes(notes, op.to))
    [] op.act = "drop" -> HasNotes(notes, op.group)

\* A heading is written above a note whose group differs from the last one
\* written, so that a note without a group after it stays below that heading.
LastMarker(notes) ==
  [p \in 0..Len(notes) |->
     LET named == {q \in 1..p : notes[q].name # NoName}
     IN  IF named = {} THEN NoName ELSE notes[Max(named)].name]

\* The notes as the next reader finds them: the heading above each, which a
\* line of an earlier note's own text may be; that line is in no note then.
Reread(notes) ==
  LET marker == LastMarker(notes)
      marked(p) == notes[p].name # NoName /\ notes[p].name # marker[p - 1]
      headings(p) == {q \in 1..p : marked(q) \/ notes[q].within # NoName}
      heading(q) == IF notes[q].within # NoName THEN notes[q].within ELSE notes[q].name
      below(p) ==   \* the heading in force after note p
        IF headings(p) = {} THEN NoName ELSE heading(Max(headings(p)))
  IN  [p \in DOMAIN notes |->
         Note(notes[p].id, IF marked(p) THEN notes[p].name ELSE below(p - 1), NoName)]

-----------------------------------------------------------------------------
Ops ==
  [act : {"add"}, id : Ids, within : Written \cup {NoName}]
    \cup [act : {"fill"}, at : 1..MaxLines, id : Ids, within : Written \cup {NoName}]
    \cup [act : {"move"}, at : 1..MaxLines, to : Names \cup {NoName}]
    \cup [act : {"delete"}, at : 1..MaxLines]
    \cup [act : {"create"}, to : Names]
    \cup [act : {"rename"}, group : Names, to : Names]
    \cup [act : {"drop"}, group : Names]

Allowed(op) ==
  IF kind = "notes" THEN NotesAllow(op, file)
  ELSE op.act # "fill" /\ (op.act = "add" => op.within = NoName) /\ ItemsAllow(op, file)

Text(op, was) ==
  IF kind = "notes" THEN Reread(NotesAfter(op, was)) ELSE ItemsAfter(op, was)

Idle == [phase |-> "idle"]
Busy(c) == client[c].phase # "idle"

\* The fault NoNoteIsLost guards against: notes.md is treated the same way.
UnguardedInBoth(op) == op.act = "drop"

\* Deleting a group of todolist.md lets go of the lock once it has read.
Unguarded(op) == kind = "items" /\ op.act = "drop"
Release(c) == IF lock = c THEN Nobody ELSE lock

TodoTypeOK ==
  /\ kind \in {"items", "notes"} /\ lock \in Clients \cup {Nobody}
  /\ Len(file) <= MaxLines
  /\ \A c \in Clients : Busy(c) =>
       client[c].phase \in {"read", "staged"} /\ client[c].op \in Ops

TodoInit ==
  /\ kind \in {"items", "notes"} /\ file = <<>> /\ tmp = Gone /\ lock = Nobody
  /\ client = [c \in Clients |-> Idle]

\* A request gets the lock and reads; positions are the client's to choose.
Reads(c, op) ==
  /\ ~Busy(c) /\ lock = Nobody
  /\ Allowed(op) /\ Len(Text(op, file)) <= MaxLines
  /\ client' = [client EXCEPT ![c] = [phase |-> "read", op |-> op, was |-> file]]
  /\ lock' = IF Unguarded(op) THEN Nobody ELSE c
  /\ UNCHANGED <<kind, file, tmp>>

\* The new text is in the temporary file.
Stages(c) ==
  /\ client[c].phase = "read"
  /\ tmp' = Text(client[c].op, client[c].was)
  /\ client' = [client EXCEPT ![c].phase = "staged"]
  /\ UNCHANGED <<kind, file, lock>>

\* The temporary file replaces the file.
Publishes(c) ==
  /\ client[c].phase = "staged" /\ tmp # Gone
  /\ file' = tmp /\ tmp' = Gone
  /\ client' = [client EXCEPT ![c] = Idle] /\ lock' = Release(c)
  /\ UNCHANGED kind

\* Writing or replacing fails; the temporary file goes, whoever wrote it.
WriteFails(c) ==
  /\ Busy(c)
  /\ tmp' = Gone
  /\ client' = [client EXCEPT ![c] = Idle] /\ lock' = Release(c)
  /\ UNCHANGED <<kind, file>>

\* The process ends and starts again; what is on the disk stays.
TodoRestarts ==
  /\ lock' = Nobody /\ client' = [c \in Clients |-> Idle]
  /\ UNCHANGED <<kind, file, tmp>>

TodoNext ==
  \/ \E c \in Clients :
       \/ \E op \in Ops : Reads(c, op)
       \/ Stages(c) \/ Publishes(c) \/ WriteFails(c)
  \/ TodoRestarts

TodoSpec == TodoInit /\ [][TodoNext]_todoVars

-----------------------------------------------------------------------------
\* Who is in which group, as a reader of the file sees it.
Place(lines, i) == CHOOSE p \in DOMAIN lines : lines[p].id = i
People(lines) == Ids \cap {lines[p].id : p \in DOMAIN lines}
GroupOf(lines, i) ==
  IF kind = "notes" THEN lines[Place(lines, i)].name ELSE GroupAt(lines, Place(lines, i))
Named(op, lines) == IF op.act \in {"move", "delete"} THEN lines[op.at].id ELSE Nobody

Wanted(op, lines, i) ==
  LET g == GroupOf(lines, i)
  IN  CASE op.act = "move" /\ i = Named(op, lines) -> op.to
        [] op.act = "rename" /\ g = op.group -> op.to
        [] op.act = "drop" /\ g = op.group -> NoName
        [] OTHER -> g

(***************************************************************************)
(* A rewrite moves what its request names and nothing else: every other    *)
(* item or note is still there, in the group it was in.  Groups are places *)
(* in a file, so a line put one line too low is in the next group.         *)
(***************************************************************************)
MovesOnlyTheNamed ==
  \A c \in Clients : Busy(c) =>
    LET op == client[c].op
        was == client[c].was
        new == Text(op, was)
    IN  /\ People(new) = (People(was) \ (IF op.act = "delete" THEN {Named(op, was)} ELSE {}))
                           \cup (IF op.act \in {"add", "fill"} THEN {op.id} ELSE {})
        /\ \A i \in People(was) \cap People(new) : GroupOf(new, i) = Wanted(op, was, i)

(***************************************************************************)
(* A request that rewrites notes.md replaces the text it read, so what was *)
(* written in between cannot be lost: the lock of the file spans reading,  *)
(* rearranging and writing, whatever fails on the way.                     *)
(***************************************************************************)
NoNoteIsLost ==
  kind = "notes" =>
    \A c \in Clients : Busy(c) => client[c].was = file

\* Refuted: service.py:5-7 says the same of todolist.md, "a per-file FileLocks
\* gate serializes the read-modify-write cycles of each file, so concurrent
\* requests never clobber one another"; deleting a group writes after its lock.
NoItemIsLost ==
  [][\A c \in Clients : Publishes(c) => file = client[c].was]_todoVars

\* Refuted: service.py:103, "The item stays ungrouped"; at the end of a file
\* whose last group has members it is one of them.
NewItemsStayUngrouped ==
  \A c \in Clients :
    (kind = "items" /\ Busy(c) /\ client[c].op.act = "add") =>
      GroupOf(Text(client[c].op, client[c].was), client[c].op.id) = NoName
=============================================================================
