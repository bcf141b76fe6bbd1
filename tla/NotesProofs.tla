------------------------------ MODULE NotesProofs ------------------------------
(***************************************************************************)
(* Comparing revisions does what comparing the rows would do, for any      *)
(* number of notes, agents and texts: what a writer holds is the row as it *)
(* is now, or its revision is older.                                       *)
(***************************************************************************)
EXTENDS Notes, TLAPS

USE NotesAssumption

\* A row as somebody holds it, against the row as it is: no newer, and the same if it
\* is as new.
Copy(mine, row) ==
    mine.revision <= row.revision /\ (mine.revision = row.revision => mine = row)

\* A row that lives is never as new as one that was deleted.
Bounded == \A id \in Ids : Lives(notes[id]) => notes[id].revision <= MaxRevision

Copies ==
    \A id \in Ids :
        Copy(list[id], notes[id]) /\ \A a \in Agents : Copy(read[a][id], notes[id])

NInv == NotesTypeOK /\ Bounded /\ Copies

-----------------------------------------------------------------------------
(* The rows that writes leave.                                             *)

AnyPatch == [body : Texts \cup {None}, question : BOOLEAN \cup {None},
             resolved : BOOLEAN \cup {None}]

\* A row lives, or stands for none.
LEMMA RowsLive ==
    ASSUME NEW row \in Row \cup Absent
    PROVE  /\ row.revision \in Nat
           /\ Lives(row) => row \in Row
           /\ row.revision \in 1..MaxRevision => Lives(row)
           /\ row # Unborn => row.revision > 0
  BY DEF Row, Absent, Unborn, Deleted, Lives

\* A new row is a first one.
LEMMA InsertedRow ==
    ASSUME NEW body \in Texts, NEW question \in BOOLEAN, NEW author \in {"user", "agent"}
    PROVE  Inserted(body, question, author) \in Row /\ Inserted(body, question, author).revision = 1
  BY DEF Inserted, Row

\* A patch makes the next revision, whatever it holds.
LEMMA PatchedRow ==
    ASSUME NEW row \in Row, NEW patch \in AnyPatch
    PROVE  Patched(row, patch) \in Row /\ Patched(row, patch).revision = row.revision + 1
<1> DEFINE first == [row EXCEPT !.body = IF patch.body = None THEN @ ELSE patch.body]
           second == [first EXCEPT !.question = IF patch.question = None THEN @ ELSE patch.question]
           third == [second EXCEPT !.resolved = IF patch.resolved = None THEN @ ELSE patch.resolved]
<1>1. patch.body = None \/ patch.body \in Texts
  BY DEF AnyPatch
<1>2. patch.question = None \/ patch.question \in BOOLEAN
  BY DEF AnyPatch
<1>3. patch.resolved = None \/ patch.resolved \in BOOLEAN
  BY DEF AnyPatch
<1>4. first \in Row /\ first.revision = row.revision
  BY <1>1 DEF Row
<1>5. Patched(row, patch) = [third EXCEPT !.revision = @ + 1]
  BY DEF Patched
<1> HIDE DEF first
<1>6. second \in Row /\ second.revision = row.revision
  BY <1>2, <1>4 DEF Row
<1> HIDE DEF second
<1>7. third \in Row /\ third.revision = row.revision
  BY <1>3, <1>6 DEF Row
<1> HIDE DEF third
<1>8. QED
  BY <1>5, <1>7 DEF Row

-----------------------------------------------------------------------------
(* Steps, by who takes them.                                               *)

\* One writer's write to one row, against what he holds of it.
WriterSees(w, id, seen) ==
    /\ seen \in Row \cup Absent /\ (w \in Agents => seen = Held[w][id])
    /\ \/ \E body \in Texts, question \in BOOLEAN : Create(w, id, body, question)
       \/ /\ Lives(Held[w][id])
          /\ \/ \E patch \in AnyPatch : Update(w, id, Held[w][id].revision, patch, seen)
             \/ Remove(w, id, Held[w][id].revision, seen)

\* Afterwards a writer holds what he held, or what is in the table now; and so the
\* others hold what they held.
Informed(w) ==
    \/ w = User /\ read' = read /\ list' \in {list, notes'}
    \/ /\ w \in Agents /\ list' = list
       /\ \/ read' = [read EXCEPT ![w] = notes']
          \/ \E id \in Ids : read' = [read EXCEPT ![w][id] = notes'[id]]

Writes(w) == \E id \in Ids, seen \in Row \cup Absent : WriterSees(w, id, seen)

Acts(w) == Informed(w) /\ (UNCHANGED <<notes, spent, over>> \/ Writes(w))

\* Agents write what they have read, and are told what there is.
LEMMA AgentActs ==
    ASSUME NotesTypeOK, AgentNext
    PROVE  \E a \in Agents : Acts(a)
<1>1. PICK a \in Agents :
        \/ AgentReads(a)
        \/ \E id \in Ids :
            \/ \E body \in Texts, question \in BOOLEAN : AgentCreates(a, id, body, question)
            \/ \E patch \in Patches : AgentUpdates(a, id, patch)
            \/ AgentDeletes(a, id)
            \/ AgentRefused(a, id)
  BY DEF AgentNext
<1>2. Held[a] = read[a] /\ \A id \in Ids : Held[a][id] \in Row \cup Absent
  BY DEF NotesTypeOK, Table, Held, Writers
<1>3. CASE AgentReads(a)
  BY <1>3 DEF AgentReads, Acts, Informed
<1>4. ASSUME NEW id \in Ids, NEW body \in Texts, NEW question \in BOOLEAN,
             AgentCreates(a, id, body, question)
      PROVE  Acts(a)
  BY <1>2, <1>4 DEF AgentCreates, Told, Acts, Informed, Writes, WriterSees
<1>5. ASSUME NEW id \in Ids, NEW patch \in Patches, AgentUpdates(a, id, patch)
      PROVE  Acts(a)
  <2>1. patch \in AnyPatch
    BY DEF Patches, AnyPatch
  <2>2. QED
    BY <1>2, <1>5, <2>1 DEF AgentUpdates, Told, Acts, Informed, Writes, WriterSees
<1>6. ASSUME NEW id \in Ids, AgentDeletes(a, id)
      PROVE  Acts(a)
  BY <1>2, <1>6 DEF AgentDeletes, Told, Acts, Informed, Writes, WriterSees
<1>7. ASSUME NEW id \in Ids, AgentRefused(a, id)
      PROVE  Acts(a)
  BY <1>7 DEF AgentRefused, Refused, Told, Acts, Informed
<1>8. QED
  BY <1>1, <1>3, <1>4, <1>5, <1>6, <1>7

\* The dialog writes what it has on the list, whatever is in the editor.
LEMMA DialogActs ==
    ASSUME NotesTypeOK, DialogNext
    PROVE  Acts(User)
<1>1. Held[User] = list /\ base \in Row \cup Absent /\ User \notin Agents
      /\ \A id \in Ids : list[id] \in Row \cup Absent
  BY DEF NotesTypeOK, Table, Held, Writers, Absent
<1>2. \A id \in Ids : ~Lives(Unborn)
  BY DEF Lives, Absent
<1>3. Lives(Existing) => editing \in Ids /\ Existing = list[editing]
  BY DEF Existing, NotesTypeOK, Lives, Absent
<1>4. ASSUME NEW body \in Texts \ spent, NEW question \in BOOLEAN, SubmitEdit(body, question)
      PROVE  Acts(User)
  <2>1. [body |-> body, question |-> question, resolved |-> None] \in AnyPatch
    BY DEF AnyPatch
  <2>2. QED
    BY <1>1, <1>3, <1>4, <2>1 DEF SubmitEdit, Awaits, Acts, Informed, Writes, WriterSees
<1>5. ASSUME NEW id \in Ids, NEW body \in Texts, NEW question \in BOOLEAN,
             SubmitNew(id, body, question)
      PROVE  Acts(User)
  BY <1>1, <1>5 DEF SubmitNew, Awaits, Acts, Informed, Writes, WriterSees
<1>6. ASSUME NEW id \in Ids, MarkAnswered(id)
      PROVE  Acts(User)
  <2>1. [body |-> None, question |-> None, resolved |-> TRUE] \in AnyPatch
    BY DEF AnyPatch
  <2>2. QED
    BY <1>1, <1>6, <2>1 DEF MarkAnswered, Awaits, Acts, Informed, Writes, WriterSees
<1>7. ASSUME NEW id \in Ids, Delete(id)
      PROVE  Acts(User)
  BY <1>1, <1>7 DEF Delete, Awaits, Acts, Informed, Writes, WriterSees
<1>8. CASE UNCHANGED <<notes, spent, read, over>> /\ list' \in {list, notes}
  BY <1>8 DEF Acts, Informed
<1>9. QED
  BY <1>4, <1>5, <1>6, <1>7, <1>8
     DEF DialogNext, CancelEdit, SubmitRefused, Refetched, SyncFinished, Reopened, Edit,
         PressRefused, Refused

-----------------------------------------------------------------------------
(* Writes.                                                                 *)

\* What he holds with the revision of the row is the row.
LEMMA MatchIsSame ==
    ASSUME NInv, NEW w \in Writers, NEW id \in Ids, Lives(Held[w][id]),
           Matches(notes[id], Held[w][id].revision)
    PROVE  Held[w][id] = notes[id] /\ notes[id] \in Row
<1>1. Copy(Held[w][id], notes[id])
  BY DEF NInv, Copies, Held, Writers
<1>2. notes[id] \in Row
  BY RowsLive DEF NInv, NotesTypeOK, Table, Matches
<1>3. QED
  BY <1>1, <1>2 DEF Copy, Matches

\* A write takes one row to a later revision; an insertion fills one that has never
\* been, and the others replace or remove what their writer holds.
LEMMA WriteAdvances ==
    ASSUME NInv, NEW w \in Writers, NEW id \in Ids, NEW seen, WriterSees(w, id, seen)
    PROVE  /\ notes' \in Table /\ spent' \subseteq Texts
           /\ over' = [over EXCEPT ![id] = [by |-> w, row |-> over'[id].row]]
           /\ over'[id].row \in Row \cup Absent
           /\ \A other \in Ids \ {id} : notes'[other] = notes[other]
           /\ notes[id].revision < notes'[id].revision
           /\ Lives(notes'[id]) => notes'[id].revision <= MaxRevision
           /\ \/ notes[id] = Unborn /\ Lives(notes'[id])
              \/ /\ Lives(notes[id]) /\ Held[w][id] = notes[id]
                 /\ over'[id].row = seen
<1>1. notes \in Table /\ spent \subseteq Texts /\ notes[id] \in Row \cup Absent
  BY DEF NInv, NotesTypeOK, Table
<1>2. over \in [Ids -> [by : Writers \cup {None}, row : Row \cup Absent]]
  BY DEF NInv, NotesTypeOK
<1>3. ASSUME NEW new \in Row \cup Absent, NEW row \in Row \cup Absent,
             notes' = [notes EXCEPT ![id] = new],
             over' = [over EXCEPT ![id] = [by |-> w, row |-> row]]
      PROVE  /\ notes' \in Table /\ notes'[id] = new
             /\ \A other \in Ids \ {id} : notes'[other] = notes[other]
             /\ over'[id].row = row
             /\ over' = [over EXCEPT ![id] = [by |-> w, row |-> over'[id].row]]
  BY <1>1, <1>2, <1>3 DEF Table
<1>4. ASSUME NEW body \in Texts, NEW question \in BOOLEAN, Create(w, id, body, question)
      PROVE  /\ notes' = [notes EXCEPT ![id] = Inserted(body, question, AuthorKind(w))]
             /\ over' = [over EXCEPT ![id] = [by |-> w, row |-> Unborn]]
             /\ spent' \subseteq Texts /\ notes[id] = Unborn
  BY <1>1, <1>4 DEF Create
<1>5. CASE \E body \in Texts, question \in BOOLEAN : Create(w, id, body, question)
  <2>1. PICK body \in Texts, question \in BOOLEAN : Create(w, id, body, question)
    BY <1>5
  <2> DEFINE new == Inserted(body, question, AuthorKind(w))
  <2>2. AuthorKind(w) \in {"user", "agent"}
    BY DEF AuthorKind
  <2>3. new \in Row /\ new.revision = 1 /\ Lives(new)
    BY <2>2, InsertedRow, RowsLive, 1 \in 1..MaxRevision
  <2> HIDE DEF new
  <2>4. notes' = [notes EXCEPT ![id] = new]
    BY <1>4, <2>1 DEF new
  <2>5. Unborn \in Absent /\ Unborn.revision = 0
    BY DEF Absent, Unborn
  <2>6. /\ notes' \in Table /\ notes'[id] = new
        /\ \A other \in Ids \ {id} : notes'[other] = notes[other]
        /\ over'[id].row = Unborn
        /\ over' = [over EXCEPT ![id] = [by |-> w, row |-> over'[id].row]]
    BY <1>3, <1>4, <2>1, <2>3, <2>4, <2>5
  <2>7. QED
    BY <1>4, <2>1, <2>3, <2>5, <2>6
<1>6. ASSUME Lives(Held[w][id]), NEW patch \in AnyPatch,
             Update(w, id, Held[w][id].revision, patch, seen)
      PROVE  /\ notes' = [notes EXCEPT ![id] = Patched(notes[id], patch)]
             /\ over' = [over EXCEPT ![id] = [by |-> w, row |-> seen]]
             /\ notes[id].revision < MaxRevision
             /\ spent' \subseteq Texts
             /\ Held[w][id] = notes[id] /\ notes[id] \in Row /\ Lives(notes[id])
  <2>1. Held[w][id] = notes[id] /\ notes[id] \in Row
    BY <1>6, MatchIsSame DEF Update
  <2>2. patch.body \in Texts \cup {None}
    BY DEF AnyPatch
  <2>3. QED
    BY <1>1, <1>6, <2>1, <2>2 DEF Update, Matches
<1>7. CASE /\ Lives(Held[w][id])
           /\ \E patch \in AnyPatch : Update(w, id, Held[w][id].revision, patch, seen)
  <2>1. PICK patch \in AnyPatch : Update(w, id, Held[w][id].revision, patch, seen)
    BY <1>7
  <2> DEFINE new == Patched(notes[id], patch)
  <2>2. new \in Row /\ new.revision = notes[id].revision + 1
    BY <1>6, <1>7, <2>1, PatchedRow
  <2>3. notes' = [notes EXCEPT ![id] = new]
    BY <1>6, <1>7, <2>1
  <2> HIDE DEF new
  <2>4. notes[id].revision \in Nat
    BY <1>1, RowsLive
  <2>5. seen \in Row \cup Absent
    BY DEF WriterSees
  <2>6. over' = [over EXCEPT ![id] = [by |-> w, row |-> seen]]
    BY <1>6, <1>7, <2>1
  <2>7. /\ notes' \in Table /\ notes'[id] = new
        /\ \A other \in Ids \ {id} : notes'[other] = notes[other]
        /\ over'[id].row = seen
        /\ over' = [over EXCEPT ![id] = [by |-> w, row |-> over'[id].row]]
    BY <1>3, <2>2, <2>3, <2>5, <2>6
  <2>8. QED
    BY <1>6, <1>7, <2>1, <2>2, <2>4, <2>5, <2>7
<1>8. CASE Lives(Held[w][id]) /\ Remove(w, id, Held[w][id].revision, seen)
  <2>1. Held[w][id] = notes[id] /\ notes[id] \in Row /\ Lives(notes[id])
    BY <1>8, MatchIsSame DEF Remove, Matches
  <2>2. notes[id].revision <= MaxRevision /\ notes[id].revision \in Nat
    BY <1>1, <2>1, RowsLive DEF NInv, Bounded
  <2>3. Deleted \in Absent /\ Deleted.revision = MaxRevision + 1 /\ ~Lives(Deleted)
    BY DEF Absent, Deleted, Lives
  <2>4. seen \in Row \cup Absent
    BY DEF WriterSees
  <2>5. /\ notes' = [notes EXCEPT ![id] = Deleted]
        /\ over' = [over EXCEPT ![id] = [by |-> w, row |-> seen]]
        /\ spent' \subseteq Texts
    BY <1>1, <1>8 DEF Remove
  <2> HIDE DEF Deleted
  <2>6. /\ notes' \in Table /\ notes'[id] = Deleted
        /\ \A other \in Ids \ {id} : notes'[other] = notes[other]
        /\ over'[id].row = seen
        /\ over' = [over EXCEPT ![id] = [by |-> w, row |-> over'[id].row]]
    BY <1>3, <2>3, <2>4, <2>5
  <2>7. QED
    BY <2>1, <2>2, <2>3, <2>4, <2>5, <2>6
<1>9. QED
  BY <1>5, <1>7, <1>8 DEF WriterSees

-----------------------------------------------------------------------------
(* The invariant.                                                          *)

\* A row stays as it is or gets a later revision.
RowsAdvance ==
    \A id \in Ids : notes'[id] = notes[id] \/ notes[id].revision < notes'[id].revision

\* What an act leaves of the table.
LEMMA ActsOnTable ==
    ASSUME NInv, NEW w \in Writers, Acts(w)
    PROVE  /\ notes' \in Table /\ spent' \subseteq Texts
           /\ over' \in [Ids -> [by : Writers \cup {None}, row : Row \cup Absent]]
           /\ RowsAdvance /\ Bounded'
<1>1. CASE UNCHANGED <<notes, spent, over>>
  BY <1>1 DEF NInv, NotesTypeOK, Bounded, RowsAdvance
<1>2. CASE Writes(w)
  <2>1. PICK id \in Ids, seen \in Row \cup Absent : WriterSees(w, id, seen)
    BY <1>2 DEF Writes
  <2>2. /\ notes' \in Table /\ spent' \subseteq Texts
        /\ over' = [over EXCEPT ![id] = [by |-> w, row |-> over'[id].row]]
        /\ over'[id].row \in Row \cup Absent
        /\ \A other \in Ids \ {id} : notes'[other] = notes[other]
        /\ notes[id].revision < notes'[id].revision
        /\ Lives(notes'[id]) => notes'[id].revision <= MaxRevision
    BY <2>1, WriteAdvances
  <2>3. over' \in [Ids -> [by : Writers \cup {None}, row : Row \cup Absent]]
    <3> DEFINE entry == [by |-> w, row |-> over'[id].row]
    <3>1. entry \in [by : Writers \cup {None}, row : Row \cup Absent]
      BY <2>2
    <3>2. over' = [over EXCEPT ![id] = entry]
      BY <2>2
    <3> HIDE DEF entry
    <3>3. QED
      BY <3>1, <3>2 DEF NInv, NotesTypeOK
  <2>4. RowsAdvance
    BY <2>2 DEF RowsAdvance
  <2>5. Bounded'
    BY <2>2 DEF NInv, Bounded
  <2>6. QED
    BY <2>2, <2>3, <2>4, <2>5
<1>3. QED
  BY <1>1, <1>2 DEF Acts

\* A copy stays a copy while rows advance, and what is in the table is a copy of it.
LEMMA CopiesStay ==
    ASSUME NEW mine \in Row \cup Absent, NEW row \in Row \cup Absent, NEW new \in Row \cup Absent,
           new = row \/ row.revision < new.revision
    PROVE  (Copy(mine, row) => Copy(mine, new)) /\ Copy(new, new)
<1>1. mine.revision \in Nat /\ row.revision \in Nat /\ new.revision \in Nat
  BY RowsLive
<1>2. QED
  BY <1>1 DEF Copy

\* What writers hold after an act.
LEMMA ActsOnCopies ==
    ASSUME NInv, NEW w \in Writers, Acts(w)
    PROVE  list' \in Table /\ read' \in [Agents -> Table] /\ Copies'
<1>1. notes' \in Table /\ RowsAdvance
  BY ActsOnTable
<1>2. /\ notes \in Table /\ list \in Table /\ read \in [Agents -> Table]
      /\ \A a \in Agents : read[a] \in Table
      /\ \A row \in Row \cup Absent : row \in Row \cup Absent
  BY DEF NInv, NotesTypeOK
<1>3. list' \in {list, notes'}
  BY DEF Acts, Informed
<1>4. \A a \in Agents, id \in Ids : read'[a][id] \in {read[a][id], notes'[id]}
  BY <1>2 DEF Acts, Informed, Table
<1>5. list' \in Table
  BY <1>1, <1>2, <1>3
<1>6. read' \in [Agents -> Table]
  <2>1. CASE read' = read
    BY <1>2, <2>1
  <2>2. CASE w \in Agents /\ read' = [read EXCEPT ![w] = notes']
    BY <1>1, <1>2, <2>2
  <2>3. ASSUME w \in Agents, NEW id \in Ids, read' = [read EXCEPT ![w][id] = notes'[id]]
        PROVE  read' \in [Agents -> Table]
    <3>1. [read[w] EXCEPT ![id] = notes'[id]] \in Table
      BY <1>1, <1>2, <2>3 DEF Table
    <3>2. QED
      BY <1>2, <2>3, <3>1
  <2>4. QED
    BY <2>1, <2>2, <2>3 DEF Acts, Informed
<1>7. ASSUME NEW id \in Ids
      PROVE  Copy(list'[id], notes'[id]) /\ \A a \in Agents : Copy(read'[a][id], notes'[id])
  <2>1. /\ notes[id] \in Row \cup Absent /\ notes'[id] \in Row \cup Absent
        /\ list[id] \in Row \cup Absent /\ \A a \in Agents : read[a][id] \in Row \cup Absent
    BY <1>1, <1>2 DEF Table
  <2>2. notes'[id] = notes[id] \/ notes[id].revision < notes'[id].revision
    BY <1>1 DEF RowsAdvance
  <2>3. Copy(list[id], notes[id]) /\ \A a \in Agents : Copy(read[a][id], notes[id])
    BY DEF NInv, Copies
  <2>4. Copy(list[id], notes'[id]) /\ Copy(notes'[id], notes'[id])
    BY <2>1, <2>2, <2>3, CopiesStay
  <2>5. \A a \in Agents : Copy(read[a][id], notes'[id])
    BY <2>1, <2>2, <2>3, CopiesStay
  <2>6. QED
    BY <1>3, <1>4, <2>4, <2>5
<1>8. QED
  BY <1>5, <1>6, <1>7 DEF Copies

\* Every step is somebody's.
LEMMA StepActs ==
    ASSUME NotesTypeOK, NotesNext
    PROVE  \E w \in Writers : Acts(w)
  BY AgentActs, DialogActs DEF NotesNext, Writers

\* The dialog's own state keeps its type.
LEMMA DialogTyped ==
    ASSUME NotesTypeOK, NotesNext
    PROVE  /\ stale' \in BOOLEAN /\ editing' \in Ids \cup {None}
           /\ waiting' \in {"no", "save", "press"} /\ base' \in Row \cup {Unborn}
<1>1. /\ stale \in BOOLEAN /\ editing \in Ids \cup {None}
      /\ waiting \in {"no", "save", "press"} /\ base \in Row \cup {Unborn}
      /\ \A id \in Ids : Lives(notes[id]) => notes[id] \in Row
      /\ \A id \in Ids : Lives(list[id]) => list[id] \in Row
  BY DEF NotesTypeOK, Table, Lives
<1>2. CASE AgentNext
  BY <1>1, <1>2
     DEF AgentNext, AgentReads, AgentCreates, AgentUpdates, AgentDeletes, AgentRefused, dialog
<1>3. CASE DialogNext
  <2>1. CASE CancelEdit \/ SubmitRefused \/ Refetched \/ SyncFinished \/ Reopened
    <3>1. Lives(Existing) => editing \in Ids
      BY <1>1 DEF Existing, Lives, Absent
    <3>2. QED
      BY <1>1, <2>1, <3>1
         DEF CancelEdit, SubmitRefused, Refetched, SyncFinished, Reopened, dialog
  <2>2. CASE \E body \in Texts \ spent, question \in BOOLEAN : SubmitEdit(body, question)
    BY <1>1, <2>2 DEF SubmitEdit, Awaits
  <2>3. ASSUME NEW id \in Ids,
               \/ Edit(id)
               \/ \E body \in Texts, question \in BOOLEAN : SubmitNew(id, body, question)
               \/ MarkAnswered(id) \/ Delete(id) \/ PressRefused(id)
        PROVE  /\ stale' \in BOOLEAN /\ editing' \in Ids \cup {None}
               /\ waiting' \in {"no", "save", "press"} /\ base' \in Row \cup {Unborn}
    BY <1>1, <2>3 DEF Edit, SubmitNew, MarkAnswered, Delete, PressRefused, Awaits
  <2>4. QED
    BY <1>3, <2>1, <2>2, <2>3 DEF DialogNext
<1>4. QED
  BY <1>2, <1>3 DEF NotesNext

\* Nothing is held that is not as it was in the table.
LEMMA NotesInductive == NotesSpec => []NInv
<1>1. Init => NInv
  <2> SUFFICES ASSUME Init
               PROVE  NInv
    OBVIOUS
  <2>1. Unborn \in Absent /\ ~Lives(Unborn) /\ Copy(Unborn, Unborn)
    BY DEF Absent, Lives, Copy, Unborn
  <2>2. \A id \in Ids : notes[id] = Unborn /\ list[id] = Unborn /\ \A a \in Agents : read[a][id] = Unborn
    BY DEF Init
  <2>3. notes \in Table /\ list \in Table /\ read \in [Agents -> Table]
    BY <2>1 DEF Init, Table
  <2>4. [by |-> None, row |-> Unborn] \in [by : Writers \cup {None}, row : Row \cup Absent]
    BY <2>1
  <2>5. NotesTypeOK
    BY <2>3, <2>4 DEF Init, NotesTypeOK, Table
  <2>6. QED
    BY <2>1, <2>2, <2>5 DEF NInv, Bounded, Copies
<1>2. NInv /\ [NotesNext]_vars => NInv'
  <2>1. ASSUME NInv, NotesNext
        PROVE  NInv'
    <3>1. PICK w \in Writers : Acts(w)
      BY <2>1, StepActs DEF NInv
    <3>2. /\ notes' \in Table /\ spent' \subseteq Texts
          /\ over' \in [Ids -> [by : Writers \cup {None}, row : Row \cup Absent]]
          /\ Bounded'
      BY <2>1, <3>1, ActsOnTable
    <3>3. list' \in Table /\ read' \in [Agents -> Table] /\ Copies'
      BY <2>1, <3>1, ActsOnCopies
    <3>4. /\ stale' \in BOOLEAN /\ editing' \in Ids \cup {None}
          /\ waiting' \in {"no", "save", "press"} /\ base' \in Row \cup {Unborn}
      BY <2>1, DialogTyped DEF NInv
    <3>5. QED
      BY <3>2, <3>3, <3>4 DEF NInv, NotesTypeOK, Table
  <2>2. CASE UNCHANGED vars
    BY <2>2 DEF vars, NInv, NotesTypeOK, Bounded, Copies, Table
  <2>3. QED
    BY <2>1, <2>2
<1>3. QED
  BY <1>1, <1>2, PTL DEF NotesSpec

\* The state keeps its type.
THEOREM NotesTypeTheorem == NotesSpec => []NotesTypeOK
<1>1. NInv => NotesTypeOK
  BY DEF NInv
<1>2. QED
  BY <1>1, NotesInductive, PTL

\* Comparing revisions does what comparing the rows would do: the table with its
\* writers is a register that is written only by those who hold what is in it.
THEOREM RevisionsTheorem == NotesSpec => RevisionsSuffice
<1>1. Init => Shared!RegisterInit
  BY DEF Init, Shared!RegisterInit, Held, Writers
<1>2. NInv /\ [NotesNext]_vars => [Shared!RegisterNext]_<<notes, Held>>
  <2>1. ASSUME NInv, NotesNext
        PROVE  Shared!RegisterNext
    <3>1. PICK w \in Writers : Acts(w)
      BY <2>1, StepActs DEF NInv
    <3>2. Shared!Learns(w)
      BY <2>1, <3>1 DEF Shared!Learns, Held, Writers, Acts, Informed, NInv, NotesTypeOK
    <3>3. CASE UNCHANGED notes
      BY <3>1, <3>2, <3>3 DEF Shared!RegisterNext
    <3>4. CASE Writes(w)
      <4>1. PICK id \in Ids, seen \in Row \cup Absent : WriterSees(w, id, seen)
        BY <3>4 DEF Writes
      <4>2. /\ notes \in Table /\ notes' \in Table
            /\ \A other \in Ids \ {id} : notes'[other] = notes[other]
            /\ notes[id].revision < notes'[id].revision
            /\ \/ notes[id] = Unborn /\ Lives(notes'[id])
               \/ Lives(notes[id]) /\ Held[w][id] = notes[id]
        BY <2>1, <4>1, WriteAdvances DEF NInv, NotesTypeOK
      <4>3. Unborn.revision = 0 /\ notes[id].revision \in Nat
        BY <4>2, RowsLive DEF Unborn, Table
      <4>4. notes'[id] # Unborn
        BY <4>2, <4>3
      <4>5. Shared!Fill(id) \/ Shared!Replace(w, id)
        BY <4>2, <4>4 DEF Shared!Fill, Shared!Replace, Shared!Full, Shared!OnlyCell, Lives, Absent
      <4>6. QED
        BY <3>2, <4>5 DEF Shared!RegisterNext
    <3>5. QED
      BY <3>1, <3>3, <3>4 DEF Acts
  <2>2. CASE UNCHANGED vars
    BY <2>2 DEF vars, Held
  <2>3. QED
    BY <2>1, <2>2
<1>3. QED
  BY <1>1, <1>2, NotesInductive, PTL DEF NotesSpec, RevisionsSuffice, Shared!RegisterSpec

\* Agents never replace or delete what they have not read.
THEOREM AgentsTheorem == NotesSpec => AgentsOverwriteSeen
<1>1. NInv /\ [NotesNext]_vars => [\A a \in Agents : OverwritesSeen(a)]_vars
  <2>1. ASSUME NInv, NotesNext, NEW a \in Agents
        PROVE  OverwritesSeen(a)
    <3>1. PICK w \in Writers : Acts(w)
      BY <2>1, StepActs DEF NInv
    <3>2. CASE UNCHANGED notes
      BY <3>2 DEF OverwritesSeen
    <3>3. CASE Writes(w)
      <4>1. PICK id \in Ids, seen \in Row \cup Absent : WriterSees(w, id, seen)
        BY <3>3 DEF Writes
      <4>2. /\ over' = [over EXCEPT ![id] = [by |-> w, row |-> over'[id].row]]
            /\ \A other \in Ids \ {id} : notes'[other] = notes[other]
            /\ \/ notes[id] = Unborn /\ Lives(notes'[id])
               \/ /\ Lives(notes[id]) /\ Held[w][id] = notes[id]
                  /\ over'[id].row = seen
        BY <2>1, <4>1, WriteAdvances
      <4>3. over'[id].by = w
        BY <2>1, <4>2 DEF NInv, NotesTypeOK
      <4>4. w \in Agents => seen = Held[w][id]
        BY <4>1 DEF WriterSees
      <4>5. ~Lives(Unborn)
        BY DEF Lives, Absent
      <4>6. QED
        BY <4>2, <4>3, <4>4, <4>5 DEF OverwritesSeen
    <3>4. QED
      BY <3>1, <3>2, <3>3 DEF Acts
  <2>2. QED
    BY <2>1
<1>2. QED
  BY <1>1, NotesInductive, PTL DEF NotesSpec, AgentsOverwriteSeen

=============================================================================
