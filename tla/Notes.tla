-------------------------------- MODULE Notes --------------------------------
(***************************************************************************)
(* Notes on one subject: the table (store/authored/notes.ts), the service  *)
(* over it (services/notes.ts), the agents that read and write it through  *)
(* the loopback interface, and the operator's dialog                       *)
(* (renderer/components/NotesModal.tsx) over the query cache               *)
(* (renderer/query.ts).                                                    *)
(*                                                                         *)
(* A write names the revision its writer read and is refused when that is  *)
(* no longer the row's.  One call of an operation is one step: the         *)
(* statement that checks the revision is the one that writes.  What takes  *)
(* several steps is on the writer's side: reading, composing, sending, and *)
(* being told; the dialog in addition reads through a cache which is       *)
(* refetched for reasons of its own.                                       *)
(*                                                                         *)
(* A text is a model value and is composed once, so that two texts are the *)
(* same only when one is the other.                                        *)
(***************************************************************************)
EXTENDS Naturals

CONSTANTS
    Ids,        \* the note ids newId can draw: random, none is drawn twice
    Texts,      \* bodies; bounds the writes that carry one
    Agents,
    User,       \* the operator, in the window
    None,
    MaxRevision \* bound: no write to a row of this revision

ASSUME NotesAssumption ==
    /\ User \notin Agents
    /\ None \notin Ids \cup Texts \cup Agents \cup {User}
    /\ MaxRevision \in Nat \ {0}

Writers == Agents \cup {User}

\* The columns that a reader acts on.  `resolved` is resolved_at IS NOT NULL.
Row == [body : Texts, question : BOOLEAN, resolved : BOOLEAN,
        revision : Nat \ {0}, author : {"user", "agent"}]

\* No row: the id has not been drawn yet, or its row was deleted.
Unborn == [revision |-> 0]
Deleted == [revision |-> MaxRevision + 1]
Absent == {Unborn, Deleted}

VARIABLES
    notes,     \* the table
    spent,     \* ghost: the texts somebody has composed
    read,      \* what each agent last read, by notes.list or in an answer
    list,      \* the window's answer to notes.list
    stale,     \* that answer has been invalidated and is being refetched
    editing,   \* the note the dialog edits, None for the form of a new one
    waiting,   \* `busy` after a call: "save" of the form, "press" of a button
    base,      \* ghost: the row the operator has before him for that note
    over       \* ghost: who last wrote or deleted each row, and what he had read

vars == <<notes, spent, read, list, stale, editing, waiting, base, over>>
dialog == <<editing, waiting, base>>

Table == [Ids -> Row \cup Absent]

NotesTypeOK ==
    /\ notes \in Table
    /\ spent \subseteq Texts
    /\ read \in [Agents -> Table]
    /\ list \in Table
    /\ stale \in BOOLEAN
    /\ editing \in Ids \cup {None}
    /\ waiting \in {"no", "save", "press"}
    /\ base \in Row \cup {Unborn}
    /\ over \in [Ids -> [by : Writers \cup {None}, row : Row \cup Absent]]

Init ==
    /\ notes = [id \in Ids |-> Unborn]
    /\ spent = {}
    /\ read = [a \in Agents |-> notes]
    /\ list = notes
    /\ stale = FALSE
    /\ editing = None
    /\ waiting = "no"
    /\ base = Unborn
    /\ over = [id \in Ids |-> [by |-> None, row |-> Unborn]]

-----------------------------------------------------------------------------
(* The table.                                                              *)

Lives(row) == row \notin Absent

\* Mutant: the WHERE clause names the id only.
AnyRevision(row, revision) == Lives(row)

\* WHERE id = ? AND revision = ?
Matches(row, revision) == Lives(row) /\ row.revision = revision

\* Mutant: an empty patch leaves the revision alone.
PatchedOnly(row, patch) ==
    [row EXCEPT
        !.body = IF patch.body = None THEN @ ELSE patch.body,
        !.question = IF patch.question = None THEN @ ELSE patch.question,
        !.resolved = IF patch.resolved = None THEN @ ELSE patch.resolved,
        !.revision = IF patch.body = None THEN @ ELSE @ + 1]

\* The SET list of update.  `resolved` has three values; the revision advances
\* whatever the patch holds.
Patched(row, patch) ==
    [row EXCEPT
        !.body = IF patch.body = None THEN @ ELSE patch.body,
        !.question = IF patch.question = None THEN @ ELSE patch.question,
        !.resolved = IF patch.resolved = None THEN @ ELSE patch.resolved,
        !.revision = @ + 1]

\* A new row.  Who wrote it is the transport's to say, never the payload's.
Inserted(body, question, author) ==
    [body |-> body, question |-> question, resolved |-> FALSE, revision |-> 1,
     author |-> author]

AuthorKind(w) == IF w = User THEN "user" ELSE "agent"

\* notes.create after validation: a trimmed, non-empty body within the bound.
Create(w, id, body, question) ==
    /\ notes[id] = Unborn
    /\ body \notin spent
    /\ notes' = [notes EXCEPT ![id] = Inserted(body, question, AuthorKind(w))]
    /\ spent' = spent \cup {body}
    /\ over' = [over EXCEPT ![id] = [by |-> w, row |-> Unborn]]

\* The patches an update can carry: a body, a type, an answer or its withdrawal,
\* or nothing at all.
Patches ==
    [body : (Texts \ spent) \cup {None}, question : BOOLEAN \cup {None},
     resolved : BOOLEAN \cup {None}]

\* notes.update that wins.  `seen` is the row its writer composed it against.
Update(w, id, revision, patch, seen) ==
    /\ Matches(notes[id], revision)
    /\ notes[id].revision < MaxRevision
    /\ notes' = [notes EXCEPT ![id] = Patched(@, patch)]
    /\ spent' = spent \cup ({patch.body} \ {None})
    /\ over' = [over EXCEPT ![id] = [by |-> w, row |-> seen]]

\* notes.delete that wins: removeTx reads the row it removes.
Remove(w, id, revision, seen) ==
    /\ Matches(notes[id], revision)
    /\ notes' = [notes EXCEPT ![id] = Deleted]
    /\ over' = [over EXCEPT ![id] = [by |-> w, row |-> seen]]
    /\ UNCHANGED spent

\* explainFailure: nothing is written and the row that won, if any, is told.
Refused(id, revision) ==
    /\ ~Matches(notes[id], revision)
    /\ UNCHANGED <<notes, spent, over>>

-----------------------------------------------------------------------------
(* Agents: grndctrl_list_notes and the tools that write.                   *)

AgentReads(a) ==
    /\ read' = [read EXCEPT ![a] = notes]
    /\ UNCHANGED <<notes, spent, list, stale, dialog, over>>

\* Every answer to a write carries the row as it is after the call: the row
\* written, or the one that won.
Told(a, id) == read' = [read EXCEPT ![a][id] = notes'[id]]

AgentCreates(a, id, body, question) ==
    /\ Create(a, id, body, question)
    /\ Told(a, id)
    /\ UNCHANGED <<list, stale, dialog>>

AgentUpdates(a, id, patch) ==
    /\ Lives(read[a][id])
    /\ Update(a, id, read[a][id].revision, patch, read[a][id])
    /\ Told(a, id)
    /\ UNCHANGED <<list, stale, dialog>>

AgentDeletes(a, id) ==
    /\ Lives(read[a][id])
    /\ Remove(a, id, read[a][id].revision, read[a][id])
    /\ Told(a, id)
    /\ UNCHANGED <<list, stale, dialog>>

AgentRefused(a, id) ==
    /\ Lives(read[a][id])
    /\ Refused(id, read[a][id].revision)
    /\ Told(a, id)
    /\ UNCHANGED <<list, stale, dialog>>

-----------------------------------------------------------------------------
(* The dialog.                                                             *)

Free == waiting = "no"

\* The Edit button: the draft starts as the text on the screen.
Edit(id) ==
    /\ Free
    /\ Lives(list[id])
    /\ editing' = id
    /\ base' = list[id]
    /\ UNCHANGED <<notes, spent, read, list, stale, waiting, over>>

CancelEdit ==
    /\ Free /\ editing # None
    /\ editing' = None
    /\ base' = Unborn
    /\ UNCHANGED <<notes, spent, read, list, stale, waiting, over>>

\* write(): a call, then the invalidation of notes.list, awaited with the
\* buttons disabled.  (The counts, the questions and the work list are
\* invalidated with it when the call won: Window.tla.)
Awaits(what) ==
    /\ waiting' = what
    /\ stale' = TRUE
    /\ UNCHANGED <<read, list, editing, base>>

\* `existing` in submit: the row of the edited note as the list has it now.
Existing == IF editing = None THEN Unborn ELSE list[editing]

\* submit with nothing being edited, or with a note that the list no longer has.
SubmitNew(id, body, question) ==
    /\ Free
    /\ ~Lives(Existing)
    /\ Create(User, id, body, question)
    /\ Awaits("save")

\* submit of an edit: the revision is the one the list holds now, looked up by
\* the id when the button is pressed.
SubmitEdit(body, question) ==
    /\ Free
    /\ Lives(Existing)
    /\ Update(User, editing, Existing.revision,
              [body |-> body, question |-> question, resolved |-> None], base)
    /\ Awaits("save")

\* The same, refused.  A conflict shows the text that won, above the draft.
SubmitRefused ==
    /\ Free
    /\ Lives(Existing)
    /\ Refused(editing, Existing.revision)
    /\ base' = IF Lives(notes[editing]) THEN notes[editing] ELSE base
    /\ waiting' = "press"
    /\ stale' = TRUE
    /\ UNCHANGED <<read, list, editing>>

\* "Mark answered", drawn on an open question.
MarkAnswered(id) ==
    /\ Free
    /\ Lives(list[id]) /\ list[id].question /\ ~list[id].resolved
    /\ Update(User, id, list[id].revision, [body |-> None, question |-> None, resolved |-> TRUE],
              list[id])
    /\ Awaits("press")

Delete(id) ==
    /\ Free
    /\ Lives(list[id])
    /\ Remove(User, id, list[id].revision, list[id])
    /\ Awaits("press")

\* Either button, refused.
PressRefused(id) ==
    /\ Free
    /\ Lives(list[id])
    /\ Refused(id, list[id].revision)
    /\ base' = IF editing = id /\ Lives(notes[id]) THEN notes[id] ELSE base
    /\ waiting' = "press"
    /\ stale' = TRUE
    /\ UNCHANGED <<read, list, editing>>

\* The answer of a refetch: the list is the table, and a call that was waiting
\* for it is over.  A submit that won clears the form; a button does not.
Refetched ==
    /\ stale
    /\ list' = notes
    /\ stale' = FALSE
    /\ waiting' = "no"
    /\ IF waiting = "save"
       THEN editing' = None /\ base' = Unborn
       ELSE UNCHANGED <<editing, base>>
    /\ UNCHANGED <<notes, spent, read, over>>

\* usePushInvalidation on sync:progress "finished": everything is invalidated,
\* notes.list with the rest.  notes:changed leaves notes.list alone.
SyncFinished ==
    /\ ~stale
    /\ stale' = TRUE
    /\ UNCHANGED <<notes, spent, read, list, dialog, over>>

\* The dialog is closed and opened again: the form is new, and the cached list is
\* kept for as long as it is younger than staleTime.
Reopened ==
    /\ Free
    /\ editing' = None
    /\ base' = Unborn
    /\ stale' \in {stale, TRUE}
    /\ UNCHANGED <<notes, spent, read, list, waiting, over>>

-----------------------------------------------------------------------------
AgentNext ==
    \E a \in Agents :
        \/ AgentReads(a)
        \/ \E id \in Ids :
            \/ \E body \in Texts, question \in BOOLEAN :
                AgentCreates(a, id, body, question)
            \/ \E patch \in Patches : AgentUpdates(a, id, patch)
            \/ AgentDeletes(a, id)
            \/ AgentRefused(a, id)

DialogNext ==
    \/ CancelEdit
    \/ \E body \in Texts \ spent, question \in BOOLEAN : SubmitEdit(body, question)
    \/ SubmitRefused
    \/ Refetched
    \/ SyncFinished
    \/ Reopened
    \/ \E id \in Ids :
        \/ Edit(id)
        \/ \E body \in Texts, question \in BOOLEAN : SubmitNew(id, body, question)
        \/ MarkAnswered(id)
        \/ Delete(id)
        \/ PressRefused(id)

NotesNext == AgentNext \/ DialogNext

NotesSpec == Init /\ [][NotesNext]_vars

-----------------------------------------------------------------------------
(* What is checked.                                                        *)

\* A row that changes or goes was, as it stands, the last thing its writer had
\* read of it: neither a text, nor an answer to a question, is replaced or
\* deleted by somebody who has not seen it.
OverwritesSeen(w) ==
    \A id \in Ids :
        /\ Lives(notes[id])
        /\ notes'[id] # notes[id]
        /\ over'[id].by = w
        => over'[id].row = notes[id]

\* Agents never replace or delete what they have not read, however their calls
\* interleave with each other's and with the operator's (notes.ts, `WHERE id = ?
\* AND revision = ?`, and the revision that advances on an empty patch).
AgentsOverwriteSeen == [][\A a \in Agents : OverwritesSeen(a)]_vars

\* The operator's save never replaces a text that was not shown to him.
\* renderer/query.ts says that notes.list is left alone under an open editor so
\* that a conflict does not become a silent clobber; sync:progress refreshes it.
OperatorOverwritesSeen ==
    [][\A id \in Ids :
        /\ Lives(notes[id]) /\ Lives(notes'[id])
        /\ notes'[id].body # notes[id].body
        /\ over'[id].by = User
        => over'[id].row.body = notes[id].body]_vars

\* What each writer holds: the row whose revision he would send.
Held == [w \in Writers |-> IF w = User THEN list ELSE read[w]]

Shared == INSTANCE Register WITH
    Cells <- Ids, Vacant <- Unborn, Emptied <- Deleted, cell <- notes, held <- Held

\* The table is a register shared by its writers: comparing revisions does what
\* comparing the rows would do.
RevisionsSuffice == Shared!RegisterSpec

=============================================================================
