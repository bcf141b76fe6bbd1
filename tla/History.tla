------------------------------- MODULE History -------------------------------
(***************************************************************************)
(* The ticket history: one entry per ticket (store/authored/history.ts and *)
(* services/history.ts), which agents record to through the loopback       *)
(* interface, and the panel in which the operator curates it               *)
(* (renderer/panels/TicketHistory.tsx) over the query cache.               *)
(*                                                                         *)
(* A call of an operation is one step: every write is one transaction and  *)
(* awaits nothing.  A press of a button and the commit of its call are one *)
(* step; the answer, and the refetch that history:changed asks for, come   *)
(* later.                                                                  *)
(*                                                                         *)
(* Notes are a sequence of pieces, << >> for NULL.  A piece is some text   *)
(* with the blank line before it, so that appending is concatenation and   *)
(* "the notes already end with it" is a suffix.  The line and the author   *)
(* are replaced by every write of their kind and are left out.             *)
(***************************************************************************)
EXTENDS Naturals, SequencesExt

CONSTANTS
    TicketKeys,
    Additions,    \* what one record may add: sequences of pieces, maybe empty
    Revisions,    \* what the operator may make of the notes
    MaxNotes,     \* MAX_NOTES_TOTAL, in pieces; no addition or revision is longer
    NoTicket,
    MaxRevision,  \* bound on the writes of one entry
    MaxLives      \* bound on how often a ticket's entry is begun

Pieces == UNION {Range(a) : a \in Additions \cup Revisions}

ASSUME HistoryAssumption ==
    /\ Additions \cup Revisions \subseteq Seq(Pieces)
    /\ \A notes \in Additions \cup Revisions : Len(notes) <= MaxNotes
    /\ MaxNotes \in Nat /\ MaxRevision \in Nat \ {0} /\ MaxLives \in Nat
    /\ NoTicket \notin TicketKeys

VARIABLES
    entries,    \* ticket_history
    mirrored,   \* the tickets the mirror holds, and has a summary of
    list,       \* the window's answer to history.list
    stale,      \* that answer is to be fetched again
    draft,      \* the editor: its ticket and the entry it was opened on
    saving,     \* "won" or "lost" once the save under way has been decided
    confirming, \* the ticket whose Delete has been pressed once
    lives       \* ghost: how many entries each ticket has had

historyVars == <<entries, mirrored, list, stale, draft, saving, confirming, lives>>
panel == <<draft, saving, confirming>>

\* `summary` is ticket_summary IS NOT NULL; `life` tells an entry from the ones
\* of the same ticket that were deleted before it, which no column does.
Entry == [notes : Seq(Pieces), summary : BOOLEAN, revision : 1..MaxRevision,
          life : 1..MaxLives]
NoEntry == [revision |-> 0]
NoDraft == [ticket |-> NoTicket]

Lives(entry) == entry # NoEntry

HistoryTypeOK ==
    /\ entries \in [TicketKeys -> Entry \cup {NoEntry}]
    /\ list \in [TicketKeys -> Entry \cup {NoEntry}]
    /\ lives \in [TicketKeys -> 0..MaxLives]
    /\ \A t \in TicketKeys : Lives(entries[t]) => Len(entries[t].notes) <= MaxNotes
    /\ mirrored \subseteq TicketKeys
    /\ stale \in BOOLEAN
    /\ draft \in [ticket : TicketKeys, shown : Entry] \cup {NoDraft}
    /\ saving \in {"no", "won", "lost"}
    /\ confirming \in TicketKeys \cup {NoTicket}

HistoryInit ==
    /\ entries = [t \in TicketKeys |-> NoEntry]
    /\ mirrored \in SUBSET TicketKeys
    /\ list = entries
    /\ stale = FALSE
    /\ draft = NoDraft
    /\ saving = "no"
    /\ confirming = NoTicket
    /\ lives = [t \in TicketKeys |-> 0]

-----------------------------------------------------------------------------
(* The table.                                                              *)

\* Mutant: an addition replaces the notes.
MergeReplaces(existing, addition) == IF addition = << >> THEN existing ELSE addition

\* mergeNotes: nothing to add, nothing to add to, the notes end with it, or it is
\* appended.
Merged(existing, addition) ==
    IF IsSuffix(addition, existing) THEN existing ELSE existing \o addition

\* MAX_NOTES_TOTAL is compared only when something is appended.
Fits(existing, addition) == Len(Merged(existing, addition)) <= MaxNotes

\* Mutant: the snapshot is assigned, not COALESCEd.
SnapshotNow(t, entry) == t \in mirrored

\* COALESCE(excluded.ticket_summary, ticket_history.ticket_summary)
Snapshot(t, entry) == t \in mirrored \/ (Lives(entry) /\ entry.summary)

Began(t, addition) ==
    [notes |-> addition, summary |-> Snapshot(t, NoEntry), revision |-> 1,
     life |-> lives[t] + 1]

\* ON CONFLICT (ticket_key) DO UPDATE
Upserted(t, entry, addition) ==
    [entry EXCEPT
        !.notes = Merged(@, addition),
        !.summary = Snapshot(t, entry),
        !.revision = @ + 1]

\* Mutant: what an agent records is not announced.
RecordUnheard(t, addition) ==
    /\ ~Lives(entries[t]) /\ lives[t] < MaxLives
    /\ entries' = [entries EXCEPT ![t] = Began(t, addition)]
    /\ lives' = [lives EXCEPT ![t] = @ + 1]
    /\ UNCHANGED <<mirrored, list, stale, panel>>

\* history.record: whoever records need not have read anything.
Record(t, addition) ==
    /\ IF Lives(entries[t])
       THEN /\ Fits(entries[t].notes, addition)
            /\ entries[t].revision < MaxRevision
            /\ entries' = [entries EXCEPT ![t] = Upserted(t, @, addition)]
            /\ UNCHANGED lives
       ELSE /\ lives[t] < MaxLives
            /\ entries' = [entries EXCEPT ![t] = Began(t, addition)]
            /\ lives' = [lives EXCEPT ![t] = @ + 1]
    /\ stale' = TRUE
    /\ UNCHANGED <<mirrored, list, panel>>

\* mergeNotes throws, the transaction is rolled back, the event is sent anyway.
RecordRefused(t, addition) ==
    /\ Lives(entries[t])
    /\ ~Fits(entries[t].notes, addition)
    /\ stale' = TRUE
    /\ UNCHANGED <<entries, mirrored, list, panel, lives>>

\* Mutant: the WHERE clause names the ticket only.
AnyRevision(t, revision) == Lives(entries[t])

\* WHERE ticket_key = ? AND revision = ?
Matches(t, revision) == Lives(entries[t]) /\ entries[t].revision = revision

\* A sync brings a ticket into the mirror or takes it out, and its end refetches
\* everything.
SyncMoves(t) ==
    /\ mirrored' = IF t \in mirrored THEN mirrored \ {t} ELSE mirrored \cup {t}
    /\ stale' = TRUE
    /\ UNCHANGED <<entries, list, panel, lives>>

-----------------------------------------------------------------------------
(* The panel.                                                              *)

Drawn(t) == Lives(list[t])

\* startEditing: the draft is the entry as it is drawn, with its revision.
Edit(t) ==
    /\ Drawn(t) /\ draft.ticket # t
    /\ draft' = [ticket |-> t, shown |-> list[t]]
    /\ confirming' = NoTicket
    /\ UNCHANGED <<entries, mirrored, list, stale, saving, lives>>

\* Cancel is not disabled while a save is under way.
Cancel ==
    /\ draft # NoDraft /\ Drawn(draft.ticket)
    /\ draft' = NoDraft
    /\ UNCHANGED <<entries, mirrored, list, stale, saving, confirming, lives>>

\* Mutant: the revision is read from the list when Save is pressed.
DrawnRevision == list[draft.ticket].revision

\* The revision save sends.
DraftRevision == draft.shown.revision

\* save, and history.revise: the editor is drawn inside its entry.
Save(notes) ==
    /\ draft # NoDraft /\ Drawn(draft.ticket) /\ saving = "no"
    /\ IF Matches(draft.ticket, DraftRevision)
       THEN /\ entries[draft.ticket].revision < MaxRevision
            /\ entries' = [entries EXCEPT ![draft.ticket].notes = notes,
                                          ![draft.ticket].revision = @ + 1]
            /\ saving' = "won"
       ELSE saving' = "lost" /\ UNCHANGED entries
    /\ stale' = TRUE
    /\ UNCHANGED <<mirrored, list, draft, confirming, lives>>

\* The answer: a save that won closes the editor, whichever one is open by then.
Answered ==
    /\ saving # "no"
    /\ saving' = "no"
    /\ draft' = IF saving = "won" THEN NoDraft ELSE draft
    /\ UNCHANGED <<entries, mirrored, list, stale, confirming, lives>>

\* Delete asks.
AskDelete(t) ==
    /\ Drawn(t) /\ draft.ticket # t /\ confirming # t
    /\ confirming' = t
    /\ UNCHANGED <<entries, mirrored, list, stale, draft, saving, lives>>

\* The entry's header takes the question back.
TakeBack ==
    /\ confirming # NoTicket
    /\ confirming' = NoTicket
    /\ UNCHANGED <<entries, mirrored, list, stale, draft, saving, lives>>

\* "Really delete", and history.delete with the revision drawn now.
Delete(t) ==
    /\ Drawn(t) /\ draft.ticket # t /\ confirming = t
    /\ confirming' = NoTicket
    /\ entries' = IF Matches(t, list[t].revision)
                  THEN [entries EXCEPT ![t] = NoEntry] ELSE entries
    /\ stale' = TRUE
    /\ UNCHANGED <<mirrored, list, draft, saving, lives>>

\* history:changed, and the refetch it asks for.
Refetched ==
    /\ stale
    /\ list' = entries
    /\ stale' = FALSE
    /\ UNCHANGED <<entries, mirrored, panel, lives>>

-----------------------------------------------------------------------------
HistoryNext ==
    \/ \E t \in TicketKeys :
        \/ \E addition \in Additions : Record(t, addition) \/ RecordRefused(t, addition)
        \/ SyncMoves(t)
        \/ Edit(t) \/ AskDelete(t) \/ Delete(t)
    \/ \E notes \in Revisions : Save(notes)
    \/ Cancel \/ Answered \/ TakeBack \/ Refetched

HistorySpec == HistoryInit /\ [][HistoryNext]_historyVars

\* Main answers what the window asks, and the window asks when it is told to.
HistoryFair == HistorySpec /\ WF_historyVars(Refetched)

-----------------------------------------------------------------------------
(* What is checked.                                                        *)

\* What the operator's last reading was of the entry that a step rewrites or
\* removes: the editor's for a revision, the drawn one for a deletion.
Reading(t) == IF Lives(entries'[t]) /\ draft # NoDraft THEN draft.shown ELSE list[t]

\* A step that leaves no prefix of the notes, or drops the snapshot.
Loses(t) ==
    /\ Lives(entries[t])
    /\ \/ ~Lives(entries'[t])
       \/ ~IsPrefix(entries[t].notes, entries'[t].notes)
       \/ entries[t].summary /\ ~entries'[t].summary

\* Nothing that was recorded of a ticket is lost but by the operator, who had
\* read it (history.ts: one transaction, COALESCE, `AND revision = ?`).  The
\* exception is an entry begun after the one he read was deleted: revisions start
\* again, and a revision of the old one names the new one too.
NothingLostUnseen ==
    [][\A t \in TicketKeys : Loses(t) =>
        \/ Reading(t) = entries[t]
        \/ Lives(Reading(t)) /\ Reading(t).life # entries[t].life]_historyVars

\* The panel shows in the end what is in the table, whoever wrote it (main/push.ts
\* on history:changed: each surface would be blind to the other).
PanelCatchesUp == <>[](list = entries)

=============================================================================
