---------------------------- MODULE RecordsProofs ----------------------------
(***************************************************************************)
(* What agents leave behind of their work.  Of the ticket history: that    *)
(* nothing recorded of a ticket is lost but by the operator, who had read  *)
(* it, for any tickets and notes, however agents record meanwhile.  Of     *)
(* the updates and the prompts: that what is pruned is what is oldest, for *)
(* any sessions, ids and bounds, however posts of them alternate.          *)
(*                                                                         *)
(* A revision tells one state of an entry from another only within one     *)
(* life of it; LossTheorem rests on that, and says where it ends.          *)
(***************************************************************************)
EXTENDS History, Posts, SequenceTheorems, FiniteSetTheorems, WellFoundedInduction, TLAPS

-----------------------------------------------------------------------------
(* The ticket history.                                                     *)

\* What was read of a ticket's entry: of a life that has been, and of the one it is in now,
\* nothing newer than what is there, and the same if the revision is.
AsRead(t, copy) == Lives(copy) =>
    /\ copy.life <= lives[t]
    /\ Lives(entries[t]) /\ copy.life = entries[t].life =>
        /\ copy.revision <= entries[t].revision
        /\ copy.revision = entries[t].revision => copy = entries[t]

\* Every entry is the last life of its ticket.
OfThisLife == \A t \in TicketKeys : Lives(entries[t]) => entries[t].life = lives[t]

ListIsRead == \A t \in TicketKeys : AsRead(t, list[t])
DraftIsRead == draft # NoDraft => AsRead(draft.ticket, draft.shown)

CInv == HistoryTypeOK /\ OfThisLife /\ ListIsRead /\ DraftIsRead

USE HistoryAssumption

-----------------------------------------------------------------------------
\* An entry is there, and no entry is not.
LEMMA EntriesLive ==
    ASSUME NEW entry
    PROVE  /\ entry \in Entry => Lives(entry)
           /\ entry \in Entry \cup {NoEntry} /\ Lives(entry) => entry \in Entry
<1>1. entry \in Entry => entry.revision # 0
  BY DEF Entry
<1>2. NoEntry.revision = 0
  BY DEF NoEntry
<1>3. QED
  BY <1>1, <1>2 DEF Lives

\* The fields of an entry.
LEMMA Fields ==
    ASSUME NEW entry \in Entry
    PROVE  /\ entry.notes \in Seq(Pieces) /\ entry.summary \in BOOLEAN
           /\ entry.revision \in 1..MaxRevision /\ entry.life \in 1..MaxLives
  BY DEF Entry

\* mergeNotes: what was there is a prefix of what is made of it.
LEMMA MergedKeeps ==
    ASSUME NEW existing \in Seq(Pieces), NEW addition \in Seq(Pieces)
    PROVE  /\ Merged(existing, addition) \in Seq(Pieces)
           /\ IsPrefix(existing, Merged(existing, addition))
<1>1. Len(existing) \in Nat /\ Len(addition) \in Nat
  BY LenProperties
<1>2. IsPrefix(existing, existing)
  BY <1>1 DEF IsPrefix
<1>3. existing \o addition \in Seq(Pieces)
  BY ConcatProperties
<1>4. IsPrefix(existing, existing \o addition)
  <2> DEFINE all == existing \o addition
  <2>1. Len(all) = Len(existing) + Len(addition)
        /\ \A i \in 1..Len(existing) : all[i] = existing[i]
    BY <1>1, ConcatProperties
  <2> HIDE DEF all
  <2>2. SubSeq(existing, 1, Len(existing)) = [i \in 1..Len(existing) |-> existing[i]]
    BY <1>1
  <2>3. SubSeq(all, 1, Len(existing)) = [i \in 1..Len(existing) |-> all[i]]
    BY <1>1
  <2>4. SubSeq(existing, 1, Len(existing)) = SubSeq(all, 1, Len(existing))
    BY <2>1, <2>2, <2>3
  <2>5. IsPrefix(existing, all)
    BY <1>1, <2>1, <2>4 DEF IsPrefix
  <2>6. QED
    BY <2>5 DEF all
<1>5. QED
  BY <1>2, <1>3, <1>4 DEF Merged

\* An addition that fits leaves an entry, longer by no more than what fits.
LEMMA UpsertedEntry ==
    ASSUME NEW t \in TicketKeys, NEW entry \in Entry, NEW addition \in Additions,
           entry.revision < MaxRevision, Fits(entry.notes, addition)
    PROVE  LET merged == Upserted(t, entry, addition)
           IN  /\ merged \in Entry /\ Len(merged.notes) <= MaxNotes
               /\ merged.revision = entry.revision + 1 /\ merged.life = entry.life
               /\ IsPrefix(entry.notes, merged.notes)
               /\ entry.summary => merged.summary
<1> DEFINE notes == Merged(entry.notes, addition)
           summary == Snapshot(t, entry)
           merged == [entry EXCEPT !.notes = notes, !.summary = summary,
                                   !.revision = entry.revision + 1]
<1>1. Upserted(t, entry, addition) = merged
  BY DEF Upserted
<1>2. notes \in Seq(Pieces) /\ IsPrefix(entry.notes, notes) /\ Len(notes) <= MaxNotes
  BY Fields, MergedKeeps DEF Fits
<1>3. summary \in BOOLEAN /\ (entry.summary => summary)
  BY Fields, EntriesLive DEF Snapshot
<1>4. entry.revision + 1 \in 1..MaxRevision
  BY Fields
<1> HIDE DEF notes, summary
<1>5. merged \in Entry /\ merged.notes = notes /\ merged.summary = summary
      /\ merged.revision = entry.revision + 1 /\ merged.life = entry.life
  BY <1>2, <1>3, <1>4 DEF Entry
<1>6. QED
  BY <1>1, <1>2, <1>3, <1>5

\* A first record begins a life.
LEMMA BeganEntry ==
    ASSUME HistoryTypeOK, NEW t \in TicketKeys, NEW addition \in Additions, lives[t] < MaxLives
    PROVE  /\ Began(t, addition) \in Entry /\ Len(Began(t, addition).notes) <= MaxNotes
           /\ Began(t, addition).life = lives[t] + 1
<1>1. lives[t] + 1 \in 1..MaxLives /\ 1 \in 1..MaxRevision
  BY DEF HistoryTypeOK
<1>2. addition \in Seq(Pieces) /\ Len(addition) <= MaxNotes
  OBVIOUS
<1>3. Snapshot(t, NoEntry) \in BOOLEAN
  BY DEF Snapshot, Lives
<1>4. QED
  BY <1>1, <1>2, <1>3 DEF Began, Entry

-----------------------------------------------------------------------------
\* A write to one entry, by which it goes on to its next revision, begins its next life,
\* or ends: what has been read stays so.
LEMMA WriteKeeps ==
    ASSUME CInv, NEW t \in TicketKeys, NEW entry \in Entry \cup {NoEntry},
           NEW life \in 0..MaxLives,
           entries' = [entries EXCEPT ![t] = entry],
           lives' = [lives EXCEPT ![t] = life],
           UNCHANGED <<list, mirrored>>, stale' \in BOOLEAN,
           draft' \in {draft, NoDraft}, saving' \in {"no", "won", "lost"},
           confirming' \in TicketKeys \cup {NoTicket},
           Lives(entry) => Len(entry.notes) <= MaxNotes /\ entry.life = life,
           \/ ~Lives(entry) /\ life = lives[t]
           \/ ~Lives(entries[t]) /\ life = lives[t] + 1
           \/ /\ Lives(entries[t]) /\ Lives(entry) /\ life = lives[t]
              /\ entry.revision = entries[t].revision + 1
    PROVE  CInv'
<1>1. entries \in [TicketKeys -> Entry \cup {NoEntry}] /\ lives \in [TicketKeys -> 0..MaxLives]
      /\ list \in [TicketKeys -> Entry \cup {NoEntry}]
      /\ draft \in [ticket : TicketKeys, shown : Entry] \cup {NoDraft}
  BY DEF CInv, HistoryTypeOK
<1>2. HistoryTypeOK'
  <2>1. entries' \in [TicketKeys -> Entry \cup {NoEntry}] /\ lives' \in [TicketKeys -> 0..MaxLives]
    BY <1>1
  <2>2. \A s \in TicketKeys : Lives(entries'[s]) => Len(entries'[s].notes) <= MaxNotes
    BY <1>1 DEF CInv, HistoryTypeOK
  <2>3. QED
    BY <1>1, <2>1, <2>2 DEF CInv, HistoryTypeOK
<1>3. OfThisLife'
  BY <1>1 DEF CInv, OfThisLife
<1>4. ASSUME NEW s \in TicketKeys, NEW copy \in Entry \cup {NoEntry}, AsRead(s, copy)
      PROVE  AsRead(s, copy)'
  <2>1. CASE s # t
    BY <1>1, <1>4, <2>1 DEF AsRead
  <2>2. CASE s = t /\ Lives(copy)
    <3>1. copy.life \in Nat /\ copy.revision \in Nat /\ copy.life <= lives[t] /\ lives[t] \in Nat
      BY <1>1, <1>4, <2>2, EntriesLive, Fields DEF AsRead
    <3>2. lives'[t] = life /\ entries'[t] = entry
      BY <1>1
    <3>3. CASE ~Lives(entry) /\ life = lives[t]
      BY <2>2, <3>1, <3>2, <3>3 DEF AsRead
    <3>4. CASE ~Lives(entries[t]) /\ life = lives[t] + 1
      BY <2>2, <3>1, <3>2, <3>4 DEF AsRead
    <3>5. CASE /\ Lives(entries[t]) /\ Lives(entry) /\ life = lives[t]
               /\ entry.revision = entries[t].revision + 1
      <4>1. entries[t].life = lives[t] /\ entry.life = lives[t] /\ entries[t].revision \in Nat
        BY <1>1, <3>5, EntriesLive, Fields DEF CInv, OfThisLife
      <4>2. copy.life = entry.life => copy.revision <= entries[t].revision
        BY <1>4, <2>2, <3>5, <4>1 DEF AsRead
      <4>3. QED
        BY <2>2, <3>1, <3>2, <3>5, <4>1, <4>2 DEF AsRead
    <3>6. QED
      BY <3>3, <3>4, <3>5
  <2>3. CASE ~Lives(copy)
    BY <2>3 DEF AsRead
  <2>4. QED
    BY <2>1, <2>2, <2>3
<1>5. ListIsRead'
  BY <1>1, <1>4 DEF CInv, ListIsRead
<1>6. DraftIsRead'
  <2>1. CASE draft' = NoDraft
    BY <2>1 DEF DraftIsRead
  <2>2. CASE draft' = draft /\ draft # NoDraft
    <3>1. draft.ticket \in TicketKeys /\ draft.shown \in Entry /\ AsRead(draft.ticket, draft.shown)
      BY <1>1, <2>2 DEF CInv, DraftIsRead
    <3>2. AsRead(draft.ticket, draft.shown)'
      BY <1>4, <2>2, <3>1 DEF AsRead
    <3>3. QED
      BY <3>2 DEF DraftIsRead
  <2>3. QED
    BY <2>1, <2>2
<1>7. QED
  BY <1>2, <1>3, <1>5, <1>6 DEF CInv

\* A step that writes no entry and reads none.
LEMMA ElseKeeps ==
    ASSUME CInv, UNCHANGED <<entries, list, lives>>, mirrored' \subseteq TicketKeys,
           stale' \in BOOLEAN, draft' \in {draft, NoDraft}, saving' \in {"no", "won", "lost"},
           confirming' \in TicketKeys \cup {NoTicket}
    PROVE  CInv'
<1>1. HistoryTypeOK'
  BY DEF CInv, HistoryTypeOK
<1>2. OfThisLife' /\ ListIsRead'
  BY DEF CInv, OfThisLife, ListIsRead, AsRead
<1>3. DraftIsRead'
  <2>1. CASE draft' = NoDraft
    BY <2>1 DEF DraftIsRead
  <2>2. CASE draft' = draft
    BY <2>2 DEF CInv, DraftIsRead, AsRead
  <2>3. QED
    BY <2>1, <2>2
<1>4. QED
  BY <1>1, <1>2, <1>3 DEF CInv

-----------------------------------------------------------------------------
\* history.record goes on with the entry, or begins one.
LEMMA RecordKeeps ==
    ASSUME CInv, NEW t \in TicketKeys, NEW addition \in Additions, Record(t, addition)
    PROVE  CInv'
<1>1. HistoryTypeOK /\ entries[t] \in Entry \cup {NoEntry} /\ lives[t] \in 0..MaxLives
      /\ lives \in [TicketKeys -> 0..MaxLives]
  BY DEF CInv, HistoryTypeOK
<1>2. UNCHANGED <<list, mirrored, draft, saving, confirming>> /\ stale' = TRUE
  BY DEF Record, panel
<1>3. saving' \in {"no", "won", "lost"} /\ confirming' \in TicketKeys \cup {NoTicket}
      /\ draft' \in {draft, NoDraft}
  BY <1>1, <1>2 DEF HistoryTypeOK
<1>4. CASE Lives(entries[t])
  <2> DEFINE merged == Upserted(t, entries[t], addition)
  <2>1. entries[t] \in Entry
    BY <1>1, <1>4, EntriesLive
  <2>2. Fits(entries[t].notes, addition) /\ entries[t].revision < MaxRevision
        /\ entries' = [entries EXCEPT ![t] = merged] /\ lives' = lives
    BY <1>4 DEF Record
  <2>3. /\ merged \in Entry /\ Len(merged.notes) <= MaxNotes
        /\ merged.revision = entries[t].revision + 1 /\ merged.life = entries[t].life
    BY <2>1, <2>2, UpsertedEntry
  <2>4. Lives(merged) /\ entries[t].life = lives[t] /\ lives' = [lives EXCEPT ![t] = lives[t]]
    BY <1>1, <1>4, <2>2, <2>3, EntriesLive DEF CInv, OfThisLife
  <2> HIDE DEF merged
  <2>5. QED
    BY <1>1, <1>2, <1>3, <1>4, <2>2, <2>3, <2>4, WriteKeeps
<1>5. CASE ~Lives(entries[t])
  <2> DEFINE first == Began(t, addition)
             life == lives[t] + 1
  <2>1. lives[t] < MaxLives /\ entries' = [entries EXCEPT ![t] = first]
        /\ lives' = [lives EXCEPT ![t] = life]
    BY <1>5 DEF Record
  <2>2. first \in Entry /\ Len(first.notes) <= MaxNotes /\ first.life = life
    BY <1>1, <2>1, BeganEntry
  <2>3. life \in 0..MaxLives
    BY <1>1, <2>1
  <2> HIDE DEF first
  <2>4. QED
    BY <1>2, <1>3, <1>5, <2>1, <2>2, <2>3, WriteKeeps
<1>6. QED
  BY <1>4, <1>5

\* A save writes over the revision it names, or is refused.
LEMMA SaveKeeps ==
    ASSUME CInv, NEW notes \in Revisions, Save(notes)
    PROVE  CInv'
<1> DEFINE t == draft.ticket
           entry == [entries[t] EXCEPT !.notes = notes, !.revision = entries[t].revision + 1]
<1>1. HistoryTypeOK /\ lives \in [TicketKeys -> 0..MaxLives]
      /\ entries \in [TicketKeys -> Entry \cup {NoEntry}]
  BY DEF CInv, HistoryTypeOK
<1>2. t \in TicketKeys /\ draft.shown \in Entry
  BY DEF CInv, HistoryTypeOK, Save
<1>3. UNCHANGED <<list, mirrored, draft, confirming, lives>> /\ stale' = TRUE
      /\ saving' \in {"no", "won", "lost"}
  BY DEF Save
<1>4. confirming' \in TicketKeys \cup {NoTicket} /\ draft' \in {draft, NoDraft}
      /\ mirrored' \subseteq TicketKeys
  BY <1>1, <1>3 DEF HistoryTypeOK
<1>5. CASE Matches(t, DraftRevision)
  <2>1. Lives(entries[t]) /\ entries[t] \in Entry /\ entries[t].revision < MaxRevision
    BY <1>1, <1>2, <1>5, EntriesLive DEF Save, Matches
  <2>2. entries' = [entries EXCEPT ![t] = entry]
    BY <1>1, <1>2, <1>5 DEF Save
  <2>3. notes \in Seq(Pieces) /\ Len(notes) <= MaxNotes
    OBVIOUS
  <2>4. entry \in Entry /\ entry.notes = notes /\ entry.revision = entries[t].revision + 1
        /\ entry.life = entries[t].life
    <3> DEFINE old == entries[t]
    <3>1. old.revision + 1 \in 1..MaxRevision /\ old \in Entry
      BY <2>1, Fields
    <3> HIDE DEF old
    <3>2. LET new == [old EXCEPT !.notes = notes, !.revision = old.revision + 1]
          IN  new \in Entry /\ new.notes = notes /\ new.revision = old.revision + 1
              /\ new.life = old.life
      BY <2>3, <3>1 DEF Entry
    <3>3. QED
      BY <3>2 DEF old
  <2>5. Lives(entry) /\ entries[t].life = lives[t] /\ lives' = [lives EXCEPT ![t] = lives[t]]
        /\ lives[t] \in 0..MaxLives
    BY <1>1, <1>2, <1>3, <2>1, <2>4, EntriesLive DEF CInv, OfThisLife
  <2> HIDE DEF entry, t
  <2>6. QED
    BY <1>2, <1>3, <1>4, <2>1, <2>2, <2>3, <2>4, <2>5, WriteKeeps
<1>6. CASE ~Matches(t, DraftRevision)
  <2>1. UNCHANGED entries
    BY <1>6 DEF Save
  <2>2. QED
    BY <1>3, <1>4, <2>1, ElseKeeps
<1>7. QED
  BY <1>5, <1>6

\* A deletion ends the revision it names, or does nothing.
LEMMA DeleteKeeps ==
    ASSUME CInv, NEW t \in TicketKeys, Delete(t)
    PROVE  CInv'
<1>1. HistoryTypeOK /\ lives \in [TicketKeys -> 0..MaxLives] /\ lives[t] \in 0..MaxLives
  BY DEF CInv, HistoryTypeOK
<1>2. UNCHANGED <<list, mirrored, draft, saving, lives>> /\ stale' = TRUE /\ confirming' = NoTicket
  BY DEF Delete
<1>3. confirming' \in TicketKeys \cup {NoTicket} /\ draft' \in {draft, NoDraft}
      /\ mirrored' \subseteq TicketKeys /\ saving' \in {"no", "won", "lost"}
  BY <1>1, <1>2 DEF HistoryTypeOK
<1>4. CASE Matches(t, list[t].revision)
  <2>1. entries' = [entries EXCEPT ![t] = NoEntry] /\ lives' = [lives EXCEPT ![t] = lives[t]]
    BY <1>1, <1>2, <1>4 DEF Delete
  <2>2. NoEntry \in Entry \cup {NoEntry} /\ ~Lives(NoEntry)
    BY DEF Lives
  <2>3. QED
    BY <1>1, <1>2, <1>3, <2>1, <2>2, WriteKeeps
<1>5. CASE ~Matches(t, list[t].revision)
  <2>1. UNCHANGED entries
    BY <1>5 DEF Delete
  <2>2. QED
    BY <1>2, <1>3, <2>1, ElseKeeps
<1>6. QED
  BY <1>4, <1>5

\* The list is read again: it is the table.
LEMMA RefetchKeeps == ASSUME CInv, Refetched PROVE CInv'
<1>1. HistoryTypeOK' /\ OfThisLife'
  BY DEF CInv, HistoryTypeOK, OfThisLife, Refetched, panel
<1>2. ListIsRead'
  <2> SUFFICES ASSUME NEW t \in TicketKeys, Lives(entries[t])
               PROVE  entries[t].life <= lives[t] /\ entries[t].revision <= entries[t].revision
    BY DEF ListIsRead, AsRead, Refetched
  <2>1. entries[t] \in Entry /\ entries[t].life = lives[t]
    BY EntriesLive DEF CInv, HistoryTypeOK, OfThisLife
  <2>2. QED
    BY <2>1, Fields
<1>3. DraftIsRead'
  BY DEF CInv, DraftIsRead, AsRead, Refetched, panel
<1>4. QED
  BY <1>1, <1>2, <1>3 DEF CInv

\* The editor opens on what is drawn.
LEMMA EditKeeps == ASSUME CInv, NEW t \in TicketKeys, Edit(t) PROVE CInv'
<1>1. UNCHANGED <<entries, mirrored, list, stale, saving, lives>> /\ confirming' = NoTicket
      /\ draft' = [ticket |-> t, shown |-> list[t]]
  BY DEF Edit
<1>2. list[t] \in Entry
  BY EntriesLive DEF CInv, HistoryTypeOK, Edit, Drawn
<1>3. HistoryTypeOK'
  BY <1>1, <1>2 DEF CInv, HistoryTypeOK
<1>4. OfThisLife' /\ ListIsRead' /\ AsRead(t, list[t])'
  BY <1>1 DEF CInv, OfThisLife, ListIsRead, AsRead
<1>5. DraftIsRead'
  BY <1>1, <1>4 DEF DraftIsRead, AsRead
<1>6. QED
  BY <1>3, <1>4, <1>5 DEF CInv

\* What has been read stays so.
LEMMA CurationInductive == HistorySpec => []CInv
<1>1. HistoryInit => CInv
  <2> SUFFICES ASSUME HistoryInit PROVE CInv
    OBVIOUS
  <2>1. \A t \in TicketKeys : entries[t] = NoEntry /\ list[t] = NoEntry /\ lives[t] = 0
    BY DEF HistoryInit
  <2>2. \A t \in TicketKeys : ~Lives(entries[t]) /\ ~Lives(list[t])
    BY <2>1 DEF Lives
  <2>3. entries \in [TicketKeys -> Entry \cup {NoEntry}]
        /\ lives \in [TicketKeys -> 0..MaxLives]
    BY DEF HistoryInit
  <2>4. HistoryTypeOK
    BY <2>2, <2>3 DEF HistoryInit, HistoryTypeOK
  <2>5. OfThisLife /\ ListIsRead
    BY <2>2 DEF OfThisLife, ListIsRead, AsRead
  <2>6. DraftIsRead
    BY DEF HistoryInit, DraftIsRead
  <2>7. QED
    BY <2>4, <2>5, <2>6 DEF CInv
<1>2. CInv /\ [HistoryNext]_historyVars => CInv'
  <2> SUFFICES ASSUME CInv, [HistoryNext]_historyVars
               PROVE  CInv'
    OBVIOUS
  <2>1. ASSUME NEW t \in TicketKeys, NEW addition \in Additions, Record(t, addition)
        PROVE  CInv'
    BY <2>1, RecordKeeps
  <2>2. ASSUME NEW t \in TicketKeys, NEW addition \in Additions, RecordRefused(t, addition)
        PROVE  CInv'
    BY <2>2, ElseKeeps DEF RecordRefused, panel, CInv, HistoryTypeOK
  <2>3. ASSUME NEW t \in TicketKeys, SyncMoves(t)
        PROVE  CInv'
    BY <2>3, ElseKeeps DEF SyncMoves, panel, CInv, HistoryTypeOK
  <2>4. ASSUME NEW t \in TicketKeys, Edit(t)
        PROVE  CInv'
    BY <2>4, EditKeeps
  <2>5. ASSUME NEW t \in TicketKeys, AskDelete(t)
        PROVE  CInv'
    BY <2>5, ElseKeeps DEF AskDelete, CInv, HistoryTypeOK
  <2>6. ASSUME NEW t \in TicketKeys, Delete(t)
        PROVE  CInv'
    BY <2>6, DeleteKeeps
  <2>7. ASSUME NEW notes \in Revisions, Save(notes)
        PROVE  CInv'
    BY <2>7, SaveKeeps
  <2>8. CASE Cancel
    BY <2>8, ElseKeeps DEF Cancel, CInv, HistoryTypeOK
  <2>9. CASE Answered
    BY <2>9, ElseKeeps DEF Answered, CInv, HistoryTypeOK
  <2>10. CASE TakeBack
    BY <2>10, ElseKeeps DEF TakeBack, CInv, HistoryTypeOK
  <2>11. CASE Refetched
    BY <2>11, RefetchKeeps
  <2>12. CASE UNCHANGED historyVars
    BY <2>12, ElseKeeps DEF historyVars, CInv, HistoryTypeOK
  <2>13. QED
    BY <2>1, <2>2, <2>3, <2>4, <2>5, <2>6, <2>7, <2>8, <2>9, <2>10, <2>11, <2>12
       DEF HistoryNext
<1>3. QED
  BY <1>1, <1>2, PTL DEF HistorySpec

\* The table, the list and the panel keep their types.
THEOREM HistoryTypeTheorem == HistorySpec => []HistoryTypeOK
<1>1. CInv => HistoryTypeOK
  BY DEF CInv
<1>2. QED
  BY <1>1, CurationInductive, PTL

-----------------------------------------------------------------------------
\* A record loses nothing, of any ticket.
LEMMA RecordLosesNothing ==
    ASSUME CInv, NEW t \in TicketKeys, NEW addition \in Additions, Record(t, addition),
           NEW s \in TicketKeys
    PROVE  ~Loses(s)
<1>1. entries \in [TicketKeys -> Entry \cup {NoEntry}]
  BY DEF CInv, HistoryTypeOK
<1>2. SUFFICES ASSUME Loses(s)
               PROVE  FALSE
  OBVIOUS
<1>3. Lives(entries[s]) /\ entries[s] \in Entry
  BY <1>1, <1>2, EntriesLive DEF Loses
<1>4. CASE entries'[s] = entries[s]
  <2>1. IsPrefix(entries[s].notes, entries[s].notes)
    BY <1>3, Fields DEF IsPrefix
  <2>2. QED
    BY <1>2, <1>4, <2>1 DEF Loses
<1>5. CASE s = t
  <2> DEFINE merged == Upserted(t, entries[t], addition)
  <2>1. Fits(entries[t].notes, addition) /\ entries[t].revision < MaxRevision
        /\ entries'[t] = merged
    BY <1>1, <1>3, <1>5 DEF Record
  <2>2. merged \in Entry /\ IsPrefix(entries[t].notes, merged.notes)
        /\ (entries[t].summary => merged.summary)
    BY <1>3, <1>5, <2>1, UpsertedEntry
  <2> HIDE DEF merged
  <2>3. QED
    BY <1>2, <1>5, <2>1, <2>2, EntriesLive DEF Loses
<1>6. CASE s # t
  <2>1. entries'[s] = entries[s]
    BY <1>1, <1>6 DEF Record
  <2>2. QED
    BY <1>4, <2>1
<1>7. QED
  BY <1>5, <1>6

\* A step that leaves an entry as it was loses nothing of it.
LEMMA SameLosesNothing ==
    ASSUME CInv, NEW s \in TicketKeys, entries'[s] = entries[s]
    PROVE  ~Loses(s)
<1>1. SUFFICES ASSUME Loses(s)
               PROVE  FALSE
  OBVIOUS
<1>2. entries[s] \in Entry
  BY <1>1, EntriesLive DEF Loses, CInv, HistoryTypeOK
<1>3. IsPrefix(entries[s].notes, entries[s].notes)
  BY <1>2, Fields DEF IsPrefix
<1>4. QED
  BY <1>1, <1>3 DEF Loses

\* What a write may lose: what the writer had read, unless the life he read of has ended.
Knows(s) ==
    \/ Reading(s) = entries[s]
    \/ Lives(Reading(s)) /\ Reading(s).life # entries[s].life

\* A save that loses something replaces what the editor was opened on.
LEMMA SaveKnows ==
    ASSUME CInv, NEW notes \in Revisions, Save(notes), NEW s \in TicketKeys, Loses(s)
    PROVE  Knows(s)
<1>1. entries \in [TicketKeys -> Entry \cup {NoEntry}]
      /\ draft \in [ticket : TicketKeys, shown : Entry] /\ draft # NoDraft
  BY DEF CInv, HistoryTypeOK, Save
<1>2. s = draft.ticket /\ Matches(s, DraftRevision) /\ entries[s].revision < MaxRevision
      /\ entries' = [entries EXCEPT ![s].notes = notes, ![s].revision = @ + 1]
  BY <1>1, SameLosesNothing DEF Save
<1>3. Lives(entries[s]) /\ entries[s].revision = draft.shown.revision /\ entries[s] \in Entry
  BY <1>1, <1>2, EntriesLive DEF Matches, DraftRevision
<1>4. Lives(entries'[s])
  <2>1. entries'[s].revision = entries[s].revision + 1
    BY <1>1, <1>2, <1>3 DEF Entry
  <2>2. entries'[s].revision # 0
    BY <1>3, <2>1, Fields
  <2>3. QED
    BY <2>2 DEF Lives, NoEntry
<1>5. Reading(s) = draft.shown
  BY <1>1, <1>4 DEF Reading
<1>6. draft.shown \in Entry /\ Lives(draft.shown) /\ AsRead(s, draft.shown)
  BY <1>1, <1>2, EntriesLive DEF CInv, DraftIsRead
<1>7. QED
  BY <1>3, <1>5, <1>6 DEF AsRead, Knows

\* A deletion removes what the list shows.
LEMMA DeleteKnows ==
    ASSUME CInv, NEW t \in TicketKeys, Delete(t), NEW s \in TicketKeys, Loses(s)
    PROVE  Knows(s)
<1>1. entries \in [TicketKeys -> Entry \cup {NoEntry}]
  BY DEF CInv, HistoryTypeOK
<1>2. s = t /\ Matches(t, list[t].revision) /\ entries'[t] = NoEntry
  BY <1>1, SameLosesNothing DEF Delete
<1>3. Lives(list[s]) /\ Reading(s) = list[s] /\ AsRead(s, list[s])
  BY <1>2 DEF Delete, Drawn, Reading, Lives, CInv, ListIsRead
<1>4. QED
  BY <1>2, <1>3 DEF AsRead, Matches, Knows

\* Nothing that was recorded of a ticket is lost but by the operator, who had read it, or
\* had read an entry of that ticket that was deleted since.
THEOREM LossTheorem == HistorySpec => NothingLostUnseen
<1> DEFINE Seen == \A t \in TicketKeys : Loses(t) =>
             \/ Reading(t) = entries[t]
             \/ Lives(Reading(t)) /\ Reading(t).life # entries[t].life
<1>1. CInv /\ [HistoryNext]_historyVars => [Seen]_historyVars
  <2> SUFFICES ASSUME CInv, HistoryNext, NEW s \in TicketKeys, Loses(s)
               PROVE  Knows(s)
    BY DEF Knows
  <2>1. entries'[s] # entries[s]
    BY SameLosesNothing
  <2>2. CASE \E t \in TicketKeys, addition \in Additions : Record(t, addition)
    BY <2>2, RecordLosesNothing
  <2>3. CASE \E t \in TicketKeys : Delete(t)
    BY <2>3, DeleteKnows
  <2>4. CASE \E notes \in Revisions : Save(notes)
    BY <2>4, SaveKnows
  <2>5. QED
    BY <2>1, <2>2, <2>3, <2>4 DEF HistoryNext, RecordRefused, SyncMoves, Edit, AskDelete,
       Cancel, Answered, TakeBack, Refetched
<1>2. QED
  BY <1>1, CurationInductive, PTL DEF HistorySpec, NothingLostUnseen

-----------------------------------------------------------------------------
(* The posts: what is pruned is what is oldest.                            *)

\* Rows that could be of one table: no two have an id.
AreRows(rows) ==
    /\ IsFiniteSet(rows)
    /\ \A u \in rows : u.id \in Nat /\ u.at \in Nat
    /\ \A u, v \in rows : u.id = v.id => u = v

PostsInv ==
    /\ PostsTypeOK /\ NewestKept
    /\ AreRows(posted) /\ AreRows(recorded)

HIDE HistoryAssumption
USE PostsAssumption

\* Part of a table is one, too, and rows of it are ordered.
LEMMA PartsAreRows ==
    ASSUME NEW rows, AreRows(rows), NEW part \in SUBSET rows
    PROVE  AreRows(part) /\ IsFiniteSet(part)
           /\ Cardinality(part) \in Nat /\ Cardinality(part) <= Cardinality(rows)
  BY FS_Subset, FS_CardinalityType DEF AreRows

LEMMA RowsAreOrdered ==
    ASSUME NEW rows, AreRows(rows)
    PROVE  /\ \A u \in rows : ~NewerThan(u, u)
           /\ \A u, v \in rows : u # v => NewerThan(u, v) \/ NewerThan(v, u)
           /\ \A u, v, w \in rows : NewerThan(u, v) /\ NewerThan(v, w) => NewerThan(u, w)
  BY DEF AreRows, NewerThan

\* One of them is older than all others.
LEMMA HasOldest ==
    ASSUME NEW rows, AreRows(rows), rows # {}
    PROVE  \E u \in rows : \A v \in rows \ {u} : NewerThan(v, u)
<1> DEFINE Before(u) == {v \in rows : NewerThan(u, v)}
           heads == {Before(u) : u \in rows}
<1>1. heads \subseteq FiniteSubsetsOf(rows) /\ heads # {}
  <2>1. ASSUME NEW u \in rows
        PROVE  Before(u) \in SUBSET rows
    OBVIOUS
  <2> HIDE DEF Before
  <2>2. \A u \in rows : IsFiniteSet(Before(u))
    BY <2>1, FS_Subset DEF AreRows
  <2>3. QED
    BY <2>1, <2>2 DEF FiniteSubsetsOf
<1>2. PICK head \in heads : \A other \in heads : ~(<<other, head>> \in StrictSubsetOrdering(rows))
  <2> HIDE DEF heads
  <2>1. QED
    BY <1>1, FS_StrictSubsetOrderingWellFounded, WFMin
<1>3. PICK u \in rows : head = Before(u)
  BY <1>2
<1>4. ASSUME NEW v \in rows, NewerThan(u, v)
      PROVE  FALSE
  <2>1. v \in Before(u) /\ v \notin Before(v)
    BY <1>4, RowsAreOrdered
  <2>2. Before(v) \subseteq Before(u)
    BY <1>4, RowsAreOrdered
  <2>3. Before(v) \in heads /\ Before(v) \subseteq rows /\ Before(u) \subseteq rows
    OBVIOUS
  <2> HIDE DEF Before, heads
  <2>4. QED
    BY <1>2, <1>3, <2>1, <2>2, <2>3 DEF StrictSubsetOrdering
<1>5. QED
  BY <1>4, RowsAreOrdered

\* LIMIT limit: no more than that many, and of the others each has as many before it.
LEMMA NewestIsLimited ==
    ASSUME NEW rows, AreRows(rows), NEW limit \in Nat
    PROVE  /\ Newest(rows, limit) \subseteq rows
           /\ Cardinality(Newest(rows, limit)) <= limit
           /\ \A u \in rows \ Newest(rows, limit) :
                 Cardinality({v \in rows : NewerThan(v, u)}) >= limit
<1> DEFINE newest == Newest(rows, limit)
           Above(u) == {v \in rows : NewerThan(v, u)}
<1>1. newest \subseteq rows /\ \A u \in newest : Cardinality(Above(u)) < limit
  BY DEF Newest
<1>2. AreRows(newest) /\ Cardinality(newest) \in Nat
  <2> HIDE DEF newest
  <2>1. QED
    BY <1>1, PartsAreRows
<1>3. \A u \in rows : Cardinality(Above(u)) \in Nat
  <2>1. \A u \in rows : Above(u) \in SUBSET rows
    OBVIOUS
  <2> HIDE DEF Above
  <2>2. QED
    BY <2>1, PartsAreRows
<1>4. \A u \in rows \ newest : Cardinality(Above(u)) >= limit
  <2>1. \A u \in rows : u \in newest <=> Cardinality(Above(u)) < limit
    BY DEF Newest
  <2> HIDE DEF newest, Above
  <2>2. QED
    BY <1>3, <2>1
<1>5. Cardinality(newest) <= limit
  <2>1. CASE newest = {}
    BY <2>1, FS_EmptySet
  <2>2. CASE newest # {}
    <3> HIDE DEF newest
    <3>1. PICK u \in newest : \A v \in newest \ {u} : NewerThan(v, u)
      BY <1>2, <2>2, HasOldest
    <3>2. newest \ {u} \in SUBSET Above(u)
      BY <1>1, <3>1
    <3>3. IsFiniteSet(Above(u)) /\ IsFiniteSet(newest)
      BY <1>1, <1>2, PartsAreRows DEF AreRows
    <3> HIDE DEF Above
    <3>4. Cardinality(newest \ {u}) <= Cardinality(Above(u))
      BY <3>2, <3>3, FS_Subset
    <3>5. Cardinality(newest \ {u}) = Cardinality(newest) - 1
      BY <3>3, FS_RemoveElement
    <3>6. Cardinality(Above(u)) \in Nat /\ Cardinality(Above(u)) < limit
      BY <1>1, <1>3
    <3>7. QED
      BY <1>2, <3>4, <3>5, <3>6
  <2>3. QED
    BY <2>1, <2>2
<1>6. QED
  BY <1>1, <1>4, <1>5

\* Rows that come later take nothing from those that were before a row.
LEMMA MoreAbove ==
    ASSUME NEW all, AreRows(all), NEW rows \in SUBSET all, NEW u
    PROVE  Cardinality({v \in all : NewerThan(v, u)}) \in Nat
           /\ Cardinality({v \in rows : NewerThan(v, u)}) \in Nat
           /\ Cardinality({v \in all : NewerThan(v, u)})
                >= Cardinality({v \in rows : NewerThan(v, u)})
<1> DEFINE above == {v \in all : NewerThan(v, u)}
           some == {v \in rows : NewerThan(v, u)}
<1>1. above \in SUBSET all /\ some \in SUBSET above
  OBVIOUS
<1> HIDE DEF above, some
<1>2. AreRows(above) /\ Cardinality(above) \in Nat
  BY <1>1, PartsAreRows
<1>3. Cardinality(some) \in Nat /\ Cardinality(some) <= Cardinality(above)
  BY <1>1, <1>2, PartsAreRows
<1>4. QED
  BY <1>2, <1>3 DEF above, some

\* A row with an id that was not used fits in.
LEMMA UnusedFits ==
    ASSUME PostsInv, NEW row, row.id \in Unused, row.at = clock,
           NEW rows \in {posted, recorded}
    PROVE  AreRows(rows \cup {row})
<1>1. IsFiniteSet(rows \cup {row})
  BY FS_AddElement DEF PostsInv, AreRows
<1>2. row.id \in Nat /\ row.at \in Nat
  <2>1. row.id \in Ids /\ Ids \subseteq Nat
    BY PostsAssumption DEF Unused
  <2>2. clock \in 0..LastInstant
    BY DEF PostsInv, PostsTypeOK, Instants
  <2>3. clock \in Nat
    BY <2>2
  <2>4. QED
    BY <2>1, <2>3
<1>3. \A u \in rows : u.id # row.id
  BY DEF Unused
<1>4. QED
  BY <1>1, <1>2, <1>3 DEF PostsInv, AreRows

\* An update is posted, and its session's are pruned.
LEMMA PostKeeps ==
    ASSUME PostsInv, NEW k \in SessionKeys, NEW id \in Unused, Post(k, id)
    PROVE  PostsInv'
<1> DEFINE row == [id |-> id, session |-> k, agent |-> OwnerOf[k],
                   ticket |-> ActiveTicket, at |-> clock]
           all == updates \cup {row}
           kept == Newest(Of(all, k), Retention)
<1>1. /\ k \in begun /\ posted' = posted \cup {row}
      /\ updates' = (all \ Of(all, k)) \cup kept
      /\ UNCHANGED <<clock, begun, active, prompts, recorded, deleted>>
  BY DEF Post, Pruned
<1>2. row \in Update /\ row.id = id /\ row.at = clock /\ row.session = k
      /\ row.agent = OwnerOf[k]
  <2>1. ActiveTicket \in Focusable \cup {Nothing} /\ OwnerOf[k] \in Agents
    BY PostsAssumption DEF PostsInv, PostsTypeOK, ActiveTicket, Focus
  <2>2. id \in Ids /\ clock \in Instants
    BY DEF PostsInv, PostsTypeOK, Unused
  <2>3. QED
    BY <2>1, <2>2 DEF Update
<1> HIDE DEF row
<1>3. AreRows(posted \cup {row})
  BY <1>2, UnusedFits
<1>4. all \in SUBSET (posted \cup {row}) /\ Of(all, k) \in SUBSET all
  BY DEF PostsInv, PostsTypeOK, Of
<1>5. AreRows(all) /\ AreRows(Of(all, k))
  BY <1>3, <1>4, PartsAreRows
<1>6. /\ kept \subseteq Of(all, k) /\ Cardinality(kept) <= Retention
      /\ \A u \in Of(all, k) \ kept :
            Cardinality({v \in Of(all, k) : NewerThan(v, u)}) >= Retention
  BY <1>5, NewestIsLimited, PostsAssumption
<1> HIDE DEF kept
<1>7. /\ Of(updates', k) = kept
      /\ \A j \in SessionKeys \ {k} : Of(updates', j) = Of(updates, j)
  BY <1>1, <1>2, <1>6 DEF Of
<1>8. PostsTypeOK'
  <2>1. \A j \in SessionKeys : Cardinality(Of(updates', j)) <= Retention
    BY <1>6, <1>7 DEF PostsInv, PostsTypeOK, Of
  <2>2. updates' \subseteq posted' /\ posted' \subseteq Update
        /\ \A u \in updates' : u.session \in begun' /\ u.agent = OwnerOf[u.session]
    BY <1>1, <1>2, <1>4, <1>6 DEF PostsInv, PostsTypeOK, Of
  <2>3. QED
    BY <1>1, <2>1, <2>2 DEF PostsInv, PostsTypeOK, Of
<1>9. NewestKept'
  <2>1. ASSUME NEW u \in posted' \ updates'
        PROVE  Cardinality({v \in Of(posted', u.session) : NewerThan(v, u)}) >= Retention
    <3>1. AreRows(Of(posted', u.session))
      BY <1>1, <1>3, PartsAreRows DEF Of
    <3>2. ASSUME NEW rows \in SUBSET Of(posted', u.session),
                 Cardinality({v \in rows : NewerThan(v, u)}) >= Retention
          PROVE  Cardinality({v \in Of(posted', u.session) : NewerThan(v, u)}) >= Retention
      <4>1. /\ Cardinality({v \in Of(posted', u.session) : NewerThan(v, u)}) \in Nat
            /\ Cardinality({v \in rows : NewerThan(v, u)}) \in Nat
            /\ Cardinality({v \in Of(posted', u.session) : NewerThan(v, u)})
                 >= Cardinality({v \in rows : NewerThan(v, u)})
        BY <3>1, <3>2, MoreAbove
      <4>2. QED
        BY <3>2, <4>1, PostsAssumption
    <3>3. CASE u \in posted \ updates
      <4>1. Of(posted, u.session) \in SUBSET Of(posted', u.session)
        BY <1>1 DEF Of
      <4>2. Cardinality({v \in Of(posted, u.session) : NewerThan(v, u)}) >= Retention
        BY <3>3 DEF PostsInv, NewestKept
      <4>3. QED
        BY <3>2, <4>1, <4>2
    <3>4. CASE u \in all
      <4>1. u \in Of(all, k) \ kept /\ u.session = k
        BY <1>1, <3>4 DEF Of
      <4>2. Of(all, k) \in SUBSET Of(posted', u.session)
        BY <1>1, <1>4, <4>1 DEF Of
      <4>3. QED
        BY <1>6, <3>2, <4>1, <4>2
    <3>5. QED
      BY <1>1, <3>3, <3>4
  <2>2. \A p \in recorded' \ (prompts' \cup deleted') :
           Cardinality({q \in recorded' : NewerThan(q, p)}) >= PromptRetention
    BY <1>1 DEF PostsInv, NewestKept
  <2>3. QED
    BY <2>1, <2>2 DEF NewestKept
<1>10. QED
  BY <1>1, <1>3, <1>8, <1>9 DEF PostsInv

\* A prompt is recorded, and all are pruned.
LEMMA RecordPromptKeeps ==
    ASSUME PostsInv, NEW w \in Callers, NEW k \in SessionKeys \cup {Nothing}, NEW id \in Unused,
           RecordPrompt(w, k, id)
    PROVE  PostsInv'
<1> DEFINE row == [id |-> id, by |-> w, session |-> k, at |-> clock]
           all == prompts \cup {row}
           kept == Newest(all, PromptRetention)
<1>1. /\ recorded' = recorded \cup {row} /\ prompts' = kept
      /\ UNCHANGED <<clock, begun, active, updates, posted, deleted>>
  BY DEF RecordPrompt
<1>2. row \in Prompt /\ row.id = id /\ row.at = clock
  BY DEF PostsInv, PostsTypeOK, Unused, Prompt
<1> HIDE DEF row
<1>3. AreRows(recorded \cup {row})
  BY <1>2, UnusedFits
<1>4. all \in SUBSET (recorded \cup {row})
  BY DEF PostsInv, PostsTypeOK
<1>5. AreRows(all)
  BY <1>3, <1>4, PartsAreRows
<1>6. /\ kept \subseteq all /\ Cardinality(kept) <= PromptRetention
      /\ \A p \in all \ kept : Cardinality({q \in all : NewerThan(q, p)}) >= PromptRetention
  BY <1>5, NewestIsLimited, PostsAssumption
<1> HIDE DEF kept
<1>7. PostsTypeOK'
  BY <1>1, <1>2, <1>4, <1>6 DEF PostsInv, PostsTypeOK
<1>8. NewestKept'
  <2>1. ASSUME NEW p \in recorded' \ (prompts' \cup deleted')
        PROVE  Cardinality({q \in recorded' : NewerThan(q, p)}) >= PromptRetention
    <3>0. AreRows(recorded')
      BY <1>1, <1>3
    <3>1. ASSUME NEW rows \in SUBSET recorded',
                 Cardinality({q \in rows : NewerThan(q, p)}) >= PromptRetention
          PROVE  Cardinality({q \in recorded' : NewerThan(q, p)}) >= PromptRetention
      <4>1. /\ Cardinality({q \in recorded' : NewerThan(q, p)}) \in Nat
            /\ Cardinality({q \in rows : NewerThan(q, p)}) \in Nat
            /\ Cardinality({q \in recorded' : NewerThan(q, p)})
                 >= Cardinality({q \in rows : NewerThan(q, p)})
        BY <3>0, <3>1, MoreAbove
      <4>2. QED
        BY <3>1, <4>1, PostsAssumption
    <3>2. CASE p \in recorded \ prompts
      <4>1. recorded \in SUBSET recorded'
        BY <1>1
      <4>2. Cardinality({q \in recorded : NewerThan(q, p)}) >= PromptRetention
        BY <1>1, <3>2 DEF PostsInv, NewestKept
      <4>3. QED
        BY <3>1, <4>1, <4>2
    <3>3. CASE p \in all
      BY <1>1, <1>4, <1>6, <3>1, <3>3
    <3>4. QED
      BY <1>1, <3>2, <3>3
  <2>2. \A u \in posted' \ updates' :
           Cardinality({v \in Of(posted', u.session) : NewerThan(v, u)}) >= Retention
    BY <1>1 DEF PostsInv, NewestKept, Of
  <2>3. QED
    BY <2>1, <2>2 DEF NewestKept
<1>9. QED
  BY <1>1, <1>3, <1>7, <1>8 DEF PostsInv

\* The operator deletes a prompt, of which there is then nothing to keep.
LEMMA DeletePromptKeeps == ASSUME PostsInv, NEW p \in prompts, DeletePrompt(p) PROVE PostsInv'
<1>1. Cardinality(prompts \ {p}) \in Nat /\ Cardinality(prompts \ {p}) <= Cardinality(prompts)
      /\ Cardinality(prompts) \in Nat
  <2>1. AreRows(prompts) /\ Cardinality(prompts) \in Nat
    BY PartsAreRows DEF PostsInv, PostsTypeOK
  <2>2. prompts \ {p} \in SUBSET prompts
    OBVIOUS
  <2>3. QED
    BY <2>1, <2>2, PartsAreRows
<1>2. PostsTypeOK'
  BY <1>1 DEF PostsInv, PostsTypeOK, DeletePrompt, PostsAssumption
<1>3. NewestKept'
  BY DEF PostsInv, NewestKept, DeletePrompt, Of
<1>4. QED
  BY <1>2, <1>3 DEF PostsInv, DeletePrompt

\* However posts of several sessions, prompts and deletions alternate.
LEMMA PostsInductive == PostsSpec => []PostsInv
<1>1. PostsInit => PostsInv
  <2>1. AreRows({}) /\ Cardinality({}) = 0
    BY FS_EmptySet DEF AreRows
  <2>2. \A k \in SessionKeys : {u \in {} : u.session = k} = {}
    OBVIOUS
  <2>3. QED
    BY <2>1, <2>2, PostsAssumption DEF PostsInit, PostsInv, PostsTypeOK, NewestKept, Instants
<1>2. PostsInv /\ [PostsNext]_postsVars => PostsInv'
  <2>1. ASSUME PostsInv, \/ Pass \/ ClearFocus \/ UNCHANGED postsVars
                         \/ \E k \in SessionKeys : Begin(k)
                         \/ \E w \in Callers, t \in Focusable : SetFocus(w, t)
        PROVE  PostsInv'
    <3>1. UNCHANGED <<updates, prompts, posted, recorded, deleted>> /\ begun \subseteq begun'
      BY <2>1 DEF Pass, ClearFocus, Begin, SetFocus, postsVars, ghosts
    <3>2. clock' \in Instants /\ begun' \subseteq SessionKeys /\ active' \in Focus \cup {Nothing}
      BY <2>1, PostsAssumption DEF Pass, ClearFocus, Begin, SetFocus, postsVars, PostsInv,
         PostsTypeOK, Instants, Focus
    <3>3. QED
      BY <2>1, <3>1, <3>2 DEF PostsInv, PostsTypeOK, NewestKept, Of
  <2>2. QED
    BY <2>1, PostKeeps, RecordPromptKeeps, DeletePromptKeeps DEF PostsNext
<1>3. QED
  BY <1>1, <1>2, PTL DEF PostsSpec

-----------------------------------------------------------------------------
\* The tables keep their types and their bounds: no session has more updates than are kept
\* of each, and there are no more prompts than are kept.
THEOREM PostsTypeTheorem == PostsSpec => []PostsTypeOK
<1>1. PostsInv => PostsTypeOK
  BY DEF PostsInv
<1>2. QED
  BY <1>1, PostsInductive, PTL

\* What is missing of a session's updates, or of the prompts, is older than as many as are
\* kept (store/authored/updates.ts, prompts.ts).
THEOREM NewestTheorem == PostsSpec => []NewestKept
<1>1. PostsInv => NewestKept
  BY DEF PostsInv
<1>2. QED
  BY <1>1, PostsInductive, PTL

=============================================================================
