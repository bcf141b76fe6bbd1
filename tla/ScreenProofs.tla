----------------------------- MODULE ScreenProofs -----------------------------
(***************************************************************************)
(* What the operator has in front of him.  Of the query cache: that the    *)
(* window never rests on what it should have heard of, as whatever it does *)
(* not know is in a message under way, in a fetch, or in a call that has   *)
(* written and not ended.  Of what is arranged: that the board shows what  *)
(* will be stored once the patches under way have been.  Of the screen of  *)
(* projects: that the account on offer is taken.  Of the lane: that a sort *)
(* tells the truth, and a press opens what is pressed.                     *)
(***************************************************************************)
EXTENDS MCDesk, NotesProofs, SequenceTheorems, FiniteSetTheorems, TLAPS

-----------------------------------------------------------------------------
(* What is in the registry.                                                *)

\* The names of a file of ops/ begin with its own.
LEMMA NamesOfFiles ==
    ASSUME NEW op
    PROVE  /\ op \in OutboxOperations => op.name \in
                {"outbox.mintConfirmation", "outbox.enqueue", "outbox.pending", "outbox.list",
                 "outbox.claim", "outbox.complete", "outbox.fail", "outbox.cancel"}
           /\ op \in SessionsOperations => op.name \in
                {"sessions.list", "sessions.start", "sessions.heartbeat",
                 "sessions.activity", "sessions.end"}
           /\ op \in FocusOperations => op.name \in {"focus.get", "focus.set", "focus.clear"}
           /\ op \in UpdatesOperations => op.name \in {"updates.list", "updates.post"}
           /\ op \in NotesOperations => op.name \in
                {"notes.list", "notes.counts", "notes.questions",
                 "notes.create", "notes.update", "notes.delete"}
           /\ op \in PromptsOperations => op.name \in
                {"prompts.list", "prompts.get", "prompts.record", "prompts.delete"}
           /\ op \in HistoryOperations => op.name \in
                {"history.list", "history.get", "history.record",
                 "history.revise", "history.delete"}
<1>1. \A name, exposure, tables :
        Reading(name, exposure, tables).name = name /\ Writing(name, exposure, tables).name = name
  BY DEF Reading, Writing
<1>2. op \in OutboxOperations => op.name \in
        {"outbox.mintConfirmation", "outbox.enqueue", "outbox.pending", "outbox.list",
         "outbox.claim", "outbox.complete", "outbox.fail", "outbox.cancel"}
  BY <1>1 DEF OutboxOperations
<1>3. op \in SessionsOperations => op.name \in
        {"sessions.list", "sessions.start", "sessions.heartbeat",
         "sessions.activity", "sessions.end"}
  BY <1>1 DEF SessionsOperations
<1>4. op \in FocusOperations => op.name \in {"focus.get", "focus.set", "focus.clear"}
  BY <1>1 DEF FocusOperations
<1>5. op \in UpdatesOperations => op.name \in {"updates.list", "updates.post"}
  BY <1>1 DEF UpdatesOperations
<1>6. op \in NotesOperations => op.name \in
        {"notes.list", "notes.counts", "notes.questions",
         "notes.create", "notes.update", "notes.delete"}
  BY <1>1 DEF NotesOperations
<1>7. op \in PromptsOperations => op.name \in
        {"prompts.list", "prompts.get", "prompts.record", "prompts.delete"}
  BY <1>1 DEF PromptsOperations
<1>8. op \in HistoryOperations => op.name \in
        {"history.list", "history.get", "history.record",
         "history.revise", "history.delete"}
  BY <1>1 DEF HistoryOperations
<1>9. QED
  BY <1>2, <1>3, <1>4, <1>5, <1>6, <1>7, <1>8

\* Which operations write the tables that some entry hears of at once.
LEMMA WhoWrites ==
    ASSUME NEW op \in Operations, NEW t \in op.writes
    PROVE  /\ t = "sessions" => op \in SessionsOperations
           /\ t = "focus" => op \in FocusOperations
           /\ t = "history" => op \in HistoryOperations
           /\ t = "notes" => op \in NotesOperations
           /\ t = "settings" => op.name = "settings.update"
           /\ t = "connections" => op.name = "connections.remove"
           /\ t = "projects" => op.name \in {"projects.upsert", "projects.remove"}
<1>1. \A name, exposure, tables :
        /\ Reading(name, exposure, tables).writes = {}
        /\ Writing(name, exposure, tables).writes = tables
        /\ Writing(name, exposure, tables).name = name
  BY DEF Reading, Writing
<1>2. CASE op \in WorkOperations \cup LinksOperations
  BY <1>1, <1>2 DEF WorkOperations, LinksOperations
<1>3. CASE op \in NotesOperations
  BY <1>1, <1>3 DEF NotesOperations
<1>4. CASE op \in FocusOperations
  BY <1>1, <1>4 DEF FocusOperations
<1>5. CASE op \in UpdatesOperations
  BY <1>1, <1>5 DEF UpdatesOperations
<1>6. CASE op \in PromptsOperations
  BY <1>1, <1>6 DEF PromptsOperations
<1>7. CASE op \in HistoryOperations
  BY <1>1, <1>7 DEF HistoryOperations
<1>8. CASE op \in SessionsOperations
  BY <1>1, <1>8 DEF SessionsOperations
<1>9. CASE op \in OutboxOperations
  BY <1>1, <1>9 DEF OutboxOperations
<1>10. CASE op \in SyncOperations
  BY <1>1, <1>10 DEF SyncOperations
<1>11. CASE op \in ConnectionsOperations
  BY <1>1, <1>11 DEF ConnectionsOperations
<1>12. CASE op \in ProjectsOperations
  BY <1>1, <1>12 DEF ProjectsOperations
<1>13. CASE op \in SettingsOperations
  BY <1>1, <1>13 DEF SettingsOperations
<1>14. QED
  BY <1>2, <1>3, <1>4, <1>5, <1>6, <1>7, <1>8, <1>9, <1>10, <1>11, <1>12, <1>13 DEF Operations

\* The event that follows a write, by the file of the operation.
LEMMA Announced ==
    ASSUME NEW op, Mutates(op)
    PROVE  /\ op \in SessionsOperations => AfterDispatch(op) = <<"sessions:changed">>
           /\ op \in FocusOperations => AfterDispatch(op) = <<"focus:changed">>
           /\ op \in HistoryOperations => AfterDispatch(op) = <<"history:changed">>
           /\ op \in NotesOperations => AfterDispatch(op) = <<"notes:changed">>
           /\ IsSync(op) => AfterDispatch(op) = << >>
<1>1. CASE op \in SessionsOperations
  <2>1. op \notin OutboxOperations \cup FocusOperations \cup UpdatesOperations
                  \cup NotesOperations \cup PromptsOperations \cup HistoryOperations
        /\ ~IsSync(op)
    BY <1>1, NamesOfFiles DEF IsSync
  <2>2. QED
    BY <1>1, <2>1 DEF AfterDispatch
<1>2. CASE op \in FocusOperations
  <2>1. op \notin OutboxOperations \cup SessionsOperations \cup UpdatesOperations
                  \cup NotesOperations \cup PromptsOperations \cup HistoryOperations
        /\ ~IsSync(op)
    BY <1>2, NamesOfFiles DEF IsSync
  <2>2. QED
    BY <1>2, <2>1 DEF AfterDispatch
<1>3. CASE op \in NotesOperations
  <2>1. op \notin OutboxOperations \cup SessionsOperations \cup FocusOperations
                  \cup UpdatesOperations \cup PromptsOperations \cup HistoryOperations
        /\ ~IsSync(op)
    BY <1>3, NamesOfFiles DEF IsSync
  <2>2. QED
    BY <1>3, <2>1 DEF AfterDispatch
<1>4. CASE op \in HistoryOperations
  <2>1. op \notin OutboxOperations \cup SessionsOperations \cup FocusOperations
                  \cup UpdatesOperations \cup NotesOperations \cup PromptsOperations
        /\ ~IsSync(op)
    BY <1>4, NamesOfFiles DEF IsSync
  <2>2. QED
    BY <1>4, <2>1 DEF AfterDispatch
<1>5. CASE IsSync(op)
  <2>1. op \notin OutboxOperations \cup SessionsOperations \cup FocusOperations
                  \cup UpdatesOperations \cup NotesOperations \cup PromptsOperations
                  \cup HistoryOperations
    BY <1>5, NamesOfFiles DEF IsSync
  <2>2. QED
    BY <1>5, <2>1 DEF AfterDispatch
<1>6. QED
  BY <1>1, <1>2, <1>3, <1>4, <1>5

\* Every operation announces nothing or one event.
LEMMA Announcement ==
    ASSUME NEW op
    PROVE  AfterDispatch(op) = << >> \/ \E channel \in Channels : AfterDispatch(op) = <<channel>>
  BY DEF AfterDispatch, Channels

-----------------------------------------------------------------------------
(* The inductive invariant.                                                *)

CallsAreMade == \A call \in calls : call.op.name \in Callable(call.by)

IsAnswer(i) == i \in 1..Len(toWindow) /\ toWindow[i].what = "answer"

\* There is an answer under way for the fetch that waits for one, and no other.
OneAnswer ==
    /\ \A i : IsAnswer(i) => fetching = "answered"
    /\ \A i, j : IsAnswer(i) /\ IsAnswer(j) => i = j

\* Something under way makes the window ask again.
Stirs(i) == i \in 1..Len(toWindow) /\ query \in Invalidated(toWindow[i])

\* A call has run that changes the table, and its end will be heard.
ToBeHeard(t) == \E call \in calls : call.ran /\ t \in call.op.writes /\ HearsOf(call, t)

\* What is drawn, or is about to be, is what is stored.
Shown(t) ==
    IF fetching = "answered" THEN \A i : IsAnswer(i) => toWindow[i].seen[t] = store[t]
    ELSE drawn[t] = store[t]

Covered ==
    \A t \in Watched :
        \/ t \in missed
        \/ fetching = "asked"
        \/ \E i : Stirs(i)
        \/ ToBeHeard(t)
        \/ Shown(t)

WInv == WindowTypeOK /\ CallsAreMade /\ OneAnswer /\ Covered

USE WindowAssumption

-----------------------------------------------------------------------------
(* What is sent.                                                           *)

SameHeard == HeardByEvent' = HeardByEvent /\ HeardByReply' = HeardByReply

\* The key never changes, nor what it reads and hears of.
LEMMA KeyStays ==
    ASSUME query' = query
    PROVE  Watched' = Watched /\ Messages' = Messages /\ SameHeard
<1>1. Watched' = Watched
  BY DEF Watched, AsksFor
<1>2. QED
  BY <1>1 DEF Messages, Events, Answers, Versions, Replies, SameHeard, HeardByEvent,
              HeardByReply

\* An event as it is sent.
LEMMA OneEvent ==
    ASSUME NEW channel
    PROVE  Pushed(<<channel>>) = <<Event(channel)>> /\ Pushed(<< >>) = << >>
  BY DEF Pushed

\* Events are messages, and no answers.
LEMMA EventsAreMessages ==
    ASSUME NEW channel \in Channels
    PROVE  /\ Event(channel) \in Events /\ Event(channel).what = "event"
           /\ Event(channel) \in Messages
           /\ Invalidated(Event(channel)) = Invalidates(channel)
  BY DEF Event, Events, Messages, Invalidated

\* What follows a call: one event, or none.
LEMMA AfterOne ==
    ASSUME NEW op, NEW by \in Callers, Mutates(op)
    PROVE  /\ After(op, by) = << >> \/ \E channel \in Channels : After(op, by) = <<channel>>
           /\ IsSync(op) /\ by \in Observed => After(op, by) = <<"sync:finished">>
           /\ ~IsSync(op) /\ by # "main" => After(op, by) = AfterDispatch(op)
<1>1. CASE by = "agent"
  BY <1>1, Announcement DEF After, Observed
<1>2. CASE by = "main"
  BY <1>2 DEF After, Observed
<1>3. CASE by \in Observed /\ ~IsSync(op)
  <2>1. After(op, by) = << >> \o AfterDispatch(op)
    BY <1>3 DEF After, Observed
  <2>2. AfterDispatch(op) \in Seq(Channels)
    <3>1. CASE AfterDispatch(op) = << >>
      BY <3>1
    <3>2. ASSUME NEW channel \in Channels, AfterDispatch(op) = <<channel>>
          PROVE  AfterDispatch(op) \in Seq(Channels)
      BY <3>2
    <3>3. QED
      BY <3>1, <3>2, Announcement
  <2>3. After(op, by) = AfterDispatch(op)
    BY <2>1, <2>2, ConcatEmptySeq
  <2>4. QED
    BY <1>3, <2>3, Announcement
<1>4. CASE by \in Observed /\ IsSync(op)
  <2>1. After(op, by) = <<"sync:finished">> \o << >>
    BY <1>4, Announced DEF After, Observed
  <2>2. <<"sync:finished">> \in Seq(Channels)
    BY DEF Channels
  <2>3. After(op, by) = <<"sync:finished">>
    BY <2>1, <2>2, ConcatEmptySeq
  <2>4. QED
    BY <1>4, <2>3 DEF Channels
<1>5. QED
  BY <1>1, <1>2, <1>3, <1>4 DEF Callers, Observed

\* The answer to a call of the window.
Reply(call) == [what |-> "reply", op |-> call.op, ok |-> call.ok]

\* What the end of a call sends: its event first, then its reply, and no answer.
LEMMA SentBy ==
    ASSUME WindowTypeOK, NEW call \in calls
    PROVE  /\ Sent(call) \in Seq(Messages)
           /\ \A i \in 1..Len(Sent(call)) : Sent(call)[i].what # "answer"
           /\ \A channel \in Channels : After(call.op, call.by) = <<channel>> =>
                \E i \in 1..Len(Sent(call)) : Sent(call)[i] = Event(channel)
           /\ call.by = "window" =>
                \E i \in 1..Len(Sent(call)) : Sent(call)[i] = Reply(call)
<1> DEFINE events == Pushed(After(call.op, call.by))
           replies == IF call.by = "window" THEN <<Reply(call)>> ELSE << >>
<1>1. Sent(call) = events \o replies
  BY DEF Sent, Reply
<1>2. call \in Calls /\ call.op \in Mutating /\ call.ok \in BOOLEAN /\ call.by \in Callers
  BY DEF WindowTypeOK, Calls
<1>3. Reply(call) \in Messages /\ Reply(call).what # "answer"
  BY <1>2 DEF Reply, Messages, Replies
<1>4. \/ After(call.op, call.by) = << >> /\ events = << >>
      \/ \E channel \in Channels :
            After(call.op, call.by) = <<channel>> /\ events = <<Event(channel)>>
  <2>1. CASE After(call.op, call.by) = << >>
    BY <2>1, OneEvent
  <2>2. ASSUME NEW channel \in Channels, After(call.op, call.by) = <<channel>>
        PROVE  events = <<Event(channel)>>
    BY <2>2, OneEvent
  <2> HIDE DEF events
  <2>3. QED
    BY <1>2, <2>1, <2>2, AfterOne DEF Mutating
<1>5. events \in Seq(Messages) /\ \A i \in 1..Len(events) : events[i].what # "answer"
  <2> HIDE DEF events
  <2>1. CASE events = << >>
    BY <2>1
  <2>2. ASSUME NEW channel \in Channels, events = <<Event(channel)>>
        PROVE  events \in Seq(Messages) /\ \A i \in 1..Len(events) : events[i].what # "answer"
    BY <2>2, EventsAreMessages
  <2>3. QED
    BY <1>4, <2>1, <2>2
<1>6. replies \in Seq(Messages) /\ \A i \in 1..Len(replies) : replies[i].what # "answer"
  BY <1>3
<1>7. call.by = "window" => Len(replies) = 1 /\ replies[1] = Reply(call)
  OBVIOUS
<1>8. \A channel \in Channels : After(call.op, call.by) = <<channel>> =>
        Len(events) = 1 /\ events[1] = Event(channel)
  BY OneEvent
<1> HIDE DEF events, replies
<1>9. /\ Sent(call) \in Seq(Messages) /\ Len(Sent(call)) = Len(events) + Len(replies)
      /\ \A i \in 1..Len(events) : Sent(call)[i] = events[i]
      /\ \A i \in 1..Len(replies) : Sent(call)[Len(events) + i] = replies[i]
  BY <1>1, <1>5, <1>6
<1>10. Len(events) \in Nat /\ Len(replies) \in Nat
  BY <1>5, <1>6
<1>11. \A i \in 1..Len(Sent(call)) : Sent(call)[i].what # "answer"
  <2> SUFFICES ASSUME NEW i \in 1..Len(Sent(call)) PROVE Sent(call)[i].what # "answer"
    OBVIOUS
  <2>1. CASE i \in 1..Len(events)
    BY <1>5, <1>9, <2>1
  <2>2. CASE i \notin 1..Len(events)
    <3>1. i - Len(events) \in 1..Len(replies) /\ i = Len(events) + (i - Len(events))
      BY <1>9, <1>10, <2>2
    <3>2. Sent(call)[i] = replies[i - Len(events)]
      BY <1>9, <3>1
    <3>3. QED
      BY <1>6, <3>1, <3>2
  <2>3. QED
    BY <2>1, <2>2
<1>12. \A channel \in Channels : After(call.op, call.by) = <<channel>> =>
        \E i \in 1..Len(Sent(call)) : Sent(call)[i] = Event(channel)
  BY <1>8, <1>9, <1>10
<1>13. call.by = "window" => \E i \in 1..Len(Sent(call)) : Sent(call)[i] = Reply(call)
  <2> SUFFICES ASSUME call.by = "window"
               PROVE  \E i \in 1..Len(Sent(call)) : Sent(call)[i] = Reply(call)
    OBVIOUS
  <2>1. Len(events) + 1 \in 1..Len(Sent(call)) /\ 1 \in 1..Len(replies)
    <3>1. Len(replies) = 1 /\ Len(Sent(call)) = Len(events) + Len(replies)
      BY <1>7, <1>9
    <3>2. QED
      BY <1>10, <3>1
  <2>2. Sent(call)[Len(events) + 1] = Reply(call)
    BY <1>7, <1>9, <2>1
  <2>3. QED
    BY <2>1, <2>2
<1>14. QED
  BY <1>9, <1>11, <1>12, <1>13

\* What the end of a call that has changed a table makes the window ask for.
LEMMA HeardInTheEnd ==
    ASSUME WInv, NEW call \in calls, NEW t \in call.op.writes, HearsOf(call, t)
    PROVE  \E i \in 1..Len(Sent(call)) : query \in Invalidated(Sent(call)[i])
<1>1. call \in Calls /\ call.op \in Mutating /\ call.op.name \in Callable(call.by)
  BY DEF WInv, WindowTypeOK, Calls, CallsAreMade
<1>2. call.op \in Operations /\ Mutates(call.op) /\ call.by \in Callers
  BY <1>1 DEF Mutating, Calls
<1>3. ASSUME NEW channel \in Channels, AfterDispatch(call.op) = <<channel>>, ~IsSync(call.op),
             call.by # "main", query \in Invalidates(channel)
      PROVE  \E i \in 1..Len(Sent(call)) : query \in Invalidated(Sent(call)[i])
  <2>1. PICK i \in 1..Len(Sent(call)) : Sent(call)[i] = Event(channel)
    BY <1>2, <1>3, AfterOne, SentBy DEF WInv
  <2>2. QED
    BY <1>3, <2>1, EventsAreMessages
<1>4. ASSUME call.by = "window", call.ok, query \in OwnInvalidates(call.op)
      PROVE  \E i \in 1..Len(Sent(call)) : query \in Invalidated(Sent(call)[i])
  <2>1. PICK i \in 1..Len(Sent(call)) : Sent(call)[i] = Reply(call)
    BY <1>4, SentBy DEF WInv
  <2>2. Invalidated(Reply(call)) = OwnInvalidates(call.op)
    BY <1>4 DEF Invalidated, Reply
  <2>3. QED
    BY <1>4, <2>1, <2>2
<1>5. call.by = "main" => call.op.name = "settings.update"
  BY <1>1 DEF Callable
<1>6. \/ query = "sessions.list" /\ t = "sessions"
      \/ query = "focus.get" /\ t = "focus"
      \/ query = "history.list" /\ t = "history"
      \/ query \in {"notes.questions", "notes.counts"} /\ t = "notes"
      \/ /\ call.by = "window" /\ call.ok
         /\ \/ query = "settings.get" /\ t = "settings"
            \/ query = "connections" /\ t = "connections"
            \/ query = "projects" /\ t = "projects"
  BY DEF HearsOf, HeardByEvent, HeardByReply
<1>7. CASE query = "sessions.list" /\ t = "sessions"
  BY <1>2, <1>3, <1>5, <1>7, WhoWrites, Announced, NamesOfFiles DEF Invalidates, Channels, IsSync
<1>8. CASE query = "focus.get" /\ t = "focus"
  BY <1>2, <1>3, <1>5, <1>8, WhoWrites, Announced, NamesOfFiles DEF Invalidates, Channels, IsSync
<1>9. CASE query = "history.list" /\ t = "history"
  BY <1>2, <1>3, <1>5, <1>9, WhoWrites, Announced, NamesOfFiles DEF Invalidates, Channels, IsSync
<1>10. CASE query \in {"notes.questions", "notes.counts"} /\ t = "notes"
  BY <1>2, <1>3, <1>5, <1>10, WhoWrites, Announced, NamesOfFiles DEF Invalidates, Channels, IsSync
<1>11. CASE call.by = "window" /\ call.ok /\ query = "settings.get" /\ t = "settings"
  BY <1>2, <1>4, <1>11, WhoWrites DEF OwnInvalidates
<1>12. CASE call.by = "window" /\ call.ok /\ query = "connections" /\ t = "connections"
  BY <1>2, <1>4, <1>12, WhoWrites DEF OwnInvalidates
<1>13. CASE call.by = "window" /\ call.ok /\ query = "projects" /\ t = "projects"
  BY <1>2, <1>4, <1>13, WhoWrites DEF OwnInvalidates
<1>14. QED
  BY <1>6, <1>7, <1>8, <1>9, <1>10, <1>11, <1>12, <1>13

-----------------------------------------------------------------------------
(* The steps.                                                              *)

\* Sending what is no answer disturbs nothing that is under way.
LEMMA Sending ==
    ASSUME WInv, UNCHANGED <<query, store, drawn, fetching>>,
           NEW extra \in Seq(Messages), \A i \in 1..Len(extra) : extra[i].what # "answer",
           toWindow' = toWindow \o extra
    PROVE  /\ toWindow' \in Seq(Messages)
           /\ OneAnswer'
           /\ (\E i : Stirs(i)) => (\E i : Stirs(i))'
           /\ (\E i \in 1..Len(extra) : query \in Invalidated(extra[i])) => (\E i : Stirs(i))'
           /\ \A t \in Watched : Shown(t) => Shown(t)'
<1>1. toWindow \in Seq(Messages)
  BY DEF WInv, WindowTypeOK
<1>2. Len(toWindow) \in Nat /\ Len(extra) \in Nat
  BY <1>1
<1>3. /\ toWindow' \in Seq(Messages) /\ Len(toWindow') = Len(toWindow) + Len(extra)
      /\ \A i \in 1..Len(toWindow) : toWindow'[i] = toWindow[i]
      /\ \A i \in 1..Len(extra) : toWindow'[Len(toWindow) + i] = extra[i]
  BY <1>1
<1>4. \A i : i \in 1..Len(toWindow) => i \in 1..Len(toWindow')
  BY <1>2, <1>3
<1>5. ASSUME NEW i, IsAnswer(i)'
      PROVE  IsAnswer(i) /\ toWindow'[i] = toWindow[i]
  <2>1. i \in 1..Len(toWindow') /\ toWindow'[i].what = "answer"
    BY <1>5 DEF IsAnswer
  <2>2. CASE i \in 1..Len(toWindow)
    BY <1>3, <2>1, <2>2 DEF IsAnswer
  <2>3. CASE i \notin 1..Len(toWindow)
    <3>1. i - Len(toWindow) \in 1..Len(extra) /\ i = Len(toWindow) + (i - Len(toWindow))
      BY <1>2, <1>3, <2>1, <2>3
    <3>2. toWindow'[i] = extra[i - Len(toWindow)]
      BY <1>3, <3>1
    <3>3. QED
      BY <2>1, <3>1, <3>2
  <2>4. QED
    BY <2>2, <2>3
<1>6. OneAnswer'
  BY <1>5 DEF WInv, OneAnswer
<1>7. ASSUME NEW i, Stirs(i)
      PROVE  Stirs(i)'
  BY <1>3, <1>4, <1>7 DEF Stirs, Invalidated, Invalidates
<1>8. ASSUME NEW i \in 1..Len(extra), query \in Invalidated(extra[i])
      PROVE  (\E j : Stirs(j))'
  <2>1. Len(toWindow) + i \in 1..Len(toWindow')
    <3>1. Len(toWindow') = Len(toWindow) + Len(extra)
      BY <1>3
    <3>2. QED
      BY <1>2, <3>1
  <2>2. toWindow'[Len(toWindow) + i] = extra[i]
    BY <1>3
  <2>3. PICK j : j = Len(toWindow) + i
    OBVIOUS
  <2>4. Stirs(j)'
    BY <1>8, <2>1, <2>2, <2>3 DEF Stirs, Invalidated, Invalidates
  <2>5. QED
    BY <2>4
<1>9. ASSUME NEW t \in Watched, Shown(t)
      PROVE  Shown(t)'
  BY <1>5, <1>9 DEF Shown
<1>10. QED
  BY <1>3, <1>6, <1>7, <1>8, <1>9

\* A call that begins.
LEMMA CallKeeps ==
    ASSUME WInv, NEW op \in Mutating, NEW by \in Callers, Call(op, by)
    PROVE  WInv'
<1> DEFINE extra == Pushed(Before(op, by))
           new == [op |-> op, by |-> by, ran |-> FALSE, ok |-> FALSE]
<1>1. /\ UNCHANGED <<query, store, drawn, fetching, missed>> /\ toWindow' = toWindow \o extra
      /\ calls' = calls \cup {new} /\ op.name \in Callable(by) /\ made' \in 0..MaxWrites
  BY DEF Call, WInv, WindowTypeOK
<1>2. extra = << >> \/ extra = <<Event("sync:started")>>
  BY OneEvent DEF Before
<1>3. Event("sync:started") \in Messages /\ Event("sync:started").what # "answer"
  BY EventsAreMessages DEF Channels
<1> HIDE DEF extra
<1>4. extra \in Seq(Messages) /\ \A i \in 1..Len(extra) : extra[i].what # "answer"
  <2>1. CASE extra = << >>
    BY <2>1
  <2>2. CASE extra = <<Event("sync:started")>>
    BY <1>3, <2>2
  <2>3. QED
    BY <1>2, <2>1, <2>2
<1>5. Watched' = Watched /\ Messages' = Messages /\ SameHeard
  BY <1>1, KeyStays
<1>6. new \in Calls /\ Calls' = Calls /\ Callable(by)' = Callable(by)
  BY DEF Calls, Mutating
<1>7. calls' \subseteq Calls /\ toWindow' \in Seq(Messages)
  BY <1>1, <1>4, <1>6, Sending DEF WInv, WindowTypeOK
<1>8. WindowTypeOK'
  BY <1>1, <1>5, <1>6, <1>7 DEF WInv, WindowTypeOK, Versions
<1>9. CallsAreMade'
  BY <1>1 DEF WInv, CallsAreMade
<1>10. OneAnswer'
  BY <1>1, <1>4, Sending
<1>11. ASSUME NEW t \in Watched, ToBeHeard(t)
       PROVE  ToBeHeard(t)'
  BY <1>1, <1>5, <1>11 DEF ToBeHeard, HearsOf, SameHeard
<1>12. (\E i : Stirs(i)) => (\E i : Stirs(i))'
  BY <1>1, <1>4, Sending
<1>13. \A t \in Watched : Shown(t) => Shown(t)'
  BY <1>1, <1>4, Sending
<1>14. Covered'
  BY <1>1, <1>5, <1>11, <1>12, <1>13 DEF WInv, Covered
<1>15. QED
  BY <1>8, <1>9, <1>10, <1>14 DEF WInv

\* A handler that runs, to its end or not: of what it writes the entry will hear, or it
\* is missed.
LEMMA RunsKeeps ==
    ASSUME WInv, NEW call \in calls, NEW wrote \in SUBSET call.op.writes, NEW ok \in BOOLEAN,
           Runs(call, wrote, ok)
    PROVE  WInv'
<1> DEFINE new == [call EXCEPT !.ran = TRUE, !.ok = ok]
<1>1. /\ UNCHANGED <<query, drawn, fetching, toWindow, made>> /\ ~call.ran
      /\ calls' = (calls \ {call}) \cup {new}
      /\ store' = [t \in Watched |-> IF t \in wrote THEN store[t] + 1 ELSE store[t]]
      /\ missed' = (missed \cup (Watched \cap wrote)) \ {t \in wrote : HearsOf(new, t)}
  BY DEF Runs
<1>2. call \in Calls
  BY DEF WInv, WindowTypeOK
<1>3. new \in Calls /\ new.ran /\ new.ok = ok /\ new.op = call.op /\ new.by = call.by
  BY <1>2 DEF Calls
<1> HIDE DEF new
<1>4. Watched' = Watched /\ Messages' = Messages /\ SameHeard
  BY <1>1, KeyStays
<1>5. store' \in Versions /\ missed' \subseteq Watched
  BY <1>1 DEF WInv, WindowTypeOK, Versions
<1>6. WindowTypeOK'
  BY <1>1, <1>2, <1>3, <1>4, <1>5 DEF WInv, WindowTypeOK, Versions, Calls
<1>7. CallsAreMade'
  BY <1>1, <1>3 DEF WInv, CallsAreMade, Callable
<1>8. OneAnswer'
  BY <1>1 DEF WInv, OneAnswer, IsAnswer
<1>9. ASSUME NEW t \in Watched, ToBeHeard(t)
      PROVE  ToBeHeard(t)'
  BY <1>1, <1>4, <1>9 DEF ToBeHeard, HearsOf, SameHeard
<1>10. ASSUME NEW i, Stirs(i)
       PROVE  Stirs(i)'
  BY <1>1, <1>10 DEF Stirs, Invalidated, Invalidates
<1>11. ASSUME NEW t \in Watched, t \in wrote
       PROVE  t \in missed' \/ ToBeHeard(t)'
  <2>1. CASE HearsOf(new, t)
    <3>1. HearsOf(new, t)'
      BY <1>4, <2>1 DEF HearsOf, SameHeard
    <3>2. QED
      BY <1>1, <1>3, <1>11, <3>1 DEF ToBeHeard
  <2>2. CASE ~HearsOf(new, t)
    BY <1>1, <1>11, <2>2
  <2>3. QED
    BY <2>1, <2>2
<1>12. ASSUME NEW t \in Watched, t \notin wrote
       PROVE  (t \in missed => t \in missed') /\ (Shown(t) => Shown(t)')
  <2>1. store'[t] = store[t]
    BY <1>1, <1>12
  <2>2. QED
    BY <1>1, <1>12, <2>1 DEF Shown, IsAnswer
<1>13. Covered'
  BY <1>1, <1>4, <1>9, <1>10, <1>11, <1>12 DEF WInv, Covered
<1>14. QED
  BY <1>6, <1>7, <1>8, <1>13 DEF WInv

\* A call that ends says so, and a sync that main announces is heard of by every entry.
LEMMA EndsKeeps == ASSUME WInv, NEW call \in calls, Ends(call) PROVE WInv'
<1>1. /\ UNCHANGED <<query, store, drawn, fetching, made>> /\ call.ran
      /\ calls' = calls \ {call} /\ toWindow' = toWindow \o Sent(call)
  BY DEF Ends
<1>2. Sent(call) \in Seq(Messages) /\ \A i \in 1..Len(Sent(call)) : Sent(call)[i].what # "answer"
  BY SentBy DEF WInv
<1>3. Watched' = Watched /\ Messages' = Messages /\ SameHeard
  BY <1>1, KeyStays
<1>4. missed' \subseteq Watched
  BY DEF Ends, WInv, WindowTypeOK
<1>5. toWindow' \in Seq(Messages) /\ OneAnswer'
  BY <1>1, <1>2, Sending
<1>6. WindowTypeOK'
  BY <1>1, <1>3, <1>4, <1>5 DEF WInv, WindowTypeOK, Versions, Calls
<1>7. CallsAreMade'
  BY <1>1 DEF WInv, CallsAreMade, Callable
<1>8. (\E i : Stirs(i)) => (\E i : Stirs(i))'
  BY <1>1, <1>2, Sending
<1>9. (\E i \in 1..Len(Sent(call)) : query \in Invalidated(Sent(call)[i])) => (\E i : Stirs(i))'
  BY <1>1, <1>2, Sending
<1>10. \A t \in Watched : Shown(t) => Shown(t)'
  BY <1>1, <1>2, Sending
<1>11. ASSUME NEW t \in Watched, ToBeHeard(t)
       PROVE  ToBeHeard(t)' \/ (\E i : Stirs(i))'
  <2>1. PICK other \in calls : other.ran /\ t \in other.op.writes /\ HearsOf(other, t)
    BY <1>11 DEF ToBeHeard
  <2>2. CASE other = call
    <3>1. \E i \in 1..Len(Sent(call)) : query \in Invalidated(Sent(call)[i])
      BY <2>1, <2>2, HeardInTheEnd
    <3>2. QED
      BY <1>9, <3>1
  <2>3. CASE other # call
    BY <1>1, <1>3, <2>1, <2>3 DEF ToBeHeard, HearsOf, SameHeard
  <2>4. QED
    BY <2>2, <2>3
<1>12. CASE call.by \in Observed /\ IsSync(call.op)
  <2>1. call.op \in Mutating /\ call.by \in Callers
    BY DEF WInv, WindowTypeOK, Calls
  <2>2. After(call.op, call.by) = <<"sync:finished">>
    BY <1>12, <2>1, AfterOne DEF Mutating
  <2>3. "sync:finished" \in Channels /\ Invalidates("sync:finished") = Keys
    BY DEF Channels, Invalidates
  <2>4. PICK i \in 1..Len(Sent(call)) : Sent(call)[i] = Event("sync:finished")
    BY <2>2, <2>3, SentBy DEF WInv
  <2>5. Invalidated(Sent(call)[i]) = Keys
    BY <2>3, <2>4, EventsAreMessages
  <2>6. query \in Invalidated(Sent(call)[i])
    BY <2>5 DEF WInv, WindowTypeOK
  <2>7. (\E j : Stirs(j))'
    BY <1>9, <2>6
  <2>8. Covered'
    BY <2>7 DEF Covered
  <2>9. QED
    BY <1>5, <1>6, <1>7, <2>8 DEF WInv
<1>13. CASE ~(call.by \in Observed /\ IsSync(call.op))
  <2>1. missed' = missed
    BY <1>13 DEF Ends
  <2>2. Covered'
    BY <1>1, <1>3, <1>8, <1>10, <1>11, <2>1 DEF WInv, Covered
  <2>3. QED
    BY <1>5, <1>6, <1>7, <2>2 DEF WInv
<1>14. QED
  BY <1>12, <1>13

\* The clock.
LEMMA TickKeeps == ASSUME WInv, Tick PROVE WInv'
<1> DEFINE extra == <<Event("freshness:tick")>>
<1>1. /\ UNCHANGED <<query, store, drawn, fetching, calls, missed>>
      /\ made' \in 0..MaxWrites
  BY DEF Tick, WInv, WindowTypeOK
<1>2. Event("freshness:tick") \in Messages /\ Event("freshness:tick").what # "answer"
  BY EventsAreMessages DEF Channels
<1>3. extra \in Seq(Messages) /\ \A i \in 1..Len(extra) : extra[i].what # "answer"
  BY <1>2
<1>4. toWindow' = toWindow \o extra
  BY <1>2, AppendIsConcat DEF Tick, WInv, WindowTypeOK
<1> HIDE DEF extra
<1>5. Watched' = Watched /\ Messages' = Messages /\ SameHeard
  BY <1>1, KeyStays
<1>6. toWindow' \in Seq(Messages) /\ OneAnswer'
  BY <1>1, <1>3, <1>4, Sending
<1>7. (\E i : Stirs(i)) => (\E i : Stirs(i))'
  BY <1>1, <1>3, <1>4, Sending
<1>8. \A t \in Watched : Shown(t) => Shown(t)'
  BY <1>1, <1>3, <1>4, Sending
<1>9. WindowTypeOK'
  BY <1>1, <1>5, <1>6 DEF WInv, WindowTypeOK, Versions, Calls
<1>10. CallsAreMade' /\ \A t \in Watched : ToBeHeard(t) => ToBeHeard(t)'
  BY <1>1, <1>5 DEF WInv, CallsAreMade, Callable, ToBeHeard, HearsOf, SameHeard
<1>11. Covered'
  BY <1>1, <1>5, <1>7, <1>8, <1>10 DEF WInv, Covered
<1>12. QED
  BY <1>6, <1>9, <1>10, <1>11 DEF WInv

\* A fetch is answered: what is stored now will be drawn.
LEMMA ServeKeeps == ASSUME WInv, Serve PROVE WInv'
<1> DEFINE answer == [what |-> "answer", seen |-> store]
<1>1. /\ UNCHANGED <<query, store, drawn, calls, made, missed>> /\ fetching = "asked"
      /\ fetching' = "answered" /\ toWindow' = Append(toWindow, answer)
  BY DEF Serve
<1>2. answer \in Messages /\ answer.seen = store
  BY DEF WInv, WindowTypeOK, Messages, Answers
<1> HIDE DEF answer
<1>3. Watched' = Watched /\ Messages' = Messages /\ SameHeard
  BY <1>1, KeyStays
<1>4. toWindow \in Seq(Messages) /\ Len(toWindow) \in Nat
  BY DEF WInv, WindowTypeOK
<1>5. /\ toWindow' \in Seq(Messages) /\ Len(toWindow') = Len(toWindow) + 1
      /\ toWindow'[Len(toWindow) + 1] = answer
      /\ \A i \in 1..Len(toWindow) : toWindow'[i] = toWindow[i]
  BY <1>1, <1>2, <1>4
<1>6. \A i : ~IsAnswer(i)
  BY <1>1 DEF WInv, OneAnswer
<1>7. ASSUME NEW i, IsAnswer(i)'
      PROVE  i = Len(toWindow) + 1 /\ toWindow'[i] = answer
  <2>1. i \in 1..(Len(toWindow) + 1) /\ toWindow'[i].what = "answer"
    BY <1>5, <1>7 DEF IsAnswer
  <2>2. i \notin 1..Len(toWindow)
    BY <1>5, <1>6, <2>1 DEF IsAnswer
  <2>3. i = Len(toWindow) + 1
    BY <1>4, <2>1, <2>2
  <2>4. QED
    BY <1>5, <2>3
<1>8. OneAnswer'
  BY <1>1, <1>7 DEF OneAnswer
<1>9. \A t \in Watched : Shown(t)'
  BY <1>1, <1>2, <1>7 DEF Shown
<1>10. WindowTypeOK'
  BY <1>1, <1>3, <1>5 DEF WInv, WindowTypeOK, Versions, Calls
<1>11. CallsAreMade'
  BY <1>1 DEF WInv, CallsAreMade, Callable
<1>12. Covered'
  BY <1>3, <1>9 DEF Covered
<1>13. QED
  BY <1>8, <1>10, <1>11, <1>12 DEF WInv

\* The rest of the messages when one has been received.
LEMMA RestOf ==
    ASSUME NEW messages \in Seq(Messages), messages # << >>
    PROVE  /\ Head(messages) = messages[1] /\ Tail(messages) \in Seq(Messages)
           /\ Len(messages) \in Nat /\ 1 \in 1..Len(messages)
           /\ Len(Tail(messages)) = Len(messages) - 1
           /\ \A i \in 1..(Len(messages) - 1) : Tail(messages)[i] = messages[i + 1]
<1>1. Len(messages) \in Nat /\ Len(messages) # 0
  BY EmptySeq
<1>2. QED
  BY <1>1, HeadTailProperties

\* Cancelling leaves messages, and no answer.
LEMMA CancelledMessages ==
    ASSUME NEW messages \in Seq(Messages)
    PROVE  /\ Cancelled(messages) \in Seq(Messages)
           /\ \A i \in 1..Len(Cancelled(messages)) : Cancelled(messages)[i].what # "answer"
<1> DEFINE after(i) == IF messages[i].what = "answer" THEN Dropped ELSE messages[i]
<1>1. DOMAIN messages = 1..Len(messages) /\ Len(messages) \in Nat
  BY LenProperties
<1>2. Dropped \in Messages /\ Dropped.what # "answer"
  BY DEF Messages, Dropped
<1>3. \A i \in 1..Len(messages) : after(i) \in Messages /\ after(i).what # "answer"
  BY <1>1, <1>2, ElementOfSeq
<1>4. Cancelled(messages) = [i \in 1..Len(messages) |-> after(i)]
  BY <1>1 DEF Cancelled
<1> HIDE DEF after
<1>5. Cancelled(messages) \in Seq(Messages) /\ Len(Cancelled(messages)) = Len(messages)
  BY <1>1, <1>3, <1>4, IsASeq
<1>6. QED
  BY <1>3, <1>4, <1>5

\* A message that is received: an answer is what it says it is, and whatever makes the
\* window ask cancels what it has asked before.
LEMMA ReceiveKeeps == ASSUME WInv, Receive PROVE WInv'
<1> DEFINE m == toWindow[1]
<1>1. /\ UNCHANGED <<query, store, calls, made, missed>> /\ toWindow # << >>
  BY DEF Receive
<1>2. Watched' = Watched /\ Messages' = Messages /\ SameHeard
  BY <1>1, KeyStays
<1>3. toWindow \in Seq(Messages)
  BY DEF WInv, WindowTypeOK
<1>4. /\ Head(toWindow) = m /\ Tail(toWindow) \in Seq(Messages)
      /\ Len(toWindow) \in Nat /\ 1 \in 1..Len(toWindow)
      /\ Len(Tail(toWindow)) = Len(toWindow) - 1
      /\ \A i \in 1..(Len(toWindow) - 1) : Tail(toWindow)[i] = toWindow[i + 1]
  BY <1>1, <1>3, RestOf
<1>5. m \in Messages
  BY <1>3, <1>4, ElementOfSeq
<1>6. CallsAreMade'
  BY <1>1 DEF WInv, CallsAreMade, Callable
<1>7. \A t \in Watched : ToBeHeard(t) => ToBeHeard(t)'
  BY <1>1, <1>2 DEF ToBeHeard, HearsOf, SameHeard
<1> HIDE DEF m
<1>8. ASSUME toWindow' = Tail(toWindow)
      PROVE  /\ \A i : IsAnswer(i)' => IsAnswer(i + 1) /\ i + 1 # 1 /\ toWindow'[i] = toWindow[i + 1]
             /\ \A i : IsAnswer(i)' => i \in Int
             /\ query \notin Invalidated(m) /\ (\E i : Stirs(i)) => (\E i : Stirs(i))'
  <2>1. ASSUME NEW i, IsAnswer(i)'
        PROVE  IsAnswer(i + 1) /\ i + 1 # 1 /\ toWindow'[i] = toWindow[i + 1] /\ i \in Int
    <3>1. i \in 1..Len(Tail(toWindow)) /\ toWindow'[i].what = "answer"
      BY <1>8, <2>1 DEF IsAnswer
    <3>2. i \in 1..(Len(toWindow) - 1) /\ i + 1 \in 1..Len(toWindow) /\ i + 1 # 1 /\ i \in Int
      BY <1>4, <3>1
    <3>3. toWindow'[i] = toWindow[i + 1]
      BY <1>4, <1>8, <3>2
    <3>4. QED
      BY <3>1, <3>2, <3>3 DEF IsAnswer
  <2>2. ASSUME query \notin Invalidated(m), NEW i, Stirs(i)
        PROVE  \E j : Stirs(j)'
    <3>1. i \in 1..Len(toWindow) /\ query \in Invalidated(toWindow[i]) /\ i # 1
      BY <2>2 DEF Stirs, m
    <3>2. PICK j : j = i - 1
      OBVIOUS
    <3>3. j \in 1..(Len(toWindow) - 1) /\ j + 1 = i
      BY <1>4, <3>1, <3>2
    <3>4. j \in 1..Len(toWindow') /\ toWindow'[j] = toWindow[i]
      BY <1>4, <1>8, <3>3
    <3>5. Stirs(j)'
      BY <1>1, <3>1, <3>4 DEF Stirs, Invalidated, Invalidates
    <3>6. QED
      BY <3>5
  <2>3. QED
    BY <2>1, <2>2
<1>9. CASE m.what = "answer"
  <2>1. drawn' = m.seen /\ fetching' = "no" /\ toWindow' = Tail(toWindow)
    BY <1>4, <1>9 DEF Receive
  <2>2. IsAnswer(1) /\ fetching = "answered"
    BY <1>4, <1>9 DEF WInv, OneAnswer, IsAnswer, m
  <2>3. m.seen \in Versions
    BY <1>5, <1>9 DEF Messages, Events, Answers, Replies, Dropped
  <2>4. WindowTypeOK'
    BY <1>1, <1>2, <1>4, <2>1, <2>3 DEF WInv, WindowTypeOK, Versions, Calls
  <2>5. \A i : ~IsAnswer(i)'
    BY <1>8, <2>1, <2>2 DEF WInv, OneAnswer
  <2>6. OneAnswer'
    BY <2>5 DEF OneAnswer
  <2>7. Invalidated(m) = {}
    BY <1>9 DEF Invalidated
  <2>8. (\E i : Stirs(i)) => (\E i : Stirs(i))'
    BY <1>8, <2>1, <2>7
  <2>9. \A t \in Watched : Shown(t) => Shown(t)'
    BY <1>1, <2>1, <2>2 DEF Shown, m
  <2>10. Covered'
    BY <1>1, <1>2, <1>7, <2>2, <2>8, <2>9 DEF WInv, Covered
  <2>11. QED
    BY <1>6, <2>4, <2>6, <2>10 DEF WInv
<1>10. CASE m.what # "answer" /\ query \in Invalidated(m)
  <2>1. fetching' = "asked" /\ toWindow' = Cancelled(Tail(toWindow)) /\ UNCHANGED drawn
    BY <1>4, <1>10 DEF Receive, Invalidate
  <2>2. toWindow' \in Seq(Messages) /\ \A i : ~IsAnswer(i)'
    BY <1>4, <2>1, CancelledMessages DEF IsAnswer
  <2>3. WindowTypeOK'
    BY <1>1, <1>2, <2>1, <2>2 DEF WInv, WindowTypeOK, Versions, Calls
  <2>4. OneAnswer' /\ Covered'
    BY <2>1, <2>2 DEF OneAnswer, Covered
  <2>5. QED
    BY <1>6, <2>3, <2>4 DEF WInv
<1>11. CASE m.what # "answer" /\ query \notin Invalidated(m)
  <2>1. UNCHANGED <<fetching, drawn>> /\ toWindow' = Tail(toWindow)
    BY <1>4, <1>11 DEF Receive, Invalidate
  <2>2. WindowTypeOK'
    BY <1>1, <1>2, <1>4, <2>1 DEF WInv, WindowTypeOK, Versions, Calls
  <2>3. OneAnswer'
    <3>1. ASSUME NEW i, NEW j, IsAnswer(i)', IsAnswer(j)'
          PROVE  i = j
      <4>1. IsAnswer(i + 1) /\ IsAnswer(j + 1) /\ i \in Int /\ j \in Int
        BY <1>8, <2>1, <3>1
      <4>2. i + 1 = j + 1
        BY <4>1 DEF WInv, OneAnswer
      <4>3. QED
        BY <4>1, <4>2
    <3>2. ASSUME NEW i, IsAnswer(i)'
          PROVE  fetching' = "answered"
      BY <1>8, <2>1, <3>2 DEF WInv, OneAnswer
    <3>3. QED
      BY <3>1, <3>2 DEF OneAnswer
  <2>4. (\E i : Stirs(i)) => (\E i : Stirs(i))'
    BY <1>8, <1>11, <2>1
  <2>5. \A t \in Watched : Shown(t) => Shown(t)'
    BY <1>1, <1>8, <2>1 DEF Shown
  <2>6. Covered'
    BY <1>1, <1>2, <1>7, <2>1, <2>4, <2>5 DEF WInv, Covered
  <2>7. QED
    BY <1>6, <2>2, <2>3, <2>6 DEF WInv
<1>12. QED
  BY <1>9, <1>10, <1>11

\* Whatever the window does not know is on its way.
LEMMA WindowInductive == WindowSpec => []WInv
<1>1. WindowInit => WInv
  <2> SUFFICES ASSUME WindowInit PROVE WInv
    OBVIOUS
  <2>1. store \in Versions /\ drawn = store
    BY DEF WindowInit, Versions
  <2>2. toWindow \in Seq(Messages) /\ 1..Len(toWindow) = {}
    BY DEF WindowInit
  <2>3. WindowTypeOK
    BY <2>1, <2>2 DEF WindowInit, WindowTypeOK
  <2>4. CallsAreMade /\ OneAnswer
    BY <2>2 DEF WindowInit, CallsAreMade, OneAnswer, IsAnswer
  <2>5. Covered
    BY <2>1 DEF WindowInit, Covered, Shown
  <2>6. QED
    BY <2>3, <2>4, <2>5 DEF WInv
<1>2. WInv /\ [WindowNext]_windowVars => WInv'
  <2> SUFFICES ASSUME WInv, [WindowNext]_windowVars
               PROVE  WInv'
    OBVIOUS
  <2>1. ASSUME NEW op \in Mutating, NEW by \in Callers, Call(op, by)
        PROVE  WInv'
    BY <2>1, CallKeeps
  <2>2. ASSUME NEW call \in calls, Ends(call)
        PROVE  WInv'
    BY <2>2, EndsKeeps
  <2>3. ASSUME NEW call \in calls, NEW wrote \in SUBSET call.op.writes, NEW ok \in BOOLEAN,
               Runs(call, wrote, ok)
        PROVE  WInv'
    BY <2>3, RunsKeeps
  <2>4. CASE Tick
    BY <2>4, TickKeeps
  <2>5. CASE Serve
    BY <2>5, ServeKeeps
  <2>6. CASE Receive
    BY <2>6, ReceiveKeeps
  <2>7. CASE UNCHANGED windowVars
    <3>1. UNCHANGED <<query, store, drawn, fetching, toWindow, calls, made, missed>>
      BY <2>7 DEF windowVars
    <3>2. Watched' = Watched /\ Messages' = Messages /\ SameHeard
      BY <3>1, KeyStays
    <3>3. WindowTypeOK'
      BY <3>1, <3>2 DEF WInv, WindowTypeOK, Versions, Calls
    <3>4. CallsAreMade' /\ OneAnswer'
      BY <3>1 DEF WInv, CallsAreMade, Callable, OneAnswer, IsAnswer
    <3>5. \A i : Stirs(i) => Stirs(i)'
      BY <3>1 DEF Stirs, Invalidated, Invalidates
    <3>6. \A t \in Watched : (ToBeHeard(t) => ToBeHeard(t)') /\ (Shown(t) => Shown(t)')
      BY <3>1, <3>2 DEF ToBeHeard, HearsOf, SameHeard, Shown, IsAnswer
    <3>7. Covered'
      BY <3>1, <3>2, <3>5, <3>6 DEF WInv, Covered
    <3>8. QED
      BY <3>3, <3>4, <3>7 DEF WInv
  <2>8. QED
    BY <2>1, <2>2, <2>3, <2>4, <2>5, <2>6, <2>7 DEF WindowNext
<1>3. QED
  BY <1>1, <1>2, PTL DEF WindowSpec

\* Cache, channel and calls keep their types.
THEOREM WindowTypeTheorem == WindowSpec => []WindowTypeOK
<1>1. WInv => WindowTypeOK
  BY DEF WInv
<1>2. QED
  BY <1>1, WindowInductive, PTL

\* When nothing is under way, the window shows what was there when the last announced
\* sync ended and every later change it hears of: for each key of the cache, any
\* operations that are called, and any number of calls that fail half-way and cross each
\* other, events and reads.
THEOREM CurrentTheorem == WindowSpec => []QuietMeansCurrent
<1>1. WInv => QuietMeansCurrent
  <2> SUFFICES ASSUME WInv, Quiet, NEW t \in Watched
               PROVE  drawn[t] = store[t] \/ t \in missed
    BY DEF QuietMeansCurrent
  <2>1. 1..Len(toWindow) = {} /\ fetching = "no" /\ calls = {}
    BY DEF Quiet
  <2>2. (\A i : ~Stirs(i)) /\ ~ToBeHeard(t)
    BY <2>1 DEF Stirs, ToBeHeard
  <2>3. QED
    BY <2>1, <2>2 DEF WInv, Covered, Shown
<1>2. QED
  BY <1>1, WindowInductive, PTL

-----------------------------------------------------------------------------
(* Preferences: what is on its way will be stored over what is stored, so  *)
(* what the board shows is compared with what the settings will then be.   *)

HIDE WindowAssumption
USE PreferencesAssumption

Patchable == SettingKeys \ {"geometry"}

\* Once all patches on their way have been stored, the settings have this under that key.
Final(key, value) ==
    \/ \E i \in 1..Len(toMain) :
          /\ toMain[i].key = key /\ toMain[i].value = value
          /\ \A j \in (i + 1)..Len(toMain) : toMain[j].key # key
    \/ /\ \A j \in 1..Len(toMain) : toMain[j].key # key
       /\ Parsed(row)[key] = value

\* What a reader is about to be told under that key is final.
ReadsFinal(by, key) ==
    /\ asked[by] # Void => \A j \in (asked[by] + 1)..Len(toMain) : toMain[j].key # key
    /\ \A i \in 1..Len(toBoard) :
          toBoard[i].what = "answer" /\ toBoard[i].by = by => Final(key, toBoard[i].seen[key])

\* So is what the board has been told.
CacheFinal(key) ==
    ReadsFinal("cache", key) /\ (cached # Void => Final(key, cached[key]))

FoldsTold ==
    IF touched.folds THEN Final("folds", view.folds)
    ELSE CacheFinal("folds") /\ (cached # Void => view.folds = cached.folds)
HiddenTold ==
    IF view.hidden # Void THEN Final("hidden", view.hidden) ELSE CacheFinal("hidden")
FilterTold ==
    /\ view.project = Void \/ Final("project", view.project)
    /\ view.mine = FALSE \/ Final("mine", view.mine)
    /\ ~touched.filter => CacheFinal("project") /\ CacheFinal("mine")
ThemeTold ==
    hasty \/ (ReadsFinal("theme", "appearance")
              /\ (ThemeUnread \/ Final("appearance", view.appearance)))
BoardTold == FoldsTold /\ HiddenTold /\ FilterTold /\ ThemeTold

WindowTold ==
    /\ window.again \/ window.onTop = Parsed(row).onTop
    /\ window.moved /\ ~window.timer /\ ~window.large => Parsed(row).geometry = window.place

PrefsInv == PreferencesTypeOK /\ (window.open => BoardTold /\ WindowTold)

-----------------------------------------------------------------------------
LEMMA SettingsAreRecords ==
    ASSUME NEW s \in Settings
    PROVE  /\ DOMAIN s = SettingKeys
           /\ s["folds"] = s.folds /\ s["project"] = s.project /\ s["mine"] = s.mine
           /\ s["hidden"] = s.hidden /\ s["appearance"] = s.appearance
           /\ s["geometry"] = s.geometry /\ s["onTop"] = s.onTop
  BY DEF Settings, SettingKeys

LEMMA ParsedIsSettings ==
    ASSUME row \in Settings \cup {Missing, Unreadable}
    PROVE  Parsed(row) \in Settings
  BY DEF Parsed, Settings, Default, Appearances

LEMMA SettingsOfKeys ==
    ASSUME NEW s, DOMAIN s = SettingKeys, s = [k \in SettingKeys |-> s[k]],
           s["folds"] \in SUBSET Regions, s["project"] \in Chips \cup {Void},
           s["mine"] \in BOOLEAN, s["hidden"] \in SUBSET Hideable,
           s["appearance"] \in Appearances, s["geometry"] \in Places \cup {Void},
           s["onTop"] \in BOOLEAN
    PROVE  s \in Settings
  BY DEF Settings, SettingKeys

LEMMA PatchFits ==
    ASSUME NEW s \in Settings, NEW key \in SettingKeys, NEW t \in Settings
    PROVE  /\ [s EXCEPT ![key] = t[key]] \in Settings
           /\ \A k \in SettingKeys : [s EXCEPT ![key] = t[key]][k] = IF k = key THEN t[key] ELSE s[k]
<1>1. DOMAIN s = SettingKeys
  BY SettingsAreRecords
<1>2. \A k \in SettingKeys : [s EXCEPT ![key] = t[key]][k] = IF k = key THEN t[key] ELSE s[k]
  BY <1>1
<1>3. CASE key = "folds"
  BY <1>3 DEF Settings
<1>4. CASE key = "project"
  BY <1>4 DEF Settings
<1>5. CASE key = "mine"
  BY <1>5 DEF Settings
<1>6. CASE key = "hidden"
  BY <1>6 DEF Settings
<1>7. CASE key = "appearance"
  BY <1>7 DEF Settings
<1>8. CASE key = "geometry"
  BY <1>8 DEF Settings
<1>9. CASE key = "onTop"
  BY <1>9 DEF Settings
<1>10. QED
  BY <1>2, <1>3, <1>4, <1>5, <1>6, <1>7, <1>8, <1>9 DEF SettingKeys

\* What is stored under one key leaves the others.
LEMMA MergedKeeps ==
    ASSUME row \in Settings \cup {Missing, Unreadable}, NEW key \in SettingKeys,
           NEW t \in Settings, row' = Merged(row, key, t[key])
    PROVE  /\ row' \in Settings
           /\ \A k \in SettingKeys : Parsed(row')[k] = IF k = key THEN t[key] ELSE Parsed(row)[k]
<1>1. Parsed(row) \in Settings
  BY ParsedIsSettings
<1>2. /\ row' \in Settings
      /\ \A k \in SettingKeys : row'[k] = IF k = key THEN t[key] ELSE Parsed(row)[k]
  <2>1. PICK s \in Settings : s = Parsed(row)
    BY <1>1
  <2>2. row' = [s EXCEPT ![key] = t[key]]
    BY <2>1 DEF Merged
  <2>3. /\ [s EXCEPT ![key] = t[key]] \in Settings
        /\ \A k \in SettingKeys :
              [s EXCEPT ![key] = t[key]][k] = IF k = key THEN t[key] ELSE s[k]
    BY PatchFits
  <2>4. QED
    BY <2>1, <2>2, <2>3, Zenon
<1>3. \A k : Parsed(row')[k] = row'[k]
  BY <1>2 DEF Parsed
<1>4. QED
  BY <1>2, <1>3

LEMMA PatchOf ==
    ASSUME NEW p \in SettingPatches
    PROVE  /\ p.key \in Patchable /\ p.told \in BOOLEAN
           /\ \E t \in Settings : p.value = t[p.key]
  BY DEF SettingPatches, Patchable

LEMMA PatchWith ==
    ASSUME NEW k \in Patchable, NEW t \in Settings, NEW v, v = t[k], NEW told \in BOOLEAN
    PROVE  [key |-> k, value |-> v, told |-> told] \in SettingPatches
  BY DEF SettingPatches, Patchable

\* Another patch, or none, leaves what is final under a key.
LEMMA FinalAppended ==
    ASSUME toMain \in Seq(SettingPatches), UNCHANGED row, NEW p \in SettingPatches,
           toMain' = Append(toMain, p), NEW key, NEW v
    PROVE  /\ key # p.key /\ Final(key, v) => Final(key, v)'
           /\ Final(p.key, p.value)'
<1>1. /\ Len(toMain') = Len(toMain) + 1 /\ Len(toMain) \in Nat
      /\ \A i \in 1..Len(toMain) : toMain'[i] = toMain[i]
      /\ toMain'[Len(toMain) + 1] = p
  OBVIOUS
<1>2. Final(p.key, p.value)'
  BY <1>1 DEF Final
<1>3. ASSUME key # p.key, Final(key, v) PROVE Final(key, v)'
  <2>1. CASE \E i \in 1..Len(toMain) :
               /\ toMain[i].key = key /\ toMain[i].value = v
               /\ \A j \in (i + 1)..Len(toMain) : toMain[j].key # key
    <3>1. PICK i \in 1..Len(toMain) :
               /\ toMain[i].key = key /\ toMain[i].value = v
               /\ \A j \in (i + 1)..Len(toMain) : toMain[j].key # key
      BY <2>1
    <3>2. \A j \in (i + 1)..Len(toMain') : toMain'[j].key # key
      BY <1>1, <1>3, <3>1
    <3>3. QED
      BY <1>1, <3>1, <3>2 DEF Final
  <2>2. CASE (\A j \in 1..Len(toMain) : toMain[j].key # key) /\ Parsed(row)[key] = v
    BY <1>1, <1>3, <2>2 DEF Final
  <2>3. QED
    BY <1>3, <2>1, <2>2 DEF Final
<1>4. QED
  BY <1>2, <1>3

\* Storing the first patch leaves what is final under every key.
LEMMA FinalStored ==
    ASSUME PreferencesTypeOK, Store, NEW key \in SettingKeys, NEW v, Final(key, v)
    PROVE  Final(key, v)'
<1>1. toMain \in Seq(SettingPatches) /\ toMain # << >>
  BY DEF PreferencesTypeOK, Store
<1>2. /\ Head(toMain) = toMain[1] /\ toMain[1] \in SettingPatches
      /\ Len(toMain') = Len(toMain) - 1 /\ Len(toMain) \in Nat /\ Len(toMain) # 0
      /\ \A i \in 1..Len(toMain') : toMain'[i] = toMain[i + 1]
  BY <1>1 DEF Store
<1>3. PICK t \in Settings : toMain[1].value = t[toMain[1].key]
  BY <1>2, PatchOf
<1>4. \A k \in SettingKeys :
         Parsed(row')[k] = IF k = toMain[1].key THEN toMain[1].value ELSE Parsed(row)[k]
  <2>1. toMain[1].key \in SettingKeys
    BY <1>2, PatchOf DEF Patchable
  <2>2. row' = Merged(row, toMain[1].key, t[toMain[1].key])
    BY <1>2, <1>3 DEF Store
  <2>3. QED
    BY <1>3, <2>1, <2>2, MergedKeeps DEF PreferencesTypeOK
<1>5. CASE \E i \in 1..Len(toMain) :
               /\ toMain[i].key = key /\ toMain[i].value = v
               /\ \A j \in (i + 1)..Len(toMain) : toMain[j].key # key
  <2>1. PICK i \in 1..Len(toMain) :
               /\ toMain[i].key = key /\ toMain[i].value = v
               /\ \A j \in (i + 1)..Len(toMain) : toMain[j].key # key
    BY <1>5
  <2>2. CASE i = 1
    <3>1. \A j \in 1..Len(toMain') : toMain'[j].key # key
      BY <1>2, <2>1, <2>2
    <3>2. Parsed(row')[key] = v
      BY <1>4, <2>1, <2>2
    <3>3. QED
      BY <3>1, <3>2 DEF Final
  <2>3. CASE i # 1
    <3>1. i - 1 \in 1..Len(toMain') /\ toMain'[i - 1] = toMain[i]
      BY <1>2, <2>1, <2>3
    <3>2. \A j \in ((i - 1) + 1)..Len(toMain') : toMain'[j].key # key
      BY <1>2, <2>1, <2>3
    <3>3. QED
      BY <2>1, <3>1, <3>2 DEF Final
  <2>4. QED
    BY <2>2, <2>3
<1>6. CASE (\A j \in 1..Len(toMain) : toMain[j].key # key) /\ Parsed(row)[key] = v
  <2>1. \A j \in 1..Len(toMain') : toMain'[j].key # key
    BY <1>2, <1>6
  <2>2. Parsed(row')[key] = v
    BY <1>2, <1>4, <1>6
  <2>3. QED
    BY <2>1, <2>2 DEF Final
<1>7. QED
  BY <1>5, <1>6 DEF Final

\* With nothing on its way what is final is stored.
LEMMA FinalAtRest ==
    ASSUME toMain = << >>, NEW key, NEW v, Final(key, v)
    PROVE  Parsed(row)[key] = v
<1>1. Len(toMain) = 0
  OBVIOUS
<1>2. QED
  BY <1>1 DEF Final

LEMMA FinalWhenStored ==
    ASSUME NEW key, \A j \in 1..Len(toMain) : toMain[j].key # key
    PROVE  Final(key, Parsed(row)[key])
  BY DEF Final

-----------------------------------------------------------------------------
\* Whatever leaves the board as it is and what is final and asked for as it was.
LEMMA BoardStays ==
    ASSUME PreferencesTypeOK, BoardTold, UNCHANGED <<view, touched, cached, hasty>>,
           \A key \in Patchable : \A v : Final(key, v) => Final(key, v)',
           \A by \in Readers : \A key \in Patchable : ReadsFinal(by, key) => ReadsFinal(by, key)',
           ThemeUnread => ThemeUnread'
    PROVE  BoardTold'
<1>1. \A key \in Patchable : CacheFinal(key) => CacheFinal(key)'
  BY DEF CacheFinal, Readers
<1>2. FoldsTold'
  BY <1>1 DEF BoardTold, FoldsTold, Patchable, SettingKeys
<1>3. HiddenTold'
  BY <1>1 DEF BoardTold, HiddenTold, Patchable, SettingKeys
<1>4. FilterTold'
  BY <1>1 DEF BoardTold, FilterTold, Patchable, SettingKeys
<1>5. ThemeTold'
  BY DEF BoardTold, ThemeTold, Patchable, SettingKeys, Readers
<1>6. QED
  BY <1>2, <1>3, <1>4, <1>5 DEF BoardTold

LEMMA ReadsStored ==
    ASSUME PreferencesTypeOK, Store, NEW by \in Readers, NEW key \in Patchable, ReadsFinal(by, key)
    PROVE  ReadsFinal(by, key)'
<1>1. /\ toMain \in Seq(SettingPatches) /\ toMain # << >> /\ toBoard \in Seq(BoardReplies)
      /\ asked[by] \in {Void} \cup 0..Len(toMain) /\ asked[by] # 0
      /\ asked'[by] = IF asked[by] = Void THEN Void ELSE asked[by] - 1
  BY DEF PreferencesTypeOK, Store
<1>2. /\ Len(toMain') = Len(toMain) - 1 /\ Len(toMain) \in Nat /\ Len(toMain) # 0
      /\ \A i \in 1..Len(toMain') : toMain'[i] = toMain[i + 1]
  BY <1>1 DEF Store
<1>3. asked'[by] # Void => \A j \in (asked'[by] + 1)..Len(toMain') : toMain'[j].key # key
  BY <1>1, <1>2 DEF ReadsFinal
<1>4. ASSUME NEW i \in 1..Len(toBoard'), toBoard'[i].what = "answer", toBoard'[i].by = by
      PROVE  i \in 1..Len(toBoard) /\ toBoard'[i] = toBoard[i]
  <2>1. CASE Head(toMain).told
    BY <1>1, <1>4, <2>1 DEF Store
  <2>2. CASE ~Head(toMain).told
    BY <1>1, <1>4, <2>2 DEF Store
  <2>3. QED
    BY <2>1, <2>2
<1>5. ASSUME NEW i \in 1..Len(toBoard'), toBoard'[i].what = "answer", toBoard'[i].by = by
      PROVE  Final(key, toBoard[i].seen[key])'
  <2>1. PICK v : v = toBoard[i].seen[key]
    OBVIOUS
  <2>2. Final(key, v)
    BY <1>4, <1>5, <2>1 DEF ReadsFinal
  <2>3. Final(key, v)'
    BY <2>2, FinalStored DEF Patchable
  <2>4. v = toBoard'[i].seen[key]
    BY <1>4, <1>5, <2>1
  <2>5. QED
    BY <2>3, <2>4 DEF Final
<1>6. QED
  BY <1>3, <1>5 DEF ReadsFinal

\* While nothing is stored or written and no reply is added, what is final stays.
LEMMA FinalUnmoved ==
    ASSUME UNCHANGED toMain, NEW key \in Patchable, NEW v,
           Parsed(row)[key] = Parsed(row')[key], Final(key, v)
    PROVE  Final(key, v)'
  BY DEF Final

LEMMA ReadsUnmoved ==
    ASSUME UNCHANGED <<toMain, asked, toBoard>>, NEW by, NEW key \in Patchable,
           Parsed(row)[key] = Parsed(row')[key], ReadsFinal(by, key)
    PROVE  ReadsFinal(by, key)'
<1>1. ASSUME NEW i \in 1..Len(toBoard), toBoard[i].what = "answer", toBoard[i].by = by
      PROVE  Final(key, toBoard[i].seen[key])'
  <2>1. PICK v : v = toBoard[i].seen[key]
    OBVIOUS
  <2>2. Final(key, v)'
    BY <1>1, <2>1, FinalUnmoved DEF ReadsFinal
  <2>3. v = toBoard'[i].seen[key]
    BY <2>1
  <2>4. QED
    BY <2>2, <2>3 DEF Final
<1>2. QED
  BY <1>1 DEF ReadsFinal

\* A step of the window, or of the projects, leaves the board.
LEMMA BoardUnmoved ==
    ASSUME PreferencesTypeOK, BoardTold, UNCHANGED <<view, touched, cached, hasty>>,
           UNCHANGED <<toMain, asked, toBoard>>,
           \A key \in Patchable : Parsed(row)[key] = Parsed(row')[key]
    PROVE  BoardTold'
<1>1. \A key \in Patchable : \A v : Final(key, v) => Final(key, v)'
  BY FinalUnmoved
<1>2. \A by \in Readers : \A key \in Patchable : ReadsFinal(by, key) => ReadsFinal(by, key)'
  BY ReadsUnmoved
<1>3. ThemeUnread => ThemeUnread'
  BY DEF ThemeUnread
<1>4. QED
  BY <1>1, <1>2, <1>3, BoardStays

LEMMA CapturedKeeps ==
    ASSUME PreferencesTypeOK, row' = Captured
    PROVE  /\ row' \in Settings \cup {Missing, Unreadable}
           /\ \A key \in Patchable : Parsed(row)[key] = Parsed(row')[key]
           /\ ~window.large => Parsed(row')["geometry"] = window.place
<1>1. CASE window.large
  BY <1>1 DEF Captured, PreferencesTypeOK
<1>2. CASE ~window.large
  <2>1. PICK t \in Settings : t["geometry"] = window.place
    <3>1. [Default EXCEPT !.geometry = window.place] \in Settings
      BY DEF Default, Settings, Appearances, PreferencesTypeOK
    <3>2. [Default EXCEPT !.geometry = window.place]["geometry"] = window.place
      BY DEF Default
    <3>3. QED
      BY <3>1, <3>2
  <2>2. row' = Merged(row, "geometry", t["geometry"])
    BY <1>2, <2>1 DEF Captured
  <2>3. "geometry" \in SettingKeys
    BY DEF SettingKeys
  <2>4. QED
    BY <2>1, <2>2, <2>3, MergedKeeps DEF PreferencesTypeOK, Patchable
<1>3. QED
  BY <1>1, <1>2

-----------------------------------------------------------------------------
(* Types.                                                                  *)

BoardTypeOK ==
    view \in [folds : SUBSET Regions, project : Chips \cup {Void}, mine : BOOLEAN,
              hidden : {Void} \cup SUBSET Hideable, appearance : Appearances]

LEMMA ForgottenType ==
    ASSUME Forgotten
    PROVE  /\ toBoard' \in Seq(BoardReplies) /\ cached' \in Settings \cup {Void}
           /\ known' \in {Void} \cup SUBSET Chips /\ BoardTypeOK'
           /\ touched' \in [folds : BOOLEAN, filter : BOOLEAN] /\ hasty' \in BOOLEAN
<1>1. Blank \in [folds : SUBSET Regions, project : Chips \cup {Void}, mine : BOOLEAN,
                hidden : {Void} \cup SUBSET Hideable, appearance : Appearances]
  BY DEF Blank, Appearances
<1>2. BoardTypeOK'
  BY <1>1 DEF Forgotten, BoardTypeOK
<1>3. toBoard' \in Seq(BoardReplies)
  BY DEF Forgotten
<1>4. touched' \in [folds : BOOLEAN, filter : BOOLEAN] /\ hasty' \in BOOLEAN
  BY DEF Forgotten
<1>5. cached' \in Settings \cup {Void} /\ known' \in {Void} \cup SUBSET Chips
  BY DEF Forgotten
<1>6. QED
  BY <1>2, <1>3, <1>4, <1>5

LEMMA PlacementType ==
    ASSUME NEW saved \in Places \cup {Void}, NEW attached \in SUBSET Displays,
           Primary \in attached, NEW requested
    PROVE  Placement(saved, attached, requested) \in Places
  BY DEF Placement, Centre, Places

LEMMA OpenedType ==
    ASSUME NEW saved \in [geometry : Places \cup {Void}, onTop : BOOLEAN], NEW again \in BOOLEAN,
           Opened(saved, again)
    PROVE  /\ window' \in [open : BOOLEAN, place : Places \cup {Void}, large : BOOLEAN,
                   onTop : BOOLEAN, timer : BOOLEAN, moved : BOOLEAN, again : BOOLEAN]
           /\ window'.onTop = saved.onTop /\ window'.again = again /\ ~window'.moved
           /\ window'.open
<1>1. PICK others \in SUBSET (Displays \ {Primary}), requested \in Requested :
        window' = [NoWindow EXCEPT
                     !.open = TRUE, !.onTop = saved.onTop, !.again = again,
                     !.place = Placement(saved.geometry, others \cup {Primary}, requested)]
  BY DEF Opened
<1>2. Placement(saved.geometry, others \cup {Primary}, requested) \in Places
  BY PlacementType
<1>3. QED
  BY <1>1, <1>2 DEF NoWindow

LEMMA MountsType ==
    ASSUME PreferencesTypeOK, Mounts
    PROVE  /\ toMain' \in Seq(SettingPatches) /\ asked' \in [Readers -> {Void} \cup 0..Len(toMain')]
           /\ \A by \in Readers : asked'[by] = Len(toMain)
<1>1. Len(toMain) \in 0..Len(toMain)
  BY DEF PreferencesTypeOK
<1>2. QED
  BY <1>1 DEF PreferencesTypeOK, Mounts

LEMMA LaunchType ==
    ASSUME PreferencesTypeOK, Launch \/ Activate
    PROVE  PreferencesTypeOK'
<1>1. CASE Launch
  <2>1. launched' \in [geometry : Places \cup {Void}, onTop : BOOLEAN]
    BY <1>1, ParsedIsSettings DEF PreferencesTypeOK, Launch, Settings
  <2>2. PICK saved \in [geometry : Places \cup {Void}, onTop : BOOLEAN] : saved = launched'
    BY <2>1
  <2>3. Opened(saved, FALSE)
    BY <1>1, <2>2 DEF Launch, Opened
  <2>4. Forgotten /\ Mounts
    BY <1>1 DEF Launch, Mounts
  <2>5. QED
    BY <1>1, <2>1, <2>3, <2>4, OpenedType, MountsType, ForgottenType
    DEF PreferencesTypeOK, Launch, BoardTypeOK
<1>2. CASE Activate
  <2>1. PICK saved \in [geometry : Places \cup {Void}, onTop : BOOLEAN] : saved = launched
    BY DEF PreferencesTypeOK
  <2>2. Opened(saved, TRUE) /\ Forgotten /\ Mounts
    BY <1>2, <2>1 DEF Activate, Opened, Mounts
  <2>3. QED
    BY <1>2, <2>1, <2>2, OpenedType, MountsType, ForgottenType
    DEF PreferencesTypeOK, Activate, BoardTypeOK
<1>3. QED
  BY <1>1, <1>2

LEMMA WindowType ==
    ASSUME PreferencesTypeOK, Move \/ Maximise \/ Settle \/ \E p \in Chips : ChangeProjects(p)
    PROVE  PreferencesTypeOK'
<1>0. ASSUME NEW place \in Places \cup {Void}, NEW large \in BOOLEAN, Reshape(place, large)
      PROVE  PreferencesTypeOK'
  <2>1. pressed' \in 0..MaxPressed
    BY <1>0 DEF PreferencesTypeOK, Reshape, Pressing
  <2>2. window' \in [open : BOOLEAN, place : Places \cup {Void}, large : BOOLEAN,
                   onTop : BOOLEAN, timer : BOOLEAN, moved : BOOLEAN, again : BOOLEAN]
    BY <1>0 DEF PreferencesTypeOK, Reshape
  <2>3. QED
    BY <1>0, <2>1, <2>2 DEF PreferencesTypeOK, Reshape
<1>1. CASE Move
  BY <1>0, <1>1 DEF Move, Places
<1>2. CASE Maximise
  <2>1. window.place \in Places \cup {Void} /\ (~window.large) \in BOOLEAN
    BY DEF PreferencesTypeOK
  <2>2. QED
    BY <1>0, <1>2, <2>1 DEF Maximise
<1>3. CASE Settle
  <2>1. row' \in Settings \cup {Missing, Unreadable}
    BY <1>3, CapturedKeeps DEF Settle
  <2>2. QED
    BY <1>3, <2>1 DEF PreferencesTypeOK, Settle
<1>4. ASSUME NEW p \in Chips, ChangeProjects(p) PROVE PreferencesTypeOK'
  BY <1>4 DEF PreferencesTypeOK, ChangeProjects, Pressing, Other, Drawn
<1>5. QED
  BY <1>1, <1>2, <1>3, <1>4

LEMMA UntoldType ==
    ASSUME NEW s \in Seq(SettingPatches), NEW n \in 0..Len(s)
    PROVE  Untold(SubSeq(s, 1, n)) \in Seq(SettingPatches)
<1>1. /\ SubSeq(s, 1, n) \in Seq(SettingPatches) /\ DOMAIN SubSeq(s, 1, n) = 1..n
      /\ n \in Nat
  OBVIOUS
<1>2. ASSUME NEW p \in SettingPatches PROVE [p EXCEPT !.told = FALSE] \in SettingPatches
  <2>1. PICK k \in SettingKeys \ {"geometry"} :
           p \in [key : {k}, value : {t[k] : t \in Settings}, told : BOOLEAN]
    BY DEF SettingPatches
  <2>2. [p EXCEPT !.told = FALSE] \in [key : {k}, value : {t[k] : t \in Settings}, told : BOOLEAN]
    BY <2>1
  <2>3. QED
    BY <2>2 DEF SettingPatches
<1>3. \A i \in 1..n : SubSeq(s, 1, n)[i] \in SettingPatches
  BY <1>1
<1>4. Untold(SubSeq(s, 1, n)) = [i \in 1..n |-> [SubSeq(s, 1, n)[i] EXCEPT !.told = FALSE]]
  BY <1>1 DEF Untold
<1>5. [i \in 1..n |-> [SubSeq(s, 1, n)[i] EXCEPT !.told = FALSE]] \in [1..n -> SettingPatches]
  BY <1>2, <1>3
<1>6. QED
  BY <1>1, <1>4, <1>5

LEMMA EndType ==
    ASSUME PreferencesTypeOK, Close \/ Quit
    PROVE  PreferencesTypeOK' /\ ~window'.open
<1>0. /\ << >> \in Seq(SettingPatches) /\ Void \in {Void} \cup 0..Len(toMain')
      /\ NotAsked \in [Readers -> {Void} \cup 0..Len(toMain')]
  BY DEF NotAsked
<1>1. CASE Close
  <2>1. row' \in Settings \cup {Missing, Unreadable}
    BY <1>1, CapturedKeeps DEF Close
  <2>2. toMain' \in Seq(SettingPatches)
    BY <1>0, <1>1, UntoldType DEF Close, PreferencesTypeOK
  <2>3. Forgotten
    BY <1>1 DEF Close
  <2>4. window' \in [open : BOOLEAN, place : Places \cup {Void}, large : BOOLEAN,
                   onTop : BOOLEAN, timer : BOOLEAN, moved : BOOLEAN, again : BOOLEAN]
        /\ ~window'.open
    BY <1>1 DEF Close, NoWindow
  <2>5. QED
    BY <1>0, <1>1, <2>1, <2>2, <2>3, <2>4, ForgottenType DEF PreferencesTypeOK, Close, BoardTypeOK
<1>2. CASE Quit
  <2>1. window' \in [open : BOOLEAN, place : Places \cup {Void}, large : BOOLEAN,
                   onTop : BOOLEAN, timer : BOOLEAN, moved : BOOLEAN, again : BOOLEAN]
        /\ ~window'.open
    BY <1>2 DEF Quit, NoWindow
  <2>2. Forgotten
    BY <1>2 DEF Quit
  <2>3. QED
    BY <1>0, <1>2, <2>1, <2>2, ForgottenType DEF PreferencesTypeOK, Quit, BoardTypeOK
<1>3. QED
  BY <1>1, <1>2

LEMMA ReplyTypes ==
    /\ \A by \in Readers, seen \in Settings :
          [what |-> "answer", by |-> by, seen |-> seen] \in BoardReplies
    /\ [what |-> "stored"] \in BoardReplies
    /\ \A m \in BoardReplies :
          /\ m.what \in {"answer", "dropped", "stored"}
          /\ m.what # "stored" => m.by \in Readers /\ m.seen \in Settings
          /\ m.what = "answer" => [m EXCEPT !.what = "dropped"] \in BoardReplies
  BY DEF BoardReplies

LEMMA AnswerType ==
    ASSUME PreferencesTypeOK, NEW by \in Readers, Answer(by)
    PROVE  PreferencesTypeOK'
<1>1. toBoard' \in Seq(BoardReplies)
  BY ReplyTypes, ParsedIsSettings DEF PreferencesTypeOK, Answer
<1>2. asked' \in [Readers -> {Void} \cup 0..Len(toMain')]
  BY DEF PreferencesTypeOK, Answer
<1>3. QED
  BY <1>1, <1>2 DEF PreferencesTypeOK, Answer

LEMMA StoreType ==
    ASSUME PreferencesTypeOK, Store
    PROVE  /\ PreferencesTypeOK' /\ row' \in Settings
           /\ \A key \in SettingKeys \ Patchable : Parsed(row)[key] = Parsed(row')[key]
<1>1. /\ toMain \in Seq(SettingPatches) /\ toMain # << >>
  BY DEF PreferencesTypeOK, Store
<1>2. /\ Head(toMain) \in SettingPatches /\ toMain' \in Seq(SettingPatches)
      /\ Len(toMain') = Len(toMain) - 1 /\ Len(toMain) \in Nat /\ Len(toMain) # 0
  BY <1>1 DEF Store
<1>3. PICK t \in Settings : Head(toMain).value = t[Head(toMain).key]
  BY <1>2, PatchOf
<1>4. Head(toMain).key \in Patchable /\ Head(toMain).told \in BOOLEAN
  BY <1>2, PatchOf
<1>5. /\ row' \in Settings
      /\ \A key \in SettingKeys \ Patchable : Parsed(row)[key] = Parsed(row')[key]
  <2>1. row' = Merged(row, Head(toMain).key, t[Head(toMain).key])
    BY <1>3 DEF Store
  <2>2. QED
    BY <1>3, <1>4, <2>1, MergedKeeps DEF PreferencesTypeOK, Patchable
<1>6. asked' \in [Readers -> {Void} \cup 0..Len(toMain')]
  BY <1>2 DEF PreferencesTypeOK, Store
<1>7. toBoard' \in Seq(BoardReplies)
  BY <1>4, ReplyTypes DEF PreferencesTypeOK, Store
<1>8. window' \in [open : BOOLEAN, place : Places \cup {Void}, large : BOOLEAN,
                   onTop : BOOLEAN, timer : BOOLEAN, moved : BOOLEAN, again : BOOLEAN]
  <2>1. row'.onTop \in BOOLEAN
    BY <1>5 DEF Settings
  <2>2. QED
    BY <2>1 DEF PreferencesTypeOK, Store
<1>9. QED
  BY <1>2, <1>5, <1>6, <1>7, <1>8 DEF PreferencesTypeOK, Store

LEMMA SeededType ==
    ASSUME PreferencesTypeOK, NEW seen \in Settings \cup {Void}, NEW listing,
           view' = Seeded(seen, listing)
    PROVE  BoardTypeOK'
<1>1. CASE seen = Void
  BY <1>1 DEF Seeded, BoardTypeOK, PreferencesTypeOK
<1>2. CASE seen # Void
  <2>1. seen.folds \in SUBSET Regions /\ seen.mine \in BOOLEAN /\ seen.project \in Chips \cup {Void}
    BY <1>2 DEF Settings
  <2>2. /\ view'.folds \in SUBSET Regions /\ view'.mine \in BOOLEAN
        /\ view'.project \in Chips \cup {Void}
        /\ view'.hidden = view.hidden /\ view'.appearance = view.appearance
        /\ view' = [folds |-> view'.folds, project |-> view'.project, mine |-> view'.mine,
                    hidden |-> view'.hidden, appearance |-> view'.appearance]
    BY <1>2, <2>1 DEF Seeded, PreferencesTypeOK
  <2>3. QED
    BY <2>2 DEF BoardTypeOK, PreferencesTypeOK
<1>3. QED
  BY <1>1, <1>2

LEMMA UnfetchedType ==
    ASSUME NEW replies \in Seq(BoardReplies)
    PROVE  /\ Unfetched(replies) \in Seq(BoardReplies)
           /\ Len(Unfetched(replies)) = Len(replies)
           /\ \A i \in 1..Len(replies) :
                 Unfetched(replies)[i] =
                   IF replies[i].what = "answer" /\ replies[i].by = "cache"
                   THEN [replies[i] EXCEPT !.what = "dropped"] ELSE replies[i]
<1> DEFINE u == [i \in 1..Len(replies) |->
                   IF replies[i].what = "answer" /\ replies[i].by = "cache"
                   THEN [replies[i] EXCEPT !.what = "dropped"] ELSE replies[i]]
<1>1. Unfetched(replies) = u /\ Len(replies) \in Nat
  BY DEF Unfetched
<1>2. u \in [1..Len(replies) -> BoardReplies]
  BY ReplyTypes
<1>3. u \in Seq(BoardReplies) /\ Len(u) = Len(replies)
  BY <1>1, <1>2
<1>4. QED
  BY <1>1, <1>3

LEMMA RefetchType ==
    ASSUME PreferencesTypeOK, NEW replies \in Seq(BoardReplies), Refetch(replies), UNCHANGED toMain
    PROVE  /\ toBoard' \in Seq(BoardReplies)
           /\ asked' \in [Readers -> {Void} \cup 0..Len(toMain')]
<1>1. toBoard' \in Seq(BoardReplies)
  BY UnfetchedType DEF Refetch
<1>2. Len(toMain) \in 0..Len(toMain) /\ Len(toMain') = Len(toMain)
  BY DEF PreferencesTypeOK
<1>3. asked' \in [Readers -> {Void} \cup 0..Len(toMain')]
  BY <1>2 DEF Refetch, PreferencesTypeOK
<1>4. QED
  BY <1>1, <1>3

-----------------------------------------------------------------------------
(* What is heard.                                                          *)

\* A reader to whom nothing new is on its way is told what is final.
LEMMA ReadsHeard ==
    ASSUME UNCHANGED <<row, toMain>>, NEW by, NEW key \in Patchable, ReadsFinal(by, key),
           \/ asked'[by] = asked[by]
           \/ Len(toMain) \in Nat /\ asked'[by] = Len(toMain),
           \A i \in 1..Len(toBoard') : toBoard'[i].what = "answer" /\ toBoard'[i].by = by =>
              \E j \in 1..Len(toBoard) :
                 /\ toBoard[j].what = "answer" /\ toBoard[j].by = by
                 /\ toBoard[j].seen = toBoard'[i].seen
    PROVE  ReadsFinal(by, key)'
<1>1. ASSUME NEW i \in 1..Len(toBoard'), toBoard'[i].what = "answer", toBoard'[i].by = by
      PROVE  Final(key, toBoard[i].seen[key])'
  <2>1. PICK j \in 1..Len(toBoard) :
           toBoard[j].what = "answer" /\ toBoard[j].by = by /\ toBoard[j].seen = toBoard'[i].seen
    BY <1>1
  <2>2. PICK v : v = toBoard[j].seen[key]
    OBVIOUS
  <2>3. Final(key, v)'
    BY <2>1, <2>2, FinalUnmoved DEF ReadsFinal
  <2>4. v = toBoard'[i].seen[key]
    BY <2>1, <2>2
  <2>5. QED
    BY <2>3, <2>4 DEF Final
<1>2. asked'[by] # Void => \A j \in (asked'[by] + 1)..Len(toMain') : toMain'[j].key # key
  BY DEF ReadsFinal
<1>3. QED
  BY <1>1, <1>2 DEF ReadsFinal

LEMMA HeadAndRest ==
    ASSUME PreferencesTypeOK, toBoard # << >>
    PROVE  /\ Head(toBoard) = toBoard[1] /\ Head(toBoard) \in BoardReplies
           /\ Len(toBoard) \in Nat /\ 1 \in 1..Len(toBoard)
           /\ Tail(toBoard) \in Seq(BoardReplies) /\ Len(Tail(toBoard)) = Len(toBoard) - 1
           /\ \A i \in 1..Len(Tail(toBoard)) :
                 i + 1 \in 1..Len(toBoard) /\ Tail(toBoard)[i] = toBoard[i + 1]
           /\ \A i \in 1..Len(toBoard) :
                 i # 1 => i - 1 \in 1..Len(Tail(toBoard)) /\ Tail(toBoard)[i - 1] = toBoard[i]
<1>1. toBoard \in Seq(BoardReplies)
  BY DEF PreferencesTypeOK
<1>2. QED
  BY <1>1

\* What a cached answer that has just arrived is worth.
LEMMA HeardFinal ==
    ASSUME PreferencesTypeOK, toBoard # << >>, NEW by, NEW key \in Patchable, ReadsFinal(by, key),
           Head(toBoard).what = "answer", Head(toBoard).by = by, NEW v,
           v = Head(toBoard).seen[key]
    PROVE  Final(key, v)
<1>1. toBoard[1].what = "answer" /\ toBoard[1].by = by /\ 1 \in 1..Len(toBoard)
      /\ v = toBoard[1].seen[key]
  BY HeadAndRest
<1>2. Final(key, toBoard[1].seen[key])
  BY <1>1 DEF ReadsFinal
<1>3. QED
  BY <1>1, <1>2

LEMMA RestReads ==
    ASSUME PreferencesTypeOK, toBoard # << >>, UNCHANGED <<row, toMain, asked>>,
           toBoard' = Tail(toBoard), NEW by, NEW key \in Patchable, ReadsFinal(by, key)
    PROVE  ReadsFinal(by, key)'
<1>1. \A i \in 1..Len(toBoard') : i + 1 \in 1..Len(toBoard) /\ toBoard'[i] = toBoard[i + 1]
  BY HeadAndRest
<1>2. QED
  BY <1>1, ReadsHeard

LEMMA RefetchReads ==
    ASSUME PreferencesTypeOK, UNCHANGED <<row, toMain>>, NEW replies \in Seq(BoardReplies),
           Refetch(replies), NEW by \in Readers, NEW key \in Patchable, ReadsFinal(by, key),
           \A i \in 1..Len(replies) : \E j \in 1..Len(toBoard) : replies[i] = toBoard[j]
    PROVE  ReadsFinal(by, key)'
<1>1. Len(toMain) \in Nat
  BY DEF PreferencesTypeOK
<1>2. \/ asked'[by] = asked[by]
      \/ asked'[by] = Len(toMain)
  BY DEF Refetch, PreferencesTypeOK, Readers
<1>3. ASSUME NEW i \in 1..Len(toBoard'), toBoard'[i].what = "answer", toBoard'[i].by = by
      PROVE  \E j \in 1..Len(toBoard) :
                 /\ toBoard[j].what = "answer" /\ toBoard[j].by = by
                 /\ toBoard[j].seen = toBoard'[i].seen
  <2>1. i \in 1..Len(replies)
        /\ toBoard'[i] = IF replies[i].what = "answer" /\ replies[i].by = "cache"
                         THEN [replies[i] EXCEPT !.what = "dropped"] ELSE replies[i]
    BY <1>3, UnfetchedType DEF Refetch
  <2>2. ~(replies[i].what = "answer" /\ replies[i].by = "cache")
    <3>1. SUFFICES ASSUME replies[i].what = "answer" /\ replies[i].by = "cache" PROVE FALSE
      OBVIOUS
    <3>2. toBoard'[i] = [replies[i] EXCEPT !.what = "dropped"] /\ replies[i] \in BoardReplies
      BY <2>1, <3>1
    <3>3. toBoard'[i].what = "dropped"
      BY <3>1, <3>2 DEF BoardReplies
    <3>4. QED
      BY <1>3, <3>3
  <2>3. toBoard'[i] = replies[i]
    BY <2>1, <2>2
  <2>4. QED
    BY <1>3, <2>1, <2>3
<1>4. QED
  BY <1>1, <1>2, <1>3, ReadsHeard

LEMMA RefetchTheme ==
    ASSUME PreferencesTypeOK, NEW replies \in Seq(BoardReplies), Refetch(replies), ThemeUnread,
           \A i \in 1..Len(toBoard) : toBoard[i].what = "answer" /\ toBoard[i].by = "theme" =>
              \E j \in 1..Len(replies) : replies[j] = toBoard[i]
    PROVE  ThemeUnread'
<1>1. CASE asked["theme"] # Void
  BY <1>1 DEF ThemeUnread, Refetch, PreferencesTypeOK, Readers
<1>2. CASE \E i \in DOMAIN toBoard : toBoard[i].what = "answer" /\ toBoard[i].by = "theme"
  <2>1. PICK i \in 1..Len(toBoard) : toBoard[i].what = "answer" /\ toBoard[i].by = "theme"
    BY <1>2 DEF PreferencesTypeOK
  <2>2. PICK j \in 1..Len(replies) : replies[j] = toBoard[i]
    BY <2>1
  <2>3. replies[j].by # "cache"
    BY <2>1, <2>2
  <2>4. toBoard' \in Seq(BoardReplies) /\ Len(toBoard') = Len(replies)
        /\ toBoard'[j] = replies[j]
    BY <2>3, UnfetchedType DEF Refetch
  <2>5. j \in DOMAIN toBoard'
    BY <2>4
  <2>6. QED
    BY <2>1, <2>2, <2>4, <2>5 DEF ThemeUnread
<1>3. QED
  BY <1>1, <1>2 DEF ThemeUnread

\* What is final stays so while nothing is stored or written.
LEMMA StillFinal ==
    ASSUME UNCHANGED <<row, toMain>>
    PROVE  \A key \in Patchable : \A v : Final(key, v) => Final(key, v)'
  BY FinalUnmoved

\* The board shows what it was told, and its copy is final.
LEMMA SeededTold ==
    ASSUME PreferencesTypeOK, BoardTold, UNCHANGED <<row, toMain, touched, hasty>>,
           NEW seen \in Settings \cup {Void}, NEW listing, view' = Seeded(seen, listing),
           cached' = seen,
           seen # Void => \A key \in Patchable : CacheFinal(key) => Final(key, seen[key]),
           seen = Void => cached = Void,
           \A by \in Readers : \A key \in Patchable : ReadsFinal(by, key) => ReadsFinal(by, key)',
           ThemeUnread => ThemeUnread'
    PROVE  BoardTold'
<1>0. \A key \in Patchable : \A v : Final(key, v) => Final(key, v)'
  BY StillFinal
<1>1. \A key \in Patchable : CacheFinal(key) => CacheFinal(key)'
  <2>1. SUFFICES ASSUME NEW key \in Patchable, CacheFinal(key) PROVE CacheFinal(key)'
    OBVIOUS
  <2>2. ReadsFinal("cache", key)'
    BY <2>1 DEF CacheFinal, Readers
  <2>3. cached' # Void => Final(key, cached[key])'
    <3>1. SUFFICES ASSUME seen # Void PROVE Final(key, cached[key])'
      OBVIOUS
    <3>2. PICK v : v = seen[key]
      OBVIOUS
    <3>3. Final(key, v)'
      BY <1>0, <2>1, <3>1, <3>2
    <3>4. QED
      BY <3>2, <3>3 DEF Final
  <2>4. QED
    BY <2>2, <2>3 DEF CacheFinal
<1>2. /\ view'.hidden = view.hidden /\ view'.appearance = view.appearance
      /\ view'.folds = IF seen = Void \/ touched.folds THEN view.folds ELSE seen.folds
      /\ view'.mine = IF seen = Void \/ touched.filter THEN view.mine ELSE seen.mine
      /\ \/ view'.project = Void
         \/ view'.project = view.project /\ (seen = Void \/ touched.filter)
         \/ view'.project = seen.project /\ seen # Void /\ ~touched.filter
  BY DEF Seeded, PreferencesTypeOK
<1>3. FoldsTold'
  <2>1. CASE touched.folds
    BY <1>0, <1>2, <2>1 DEF BoardTold, FoldsTold, Patchable, SettingKeys, Final
  <2>2. CASE ~touched.folds
    BY <1>1, <1>2, <2>2 DEF BoardTold, FoldsTold, Patchable, SettingKeys
  <2>3. QED
    BY <2>1, <2>2
<1>4. HiddenTold'
  BY <1>0, <1>1, <1>2 DEF BoardTold, HiddenTold, Patchable, SettingKeys, Final
<1>5. FilterTold'
  <2>0. "project" \in Patchable /\ "mine" \in Patchable
    BY DEF Patchable, SettingKeys
  <2>1. ~touched.filter => CacheFinal("project")' /\ CacheFinal("mine")'
    BY <1>1, <2>0 DEF BoardTold, FilterTold
  <2>2. view'.project = Void \/ Final("project", view.project)'
    <3>1. CASE view'.project = view.project
      <4>1. PICK v : v = view.project
        OBVIOUS
      <4>2. v = Void \/ Final("project", v)
        BY <4>1 DEF BoardTold, FilterTold
      <4>3. v = Void \/ Final("project", v)'
        BY <1>0, <2>0, <4>2
      <4>4. QED
        BY <3>1, <4>1, <4>3 DEF Final
    <3>2. CASE view'.project = seen.project /\ seen # Void /\ ~touched.filter
      <4>1. PICK v : v = seen["project"]
        OBVIOUS
      <4>2. Final("project", v)
        BY <2>0, <3>2, <4>1 DEF BoardTold, FilterTold
      <4>3. Final("project", v)'
        BY <1>0, <2>0, <4>2
      <4>4. v = view'.project
        BY <3>2, <4>1, SettingsAreRecords
      <4>5. QED
        BY <4>3, <4>4 DEF Final
    <3>3. QED
      BY <1>2, <3>1, <3>2
  <2>3. view'.mine = FALSE \/ Final("mine", view.mine)'
    <3>1. CASE seen = Void \/ touched.filter
      <4>1. PICK v : v = view.mine
        OBVIOUS
      <4>2. v = FALSE \/ Final("mine", v)
        BY <4>1 DEF BoardTold, FilterTold
      <4>3. v = FALSE \/ Final("mine", v)'
        BY <1>0, <2>0, <4>2
      <4>4. QED
        BY <1>2, <3>1, <4>1, <4>3 DEF Final
    <3>2. CASE seen # Void /\ ~touched.filter
      <4>1. PICK v : v = seen["mine"]
        OBVIOUS
      <4>2. Final("mine", v)
        BY <2>0, <3>2, <4>1 DEF BoardTold, FilterTold
      <4>3. Final("mine", v)'
        BY <1>0, <2>0, <4>2
      <4>4. v = view'.mine
        BY <1>2, <3>2, <4>1, SettingsAreRecords
      <4>5. QED
        BY <4>3, <4>4 DEF Final
    <3>3. QED
      BY <3>1, <3>2
  <2>4. QED
    BY <2>1, <2>2, <2>3 DEF FilterTold
<1>6. ThemeTold'
  BY <1>0, <1>2 DEF BoardTold, ThemeTold, Patchable, SettingKeys, Readers, Final
<1>7. QED
  BY <1>3, <1>4, <1>5, <1>6 DEF BoardTold

LEMMA CacheStays ==
    ASSUME UNCHANGED <<row, toMain, cached>>, NEW key \in Patchable, CacheFinal(key),
           ReadsFinal("cache", key)'
    PROVE  CacheFinal(key)'
<1>1. cached # Void => Final(key, cached[key])'
  BY DEF CacheFinal, Final
<1>2. QED
  BY <1>1 DEF CacheFinal

LEMMA HearKeeps ==
    ASSUME PreferencesTypeOK, Hear
    PROVE  /\ PreferencesTypeOK'
           /\ BoardTold => BoardTold'
<1> DEFINE m == Head(toBoard)
           rest == Tail(toBoard)
<1>1. /\ toBoard # << >> /\ m \in BoardReplies /\ rest \in Seq(BoardReplies)
      /\ UNCHANGED <<row, projects, up, launched, window, toMain, known, touched,
                     pressed, hasty>>
  BY HeadAndRest DEF Hear
<1>2. /\ \A i \in 1..Len(rest) : \E j \in 1..Len(toBoard) : rest[i] = toBoard[j]
      /\ \A i \in 1..Len(toBoard) : i = 1 \/ \E j \in 1..Len(rest) : rest[j] = toBoard[i]
      /\ toBoard[1] = m
  BY <1>1, HeadAndRest
<1>3. ASSUME ThemeUnread, toBoard' = rest, UNCHANGED asked,
             ~(m.what = "answer" /\ m.by = "theme")
      PROVE  ThemeUnread'
  <2>1. CASE asked["theme"] # Void
    BY <1>3, <2>1 DEF ThemeUnread
  <2>2. CASE \E i \in DOMAIN toBoard : toBoard[i].what = "answer" /\ toBoard[i].by = "theme"
    <3>1. PICK i \in 1..Len(toBoard) : toBoard[i].what = "answer" /\ toBoard[i].by = "theme"
      BY <2>2 DEF PreferencesTypeOK
    <3>2. PICK j \in 1..Len(rest) : rest[j] = toBoard[i]
      BY <1>2, <1>3, <3>1
    <3>3. j \in DOMAIN toBoard' /\ toBoard'[j] = toBoard[i]
      BY <1>1, <1>3, <3>2
    <3>4. QED
      BY <3>1, <3>3 DEF ThemeUnread
  <2>3. QED
    BY <1>3, <2>1, <2>2 DEF ThemeUnread
<1>4. CASE /\ m.what = "answer" /\ m.by = "cache" /\ cached' = m.seen
           /\ view' = Seeded(m.seen, known) /\ toBoard' = rest /\ UNCHANGED asked
  <2>1. PICK seen \in Settings : seen = m.seen
    BY <1>1, <1>4, ReplyTypes
  <2>2. BoardTypeOK'
    BY <1>4, <2>1, SeededType
  <2>3. PreferencesTypeOK'
    BY <1>1, <1>4, <2>1, <2>2 DEF PreferencesTypeOK, BoardTypeOK
  <2>4. \A by \in Readers : \A key \in Patchable : ReadsFinal(by, key) => ReadsFinal(by, key)'
    BY <1>1, <1>4, RestReads
  <2>5. \A key \in Patchable : CacheFinal(key) => Final(key, seen[key])
    <3>1. SUFFICES ASSUME NEW key \in Patchable, CacheFinal(key) PROVE Final(key, seen[key])
      OBVIOUS
    <3>2. ReadsFinal("cache", key)
      BY <3>1 DEF CacheFinal
    <3>3. PICK v : v = m.seen[key]
      OBVIOUS
    <3>4. Final(key, v)
      BY <1>1, <1>4, <3>2, <3>3, HeardFinal
    <3>5. QED
      BY <2>1, <3>3, <3>4
  <2>6. ThemeUnread => ThemeUnread'
    BY <1>3, <1>4
  <2>7. seen # Void
    OBVIOUS
  <2>8. BoardTold => BoardTold'
    BY <1>1, <1>4, <2>1, <2>4, <2>5, <2>6, <2>7, SeededTold
  <2>9. QED
    BY <2>3, <2>8
<1>5. CASE /\ m.what = "answer" /\ m.by = "theme"
           /\ view' = [view EXCEPT !.appearance = m.seen.appearance]
           /\ toBoard' = rest /\ UNCHANGED <<cached, asked>>
  <2>1. m.seen \in Settings /\ m.seen.appearance \in Appearances
        /\ m.seen["appearance"] = m.seen.appearance
    BY <1>1, <1>5, ReplyTypes DEF Settings
  <2>2. /\ BoardTypeOK' /\ view'.folds = view.folds /\ view'.hidden = view.hidden
        /\ view'.project = view.project /\ view'.mine = view.mine
        /\ view'.appearance = m.seen.appearance
    BY <1>5, <2>1 DEF PreferencesTypeOK, BoardTypeOK
  <2>3. PreferencesTypeOK'
    <3>1. toBoard' \in Seq(BoardReplies) /\ asked' \in [Readers -> {Void} \cup 0..Len(toMain')]
      BY <1>1, <1>5 DEF PreferencesTypeOK
    <3>2. cached' \in Settings \cup {Void} /\ BoardTypeOK'
      BY <1>5, <2>2 DEF PreferencesTypeOK
    <3>3. QED
      BY <1>1, <3>1, <3>2 DEF PreferencesTypeOK, BoardTypeOK
  <2>4. \A by \in Readers : \A key \in Patchable : ReadsFinal(by, key) => ReadsFinal(by, key)'
    BY <1>1, <1>5, RestReads
  <2>5. \A key \in Patchable : \A v : Final(key, v) => Final(key, v)'
    BY <1>1, StillFinal
  <2>6. \A key \in Patchable : CacheFinal(key) => CacheFinal(key)'
    BY <1>1, <1>5, <2>4, CacheStays DEF Readers, CacheFinal
  <2>7. ASSUME BoardTold PROVE BoardTold'
    <3>0. Patchable = {"folds", "project", "mine", "hidden", "appearance", "onTop"}
      BY DEF Patchable, SettingKeys
    <3>1. FoldsTold'
      <4>1. CASE touched.folds
        BY <1>1, <2>2, <2>5, <2>7, <3>0, <4>1 DEF BoardTold, FoldsTold, Final
      <4>2. CASE ~touched.folds
        BY <1>1, <1>5, <2>2, <2>6, <2>7, <3>0, <4>2 DEF BoardTold, FoldsTold
      <4>3. QED
        BY <4>1, <4>2
    <3>2. HiddenTold'
      BY <1>1, <1>5, <2>2, <2>5, <2>6, <2>7
      DEF BoardTold, HiddenTold, Patchable, SettingKeys, Final
    <3>3. FilterTold'
      <4>1. view'.project = Void \/ Final("project", view.project)'
        BY <1>1, <2>2, <2>7 DEF BoardTold, FilterTold, Final
      <4>2. view'.mine = FALSE \/ Final("mine", view.mine)'
        BY <1>1, <2>2, <2>7 DEF BoardTold, FilterTold, Final
      <4>3. ~touched.filter => CacheFinal("project")' /\ CacheFinal("mine")'
        BY <2>6, <2>7, <3>0 DEF BoardTold, FilterTold
      <4>4. QED
        BY <1>1, <4>1, <4>2, <4>3 DEF FilterTold
    <3>4. ThemeTold'
      <4>1. CASE hasty
        BY <1>1, <4>1 DEF ThemeTold
      <4>2. CASE ~hasty
        <5>0. "appearance" \in Patchable /\ "theme" \in Readers
          BY DEF Patchable, SettingKeys, Readers
        <5>1. ReadsFinal("theme", "appearance")
          BY <2>7, <4>2 DEF BoardTold, ThemeTold
        <5>2. PICK v : v = m.seen["appearance"]
          OBVIOUS
        <5>3. Final("appearance", v)
          BY <1>1, <1>5, <5>0, <5>1, <5>2, HeardFinal
        <5>4. Final("appearance", v)'
          BY <2>5, <5>0, <5>3
        <5>5. v = view'.appearance
          BY <2>1, <2>2, <5>2
        <5>6. Final("appearance", view.appearance)'
          BY <5>4, <5>5 DEF Final
        <5>7. QED
          BY <2>4, <5>0, <5>1, <5>6 DEF ThemeTold
      <4>3. QED
        BY <4>1, <4>2
    <3>5. QED
      BY <3>1, <3>2, <3>3, <3>4 DEF BoardTold
  <2>8. QED
    BY <2>3, <2>7
<1>6. CASE m.what = "dropped" /\ toBoard' = rest /\ UNCHANGED <<cached, view, asked>>
  <2>1. PreferencesTypeOK'
    BY <1>1, <1>6 DEF PreferencesTypeOK
  <2>2. \A by \in Readers : \A key \in Patchable : ReadsFinal(by, key) => ReadsFinal(by, key)'
    BY <1>1, <1>6, RestReads
  <2>3. ThemeUnread => ThemeUnread'
    BY <1>3, <1>6
  <2>4. \A key \in Patchable : \A v : Final(key, v) => Final(key, v)'
    BY <1>1, StillFinal
  <2>5. BoardTold => BoardTold'
    BY <1>1, <1>6, <2>2, <2>3, <2>4, BoardStays
  <2>6. QED
    BY <2>1, <2>5
<1>7. CASE m.what = "stored" /\ Refetch(rest) /\ UNCHANGED <<cached, view>>
  <2>1. PreferencesTypeOK'
    <3>1. toBoard' \in Seq(BoardReplies) /\ asked' \in [Readers -> {Void} \cup 0..Len(toMain')]
      BY <1>1, <1>7, RefetchType
    <3>2. QED
      BY <1>1, <1>7, <3>1 DEF PreferencesTypeOK
  <2>2. \A by \in Readers : \A key \in Patchable : ReadsFinal(by, key) => ReadsFinal(by, key)'
    BY <1>1, <1>2, <1>7, RefetchReads
  <2>3. ThemeUnread => ThemeUnread'
    BY <1>1, <1>2, <1>7, RefetchTheme
  <2>4. \A key \in Patchable : \A v : Final(key, v) => Final(key, v)'
    BY <1>1, StillFinal
  <2>5. BoardTold => BoardTold'
    BY <1>1, <1>7, <2>2, <2>3, <2>4, BoardStays
  <2>6. QED
    BY <2>1, <2>5
<1>8. QED
  BY <1>4, <1>5, <1>6, <1>7 DEF Hear

LEMMA ListKeeps ==
    ASSUME PreferencesTypeOK, List
    PROVE  /\ PreferencesTypeOK'
           /\ BoardTold => BoardTold'
<1>0. toBoard \in Seq(BoardReplies)
  BY DEF PreferencesTypeOK
<1>1. /\ UNCHANGED <<row, projects, up, launched, window, toMain, cached, touched,
                     pressed, hasty>>
      /\ known' = projects /\ view' = Seeded(cached, projects)
      /\ UNCHANGED <<asked, toBoard>> \/ Refetch(toBoard)
  BY DEF List
<1>2. PICK seen \in Settings \cup {Void} : seen = cached
  BY DEF PreferencesTypeOK
<1>3. BoardTypeOK'
  BY <1>1, <1>2, SeededType
<1>4. PreferencesTypeOK'
  <2>1. toBoard' \in Seq(BoardReplies) /\ asked' \in [Readers -> {Void} \cup 0..Len(toMain')]
    BY <1>0, <1>1, RefetchType DEF PreferencesTypeOK
  <2>2. QED
    BY <1>1, <1>3, <2>1 DEF PreferencesTypeOK, BoardTypeOK
<1>5. \A by \in Readers : \A key \in Patchable : ReadsFinal(by, key) => ReadsFinal(by, key)'
  BY <1>0, <1>1, RefetchReads, ReadsUnmoved
<1>6. ThemeUnread => ThemeUnread'
  <2>1. CASE UNCHANGED <<asked, toBoard>>
    BY <2>1 DEF ThemeUnread
  <2>2. CASE Refetch(toBoard)
    BY <1>0, <2>2, RefetchTheme
  <2>3. QED
    BY <1>1, <2>1, <2>2
<1>7. seen # Void => \A key \in Patchable : CacheFinal(key) => Final(key, seen[key])
  BY <1>2 DEF CacheFinal
<1>8. BoardTold => BoardTold'
  BY <1>1, <1>2, <1>5, <1>6, <1>7, SeededTold
<1>9. QED
  BY <1>4, <1>8

-----------------------------------------------------------------------------
(* Gestures.                                                               *)

\* A patch under one key leaves what is final under the others.
Wrote(key) ==
    /\ \A k \in Patchable \ {key} : \A v : Final(k, v) => Final(k, v)'
    /\ \A by \in Readers : \A k \in Patchable \ {key} :
          ReadsFinal(by, k) => ReadsFinal(by, k)'
    /\ UNCHANGED <<asked, toBoard, cached>>

\* A patch that is well typed, over all others on their way.
LEMMA WriteKeeps ==
    ASSUME PreferencesTypeOK, NEW key \in Patchable, NEW t \in Settings, NEW told \in BOOLEAN,
           Write(key, t[key], told)
    PROVE  /\ toMain' \in Seq(SettingPatches)
           /\ asked' \in [Readers -> {Void} \cup 0..Len(toMain')]
           /\ Final(key, t[key])'
           /\ Wrote(key)
           /\ UNCHANGED <<row, projects, up, launched, window, asked, toBoard, cached, known>>
<1> DEFINE p == [key |-> key, value |-> t[key], told |-> told]
<1>1. /\ p \in SettingPatches /\ toMain' = Append(toMain, p) /\ p.key = key /\ p.value = t[key]
      /\ UNCHANGED <<row, projects, up, launched, window, asked, toBoard, cached, known>>
      /\ toMain \in Seq(SettingPatches)
  BY PatchWith DEF Write, PreferencesTypeOK
<1> HIDE DEF p
<1>2. /\ toMain' \in Seq(SettingPatches) /\ Len(toMain') = Len(toMain) + 1 /\ Len(toMain) \in Nat
      /\ \A i \in 1..Len(toMain) : toMain'[i] = toMain[i]
      /\ toMain'[Len(toMain) + 1] = p
  BY <1>1
<1>3. asked' \in [Readers -> {Void} \cup 0..Len(toMain')]
  BY <1>1, <1>2 DEF PreferencesTypeOK
<1>4. Final(p.key, p.value)'
  BY <1>1, FinalAppended
<1>5. \A k \in Patchable \ {key} : \A v : Final(k, v) => Final(k, v)'
  BY <1>1, FinalAppended
<1>6. ASSUME NEW by \in Readers, NEW k \in Patchable \ {key}, ReadsFinal(by, k)
      PROVE  ReadsFinal(by, k)'
  <2>1. asked'[by] # Void => \A j \in (asked'[by] + 1)..Len(toMain') : toMain'[j].key # k
    <3>1. SUFFICES ASSUME asked[by] # Void, NEW j \in (asked[by] + 1)..Len(toMain')
                   PROVE  toMain'[j].key # k
      BY <1>1
    <3>2. asked[by] \in 0..Len(toMain)
      BY <3>1 DEF PreferencesTypeOK
    <3>3. CASE j = Len(toMain) + 1
      BY <1>1, <1>2, <3>3
    <3>4. CASE j # Len(toMain) + 1
      BY <1>2, <1>6, <3>1, <3>2, <3>4 DEF ReadsFinal
    <3>5. QED
      BY <3>3, <3>4
  <2>2. ASSUME NEW i \in 1..Len(toBoard'), toBoard'[i].what = "answer", toBoard'[i].by = by
        PROVE  Final(k, toBoard[i].seen[k])'
    <3>1. PICK v : v = toBoard[i].seen[k]
      OBVIOUS
    <3>2. Final(k, v)
      BY <1>1, <1>6, <2>2, <3>1 DEF ReadsFinal
    <3>3. Final(k, v)'
      BY <1>5, <3>2
    <3>4. v = toBoard'[i].seen[k]
      BY <1>1, <3>1
    <3>5. QED
      BY <3>3, <3>4 DEF Final
  <2>3. QED
    BY <2>1, <2>2 DEF ReadsFinal
<1>7. Final(key, t[key])'
  BY <1>1, <1>4, Zenon
<1>8. Wrote(key)
  BY <1>1, <1>5, <1>6 DEF Wrote
<1>9. QED
  BY <1>1, <1>2, <1>3, <1>7, <1>8

\* What a patch says under one key leaves what the board was told under others.
LEMMA OthersTold ==
    ASSUME NEW key \in Patchable, Wrote(key)
    PROVE  \A k \in Patchable \ {key} : CacheFinal(k) => CacheFinal(k)'
<1>1. SUFFICES ASSUME NEW k \in Patchable \ {key}, CacheFinal(k) PROVE CacheFinal(k)'
  OBVIOUS
<1>2. ReadsFinal("cache", k)'
  BY <1>1 DEF CacheFinal, Readers, Wrote
<1>3. ASSUME cached' # Void PROVE Final(k, cached[k])'
  <2>1. PICK v : v = cached[k]
    OBVIOUS
  <2>2. Final(k, v)'
    BY <1>1, <1>3, <2>1 DEF CacheFinal, Wrote
  <2>3. v = cached'[k]
    BY <2>1 DEF Wrote
  <2>4. QED
    BY <2>2, <2>3 DEF Final
<1>4. QED
  BY <1>2, <1>3 DEF CacheFinal

LEMMA SettingOf ==
    /\ \A folds \in SUBSET Regions : \E t \in Settings : t["folds"] = folds
    /\ \A p \in Chips \cup {Void} : \E t \in Settings : t["project"] = p
    /\ \A own \in BOOLEAN : \E t \in Settings : t["mine"] = own
    /\ \A kept \in SUBSET Hideable : \E t \in Settings : t["hidden"] = kept
    /\ \A a \in Appearances : \E t \in Settings : t["appearance"] = a
    /\ \A top \in BOOLEAN : \E t \in Settings : t["onTop"] = top
<1>1. Default \in Settings
  BY DEF Default, Settings, Appearances
<1>2. ASSUME NEW folds \in SUBSET Regions PROVE \E t \in Settings : t["folds"] = folds
  BY <1>1, [Default EXCEPT !.folds = folds] \in Settings DEF Settings
<1>3. ASSUME NEW p \in Chips \cup {Void} PROVE \E t \in Settings : t["project"] = p
  BY <1>1, [Default EXCEPT !.project = p] \in Settings DEF Settings
<1>4. ASSUME NEW own \in BOOLEAN PROVE \E t \in Settings : t["mine"] = own
  BY <1>1, [Default EXCEPT !.mine = own] \in Settings DEF Settings
<1>5. ASSUME NEW kept \in SUBSET Hideable PROVE \E t \in Settings : t["hidden"] = kept
  BY <1>1, [Default EXCEPT !.hidden = kept] \in Settings DEF Settings
<1>6. ASSUME NEW a \in Appearances PROVE \E t \in Settings : t["appearance"] = a
  BY <1>1, [Default EXCEPT !.appearance = a] \in Settings DEF Settings
<1>7. ASSUME NEW top \in BOOLEAN PROVE \E t \in Settings : t["onTop"] = top
  BY <1>1, [Default EXCEPT !.onTop = top] \in Settings DEF Settings
<1>8. QED
  BY <1>2, <1>3, <1>4, <1>5, <1>6, <1>7

LEMMA FoldsStay ==
    ASSUME FoldsTold, view'.folds = view.folds, touched'.folds = touched.folds,
           UNCHANGED cached, \A v : Final("folds", v) => Final("folds", v)',
           CacheFinal("folds") => CacheFinal("folds")'
    PROVE  FoldsTold'
<1>1. CASE touched.folds
  <2>1. PICK v : v = view.folds
    OBVIOUS
  <2>2. Final("folds", v)'
    BY <1>1, <2>1 DEF FoldsTold
  <2>3. QED
    BY <1>1, <2>1, <2>2 DEF FoldsTold, Final
<1>2. CASE ~touched.folds
  BY <1>2 DEF FoldsTold
<1>3. QED
  BY <1>1, <1>2

LEMMA HiddenStays ==
    ASSUME HiddenTold, view'.hidden = view.hidden, \A v : Final("hidden", v) => Final("hidden", v)',
           CacheFinal("hidden") => CacheFinal("hidden")'
    PROVE  HiddenTold'
<1>1. CASE view.hidden # Void
  <2>1. PICK v : v = view.hidden
    OBVIOUS
  <2>2. Final("hidden", v)'
    BY <1>1, <2>1 DEF HiddenTold
  <2>3. QED
    BY <1>1, <2>1, <2>2 DEF HiddenTold, Final
<1>2. CASE view.hidden = Void
  BY <1>2 DEF HiddenTold
<1>3. QED
  BY <1>1, <1>2

ProjectTold == view.project = Void \/ Final("project", view.project)
MineTold == view.mine = FALSE \/ Final("mine", view.mine)
UntouchedTold == ~touched.filter => CacheFinal("project") /\ CacheFinal("mine")

LEMMA ProjectStays ==
    ASSUME ProjectTold, view'.project = view.project,
           \A v : Final("project", v) => Final("project", v)'
    PROVE  ProjectTold'
<1>1. PICK v : v = view.project
  OBVIOUS
<1>2. v = Void \/ Final("project", v)'
  BY <1>1 DEF ProjectTold
<1>3. QED
  BY <1>1, <1>2 DEF ProjectTold, Final

LEMMA MineStays ==
    ASSUME MineTold, view'.mine = view.mine, \A v : Final("mine", v) => Final("mine", v)'
    PROVE  MineTold'
<1>1. PICK v : v = view.mine
  OBVIOUS
<1>2. v = FALSE \/ Final("mine", v)'
  BY <1>1 DEF MineTold
<1>3. QED
  BY <1>1, <1>2 DEF MineTold, Final

LEMMA ThemeStays ==
    ASSUME ThemeTold, view'.appearance = view.appearance, hasty => hasty',
           UNCHANGED <<asked, toBoard>>,
           ReadsFinal("theme", "appearance") => ReadsFinal("theme", "appearance")',
           \A v : Final("appearance", v) => Final("appearance", v)'
    PROVE  ThemeTold'
<1>1. PICK v : v = view.appearance
  OBVIOUS
<1>2. ThemeUnread => ThemeUnread'
  BY DEF ThemeUnread
<1>3. hasty \/ (ReadsFinal("theme", "appearance") /\ (ThemeUnread \/ Final("appearance", v)))
  <2>1. ThemeUnread \/ hasty \/ Final("appearance", view.appearance)
    BY DEF ThemeTold
  <2>2. ThemeUnread \/ hasty \/ Final("appearance", v)
    BY <1>1, <2>1
  <2>3. hasty \/ ReadsFinal("theme", "appearance")
    BY DEF ThemeTold
  <2>4. QED
    BY <2>2, <2>3
<1>4. Final("appearance", v)' => Final("appearance", view.appearance)'
  BY <1>1 DEF Final
<1>5. hasty \/ (ReadsFinal("theme", "appearance")' /\ (ThemeUnread' \/ Final("appearance", view.appearance)'))
  BY <1>2, <1>3, <1>4
<1>6. QED
  BY <1>5 DEF ThemeTold

LEMMA FilterParts == FilterTold <=> ProjectTold /\ MineTold /\ UntouchedTold
  BY DEF FilterTold, ProjectTold, MineTold, UntouchedTold

LEMMA PressingType ==
    ASSUME PreferencesTypeOK, Pressing
    PROVE  pressed' \in 0..MaxPressed
  BY DEF PreferencesTypeOK, Pressing

LEMMA GestureType ==
    ASSUME PreferencesTypeOK, Pressing, BoardTypeOK', hasty' \in BOOLEAN,
           touched' \in [folds : BOOLEAN, filter : BOOLEAN],
           toMain' \in Seq(SettingPatches), asked' \in [Readers -> {Void} \cup 0..Len(toMain')],
           UNCHANGED <<row, projects, up, launched, window, toBoard, cached, known>>
    PROVE  PreferencesTypeOK'
<1>1. pressed' \in 0..MaxPressed
  BY PressingType
<1>2. QED
  BY <1>1 DEF PreferencesTypeOK, BoardTypeOK

LEMMA PatchableKeys == Patchable = {"folds", "project", "mine", "hidden", "appearance", "onTop"}
  BY DEF Patchable, SettingKeys

\* The parts that a patch under one key does not disturb.
LEMMA RestTold ==
    ASSUME NEW key \in Patchable, BoardTold, Wrote(key)
    PROVE  /\ key # "folds" /\ view'.folds = view.folds /\ touched'.folds = touched.folds
                => FoldsTold'
           /\ key # "hidden" /\ view'.hidden = view.hidden => HiddenTold'
           /\ key # "project" /\ view'.project = view.project => ProjectTold'
           /\ key # "mine" /\ view'.mine = view.mine => MineTold'
           /\ key \notin {"project", "mine"} /\ touched'.filter = touched.filter => UntouchedTold'
           /\ key # "appearance" /\ view'.appearance = view.appearance /\ UNCHANGED hasty
                => ThemeTold'
<1>0. /\ FoldsTold /\ HiddenTold /\ ProjectTold /\ MineTold /\ UntouchedTold /\ ThemeTold
      /\ "theme" \in Readers /\ UNCHANGED <<asked, toBoard, cached>>
      /\ \A k \in Patchable \ {key} : \A v : Final(k, v) => Final(k, v)'
      /\ \A by \in Readers : \A k \in Patchable \ {key} : ReadsFinal(by, k) => ReadsFinal(by, k)'
  BY FilterParts DEF BoardTold, Readers, Wrote
<1>1. \A k \in Patchable \ {key} : CacheFinal(k) => CacheFinal(k)'
  BY OthersTold
<1>2. key # "folds" /\ view'.folds = view.folds /\ touched'.folds = touched.folds => FoldsTold'
  BY <1>0, <1>1, FoldsStay, PatchableKeys
<1>3. key # "hidden" /\ view'.hidden = view.hidden => HiddenTold'
  BY <1>0, <1>1, HiddenStays, PatchableKeys
<1>4. key # "project" /\ view'.project = view.project => ProjectTold'
  BY <1>0, ProjectStays, PatchableKeys
<1>5. key # "mine" /\ view'.mine = view.mine => MineTold'
  BY <1>0, MineStays, PatchableKeys
<1>6. key \notin {"project", "mine"} /\ touched'.filter = touched.filter => UntouchedTold'
  BY <1>0, <1>1, PatchableKeys DEF UntouchedTold
<1>7. key # "appearance" /\ view'.appearance = view.appearance /\ UNCHANGED hasty => ThemeTold'
  BY <1>0, ThemeStays, PatchableKeys
<1>8. QED
  BY <1>2, <1>3, <1>4, <1>5, <1>6, <1>7

LEMMA FoldKeeps ==
    ASSUME PreferencesTypeOK, NEW r \in Regions, Fold(r)
    PROVE  PreferencesTypeOK' /\ (BoardTold => BoardTold')
<1>1. /\ view'.folds \in SUBSET Regions /\ BoardTypeOK' /\ view'.hidden = view.hidden
      /\ view'.project = view.project /\ view'.mine = view.mine
      /\ view'.appearance = view.appearance /\ UNCHANGED hasty
      /\ touched' \in [folds : BOOLEAN, filter : BOOLEAN]
      /\ touched'.folds /\ touched'.filter = touched.filter
  <2>1. Other(r, view.folds) \in SUBSET Regions
    BY DEF Other, PreferencesTypeOK
  <2>2. view' = [view EXCEPT !.folds = Other(r, view.folds)]
    BY DEF Fold
  <2>3. touched' = [touched EXCEPT !.folds = TRUE] /\ UNCHANGED hasty
    BY DEF Fold
  <2>4. QED
    BY <2>1, <2>2, <2>3 DEF PreferencesTypeOK, BoardTypeOK
<1>2. PICK t \in Settings : t["folds"] = view'.folds
  BY <1>1, SettingOf
<1>3. Write("folds", t["folds"], TRUE) /\ "folds" \in Patchable
  BY <1>2, PatchableKeys DEF Fold
<1>4. PreferencesTypeOK'
  <2>1. Pressing /\ hasty' \in BOOLEAN
    BY <1>1 DEF Fold, PreferencesTypeOK
  <2>2. QED
    BY <1>1, <1>3, <2>1, WriteKeeps, GestureType
<1>5. ASSUME BoardTold PROVE BoardTold'
  <2>1. /\ HiddenTold' /\ ProjectTold' /\ MineTold' /\ UntouchedTold' /\ ThemeTold'
    <3>1. Wrote("folds")
      BY <1>3, WriteKeeps
    <3>2. QED
      BY <1>1, <1>3, <1>5, <3>1, RestTold
  <2>2. FoldsTold'
    <3>1. Final("folds", t["folds"])'
      BY <1>3, WriteKeeps
    <3>2. Final("folds", view.folds)'
      BY <1>1, <1>2, <3>1 DEF Final
    <3>3. QED
      BY <1>1, <3>2 DEF FoldsTold
  <2>3. QED
    BY <2>1, <2>2, FilterParts DEF BoardTold, FilterTold, ProjectTold, MineTold, UntouchedTold
<1>6. QED
  BY <1>4, <1>5

LEMMA SelectKeeps ==
    ASSUME PreferencesTypeOK, NEW p \in Chips, Select(p)
    PROVE  PreferencesTypeOK' /\ (BoardTold => BoardTold')
<1>1. /\ view'.project \in Chips \cup {Void} /\ BoardTypeOK' /\ view'.hidden = view.hidden
      /\ view'.folds = view.folds /\ view'.mine = view.mine
      /\ view'.appearance = view.appearance /\ UNCHANGED hasty
      /\ touched' \in [folds : BOOLEAN, filter : BOOLEAN]
      /\ touched'.filter /\ touched'.folds = touched.folds
  BY DEF Select, PreferencesTypeOK, BoardTypeOK
<1>2. PICK t \in Settings : t["project"] = view'.project
  BY <1>1, SettingOf
<1>3. Write("project", t["project"], TRUE) /\ "project" \in Patchable
  BY <1>2, PatchableKeys DEF Select
<1>4. PreferencesTypeOK'
  <2>1. Pressing /\ hasty' \in BOOLEAN
    BY <1>1 DEF Select, PreferencesTypeOK
  <2>2. QED
    BY <1>1, <1>3, <2>1, WriteKeeps, GestureType
<1>5. ASSUME BoardTold PROVE BoardTold'
  <2>1. /\ FoldsTold' /\ HiddenTold' /\ MineTold' /\ ThemeTold'
    <3>1. Wrote("project")
      BY <1>3, WriteKeeps
    <3>2. /\ view'.folds = view.folds /\ touched'.folds = touched.folds => FoldsTold'
          /\ view'.hidden = view.hidden => HiddenTold'
          /\ view'.mine = view.mine => MineTold'
          /\ view'.appearance = view.appearance /\ UNCHANGED hasty => ThemeTold'
      BY <1>3, <1>5, <3>1, RestTold
    <3>3. QED
      BY <1>1, <3>2
  <2>2. ProjectTold'
    <3>1. Final("project", t["project"])'
      BY <1>3, WriteKeeps
    <3>2. Final("project", view.project)'
      BY <1>1, <1>2, <3>1 DEF Final
    <3>3. QED
      BY <1>1, <3>2 DEF ProjectTold
  <2>3. UntouchedTold'
    BY <1>1 DEF UntouchedTold
  <2>4. QED
    BY <2>1, <2>2, <2>3 DEF BoardTold, FilterTold, ProjectTold, MineTold, UntouchedTold
<1>6. QED
  BY <1>4, <1>5

LEMMA ToggleMineKeeps ==
    ASSUME PreferencesTypeOK, ToggleMine
    PROVE  PreferencesTypeOK' /\ (BoardTold => BoardTold')
<1>1. /\ view'.mine \in BOOLEAN /\ BoardTypeOK' /\ view'.hidden = view.hidden
      /\ view'.folds = view.folds /\ view'.project = view.project
      /\ view'.appearance = view.appearance /\ UNCHANGED hasty
      /\ touched' \in [folds : BOOLEAN, filter : BOOLEAN]
      /\ touched'.filter /\ touched'.folds = touched.folds
  BY DEF ToggleMine, PreferencesTypeOK, BoardTypeOK
<1>2. PICK t \in Settings : t["mine"] = view'.mine
  BY <1>1, SettingOf
<1>3. Write("mine", t["mine"], TRUE) /\ "mine" \in Patchable
  BY <1>2, PatchableKeys DEF ToggleMine
<1>4. PreferencesTypeOK'
  <2>1. Pressing /\ hasty' \in BOOLEAN
    BY <1>1 DEF ToggleMine, PreferencesTypeOK
  <2>2. QED
    BY <1>1, <1>3, <2>1, WriteKeeps, GestureType
<1>5. ASSUME BoardTold PROVE BoardTold'
  <2>1. /\ FoldsTold' /\ HiddenTold' /\ ProjectTold' /\ ThemeTold'
    <3>1. Wrote("mine")
      BY <1>3, WriteKeeps
    <3>2. QED
      BY <1>1, <1>3, <1>5, <3>1, RestTold
  <2>2. MineTold'
    <3>1. Final("mine", t["mine"])'
      BY <1>3, WriteKeeps
    <3>2. Final("mine", view.mine)'
      BY <1>1, <1>2, <3>1 DEF Final
    <3>3. QED
      BY <1>1, <3>2 DEF MineTold
  <2>3. UntouchedTold'
    BY <1>1 DEF UntouchedTold
  <2>4. QED
    BY <2>1, <2>2, <2>3 DEF BoardTold, FilterTold, ProjectTold, MineTold, UntouchedTold
<1>6. QED
  BY <1>4, <1>5

LEMMA HideKeeps ==
    ASSUME PreferencesTypeOK, NEW statuses \in SUBSET Hideable, Hide(statuses)
    PROVE  PreferencesTypeOK' /\ (BoardTold => BoardTold')
<1>1. /\ view'.hidden = statuses /\ BoardTypeOK' /\ view'.project = view.project
      /\ view'.folds = view.folds /\ view'.mine = view.mine
      /\ view'.appearance = view.appearance /\ UNCHANGED <<touched, hasty>>
      /\ statuses # Void
  BY DEF Hide, PreferencesTypeOK, BoardTypeOK
<1>2. PICK t \in Settings : t["hidden"] = statuses
  BY SettingOf
<1>3. Write("hidden", t["hidden"], TRUE) /\ "hidden" \in Patchable
  BY <1>2, PatchableKeys DEF Hide
<1>4. PreferencesTypeOK'
  <2>1. /\ Pressing /\ hasty' \in BOOLEAN
        /\ touched' \in [folds : BOOLEAN, filter : BOOLEAN]
    BY <1>1 DEF Hide, PreferencesTypeOK
  <2>2. QED
    BY <1>1, <1>3, <2>1, WriteKeeps, GestureType
<1>5. ASSUME BoardTold PROVE BoardTold'
  <2>1. /\ FoldsTold' /\ ProjectTold' /\ MineTold' /\ UntouchedTold' /\ ThemeTold'
    <3>1. Wrote("hidden")
      BY <1>3, WriteKeeps
    <3>2. QED
      BY <1>1, <1>3, <1>5, <3>1, RestTold
  <2>2. HiddenTold'
    <3>1. Final("hidden", t["hidden"])'
      BY <1>3, WriteKeeps
    <3>2. Final("hidden", view.hidden)'
      BY <1>1, <1>2, <3>1 DEF Final
    <3>3. QED
      BY <1>1, <3>2 DEF HiddenTold
  <2>3. QED
    BY <2>1, <2>2 DEF BoardTold, FilterTold, ProjectTold, MineTold, UntouchedTold
<1>6. QED
  BY <1>4, <1>5

LEMMA HideOrShowKeeps ==
    ASSUME PreferencesTypeOK, HideOrShow
    PROVE  PreferencesTypeOK' /\ (BoardTold => BoardTold')
<1>1. Hidden \in SUBSET Hideable
  BY DEF Hidden, PreferencesTypeOK, Settings
<1>2. PICK statuses \in SUBSET Hideable : Hide(statuses)
  BY <1>1 DEF HideOrShow, Other
<1>3. QED
  BY <1>2, HideKeeps

LEMMA ToggleOnTopKeeps ==
    ASSUME PreferencesTypeOK, ToggleOnTop
    PROVE  PreferencesTypeOK' /\ (BoardTold => BoardTold')
<1>1. cached \in Settings /\ (~cached.onTop) \in BOOLEAN
  BY DEF ToggleOnTop, PreferencesTypeOK, Settings
<1>2. PICK t \in Settings : t["onTop"] = ~cached.onTop
  BY <1>1, SettingOf
<1>3. Write("onTop", t["onTop"], TRUE) /\ "onTop" \in Patchable /\ UNCHANGED <<view, touched, hasty>>
  BY <1>2, PatchableKeys DEF ToggleOnTop
<1>4. PreferencesTypeOK'
  <2>1. /\ Pressing /\ hasty' \in BOOLEAN /\ BoardTypeOK'
        /\ touched' \in [folds : BOOLEAN, filter : BOOLEAN]
    BY <1>3 DEF ToggleOnTop, PreferencesTypeOK, BoardTypeOK
  <2>2. QED
    BY <1>3, <2>1, WriteKeeps, GestureType
<1>5. ASSUME BoardTold PROVE BoardTold'
  <2>1. /\ FoldsTold' /\ HiddenTold' /\ ProjectTold' /\ MineTold' /\ UntouchedTold' /\ ThemeTold'
    <3>1. Wrote("onTop")
      BY <1>3, WriteKeeps
    <3>2. QED
      BY <1>3, <1>5, <3>1, RestTold
  <2>2. QED
    BY <2>1 DEF BoardTold, FilterTold, ProjectTold, MineTold, UntouchedTold
<1>6. QED
  BY <1>4, <1>5

LEMMA SetAppearanceKeeps ==
    ASSUME PreferencesTypeOK, NEW a \in Appearances, SetAppearance(a)
    PROVE  PreferencesTypeOK' /\ (BoardTold => BoardTold')
<1>1. /\ view'.appearance = a /\ BoardTypeOK' /\ view'.project = view.project
      /\ view'.folds = view.folds /\ view'.mine = view.mine
      /\ view'.hidden = view.hidden /\ UNCHANGED touched
      /\ hasty' = (hasty \/ ThemeUnread)
  BY DEF SetAppearance, PreferencesTypeOK, BoardTypeOK
<1>2. PICK t \in Settings : t["appearance"] = a
  BY SettingOf
<1>3. Write("appearance", t["appearance"], FALSE) /\ "appearance" \in Patchable
  BY <1>2, PatchableKeys DEF SetAppearance
<1>4. hasty' \in BOOLEAN
  BY <1>1 DEF PreferencesTypeOK, ThemeUnread
<1>5. PreferencesTypeOK'
  <2>1. Pressing /\ touched' \in [folds : BOOLEAN, filter : BOOLEAN]
    BY <1>1 DEF SetAppearance, PreferencesTypeOK
  <2>2. QED
    BY <1>1, <1>3, <1>4, <2>1, WriteKeeps, GestureType
<1>6. ASSUME BoardTold PROVE BoardTold'
  <2>1. /\ FoldsTold' /\ HiddenTold' /\ ProjectTold' /\ MineTold' /\ UntouchedTold'
    <3>1. Wrote("appearance")
      BY <1>3, WriteKeeps
    <3>2. QED
      BY <1>1, <1>3, <1>6, <3>1, RestTold
  <2>2. Final("appearance", view.appearance)'
    <3>1. Final("appearance", t["appearance"])'
      BY <1>3, WriteKeeps
    <3>2. QED
      BY <1>1, <1>2, <3>1 DEF Final
  <2>3. ~ThemeUnread => ReadsFinal("theme", "appearance")'
    <3>1. UNCHANGED <<asked, toBoard>>
      BY <1>3, WriteKeeps
    <3>2. SUFFICES ASSUME ~ThemeUnread PROVE ReadsFinal("theme", "appearance")'
      OBVIOUS
    <3>3. /\ asked'["theme"] = Void
          /\ \A i \in 1..Len(toBoard') : ~(toBoard'[i].what = "answer" /\ toBoard'[i].by = "theme")
      BY <3>1, <3>2 DEF ThemeUnread, PreferencesTypeOK
    <3>4. QED
      BY <3>3 DEF ReadsFinal
  <2>4. ThemeTold'
    BY <1>1, <2>2, <2>3 DEF ThemeTold
  <2>5. QED
    BY <2>1, <2>4 DEF BoardTold, FilterTold, ProjectTold, MineTold, UntouchedTold
<1>7. QED
  BY <1>5, <1>6

-----------------------------------------------------------------------------
(* Every step.                                                             *)

LEMMA OpenedTold ==
    ASSUME PreferencesTypeOK, Launch \/ Activate
    PROVE  BoardTold' /\ WindowTold'
<1>1. Mounts /\ Forgotten /\ UNCHANGED <<row, toMain>>
  BY DEF Launch, Activate, Mounts
<1>2. /\ asked'["cache"] = Len(toMain) /\ asked'["theme"] = Len(toMain) /\ Len(toMain) \in Nat
      /\ toBoard' = << >> /\ Len(toBoard') = 0
  BY <1>1, MountsType DEF Readers, Forgotten, PreferencesTypeOK
<1>3. \A key : ReadsFinal("cache", key)' /\ ReadsFinal("theme", key)'
  BY <1>1, <1>2 DEF ReadsFinal
<1>4. cached' = Void /\ view'.hidden = Void /\ view'.project = Void /\ view'.mine = FALSE
      /\ ~touched'.folds
  BY <1>1 DEF Forgotten, Blank
<1>5. \A key : CacheFinal(key)'
  BY <1>3, <1>4 DEF CacheFinal
<1>6. ThemeUnread'
  BY <1>2 DEF ThemeUnread
<1>7. BoardTold'
  BY <1>3, <1>4, <1>5, <1>6 DEF BoardTold, FoldsTold, HiddenTold, FilterTold, ThemeTold
<1>8. CASE Launch
  <2>1. launched' = [geometry |-> Parsed(row).geometry, onTop |-> Parsed(row).onTop]
    BY <1>8 DEF Launch
  <2>2. PICK saved : saved = launched'
    OBVIOUS
  <2>3. saved \in [geometry : Places \cup {Void}, onTop : BOOLEAN]
    BY <2>1, <2>2, ParsedIsSettings DEF PreferencesTypeOK, Settings
  <2>4. Opened(saved, FALSE)
    BY <1>8, <2>2 DEF Launch, Opened
  <2>5. window'.onTop = saved.onTop /\ ~window'.moved
    BY <2>3, <2>4, OpenedType
  <2>6. Parsed(row') = Parsed(row)
    BY <1>1
  <2>7. WindowTold'
    BY <2>1, <2>2, <2>5, <2>6 DEF WindowTold
  <2>8. QED
    BY <1>7, <2>7
<1>9. CASE Activate
  <2>1. PICK saved \in [geometry : Places \cup {Void}, onTop : BOOLEAN] : saved = launched
    BY DEF PreferencesTypeOK
  <2>2. Opened(saved, TRUE)
    BY <1>9, <2>1 DEF Activate, Opened
  <2>3. window'.again = TRUE /\ ~window'.moved
    BY <2>2, OpenedType
  <2>4. QED
    BY <1>7, <2>3 DEF WindowTold
<1>10. QED
  BY <1>8, <1>9

LEMMA WindowMoves ==
    ASSUME PreferencesTypeOK, BoardTold, WindowTold,
           Move \/ Maximise \/ Settle \/ \E p \in Chips : ChangeProjects(p)
    PROVE  BoardTold' /\ WindowTold'
<1>1. UNCHANGED <<view, touched, cached, hasty>> /\ UNCHANGED <<toMain, asked, toBoard>>
  BY DEF Move, Maximise, Reshape, Settle, ChangeProjects
<1>2. CASE Settle
  <2>1. row' = Captured /\ window' = [window EXCEPT !.timer = FALSE]
    BY <1>2 DEF Settle
  <2>2. /\ \A key \in Patchable : Parsed(row)[key] = Parsed(row')[key]
        /\ ~window.large => Parsed(row')["geometry"] = window.place
        /\ row' \in Settings \cup {Missing, Unreadable}
    BY <2>1, CapturedKeeps
  <2>3. BoardTold'
    BY <1>1, <2>2, BoardUnmoved
  <2>4. Parsed(row') \in Settings /\ Parsed(row) \in Settings
    BY <2>2, ParsedIsSettings DEF PreferencesTypeOK, Parsed, Settings, Default, Appearances
  <2>5. /\ Parsed(row').onTop = Parsed(row).onTop
        /\ Parsed(row').geometry = Parsed(row')["geometry"]
    BY <2>2, <2>4, SettingsAreRecords, PatchableKeys
  <2>6. /\ window'.again = window.again /\ window'.onTop = window.onTop
        /\ window'.large = window.large /\ window'.place = window.place
    BY <2>1 DEF PreferencesTypeOK
  <2>7. QED
    BY <2>2, <2>3, <2>5, <2>6 DEF WindowTold
<1>3. CASE ~Settle
  <2>1. UNCHANGED row
    BY <1>3 DEF Move, Maximise, Reshape, Settle, ChangeProjects
  <2>2. BoardTold'
    BY <1>1, <2>1, BoardUnmoved
  <2>3. WindowTold'
    <3>1. CASE UNCHANGED window
      BY <2>1, <3>1 DEF WindowTold
    <3>2. CASE \E place, large : Reshape(place, large)
      BY <2>1, <3>2 DEF WindowTold, Reshape, PreferencesTypeOK
    <3>3. QED
      BY <1>3, <3>1, <3>2 DEF Move, Maximise, ChangeProjects
  <2>4. QED
    BY <2>2, <2>3
<1>4. QED
  BY <1>2, <1>3

LEMMA AnswerTold ==
    ASSUME PreferencesTypeOK, BoardTold, NEW by \in Readers, Answer(by)
    PROVE  BoardTold'
<1>1. /\ asked[by] = 0 /\ asked' = [asked EXCEPT ![by] = Void]
      /\ toBoard' = Append(toBoard, [what |-> "answer", by |-> by, seen |-> Parsed(row)])
      /\ UNCHANGED <<row, toMain>> /\ UNCHANGED <<view, touched, cached, hasty>>
      /\ toBoard \in Seq(BoardReplies) /\ 0 # Void
      /\ asked \in [Readers -> {Void} \cup 0..Len(toMain)]
  BY DEF Answer, PreferencesTypeOK
<1>2. /\ Len(toBoard') = Len(toBoard) + 1 /\ Len(toBoard) \in Nat
      /\ \A i \in 1..Len(toBoard) : toBoard'[i] = toBoard[i]
      /\ toBoard'[Len(toBoard) + 1] = [what |-> "answer", by |-> by, seen |-> Parsed(row)]
      /\ DOMAIN toBoard' = 1..Len(toBoard')
  BY <1>1
<1>3. ASSUME NEW who \in Readers, NEW key \in Patchable, ReadsFinal(who, key)
      PROVE  ReadsFinal(who, key)'
  <2>1. asked'[who] # Void => \A j \in (asked'[who] + 1)..Len(toMain') : toMain'[j].key # key
    BY <1>1, <1>3 DEF ReadsFinal
  <2>2. ASSUME NEW i \in 1..Len(toBoard'), toBoard'[i].what = "answer", toBoard'[i].by = who
        PROVE  Final(key, toBoard[i].seen[key])'
    <3>0. PICK v : v = toBoard'[i].seen[key]
      OBVIOUS
    <3>1. CASE i = Len(toBoard) + 1
      <4>1. v = Parsed(row)[key] /\ who = by
        BY <1>2, <2>2, <3>0, <3>1
      <4>2. \A j \in 1..Len(toMain') : toMain'[j].key # key
        BY <1>1, <1>3, <4>1 DEF ReadsFinal
      <4>3. v = Parsed(row')[key]
        BY <1>1, <4>1
      <4>4. QED
        BY <3>0, <4>2, <4>3 DEF Final
    <3>2. CASE i # Len(toBoard) + 1
      <4>1. i \in 1..Len(toBoard) /\ toBoard'[i] = toBoard[i]
        BY <1>2, <3>2
      <4>2. Final(key, toBoard[i].seen[key]) /\ v = toBoard[i].seen[key]
        BY <1>3, <2>2, <3>0, <4>1 DEF ReadsFinal
      <4>3. Final(key, v)
        BY <4>2
      <4>4. Final(key, v)'
        BY <1>1, <4>3, StillFinal
      <4>5. QED
        BY <3>0, <4>4 DEF Final
    <3>3. QED
      BY <3>1, <3>2
  <2>3. QED
    BY <2>1, <2>2 DEF ReadsFinal
<1>4. ThemeUnread => ThemeUnread'
  <2>1. CASE by = "theme"
    BY <1>2, <2>1 DEF ThemeUnread
  <2>2. CASE by # "theme"
    BY <1>1, <1>2, <2>2 DEF ThemeUnread, Readers
  <2>3. QED
    BY <2>1, <2>2
<1>5. \A key \in Patchable : \A v : Final(key, v) => Final(key, v)'
  BY <1>1, StillFinal
<1>6. QED
  BY <1>1, <1>3, <1>4, <1>5, BoardStays

LEMMA StoreTold ==
    ASSUME PreferencesTypeOK, BoardTold, WindowTold, Store, window.open
    PROVE  BoardTold' /\ WindowTold'
<1>1. \A key \in Patchable : \A v : Final(key, v) => Final(key, v)'
  BY FinalStored DEF Patchable
<1>2. \A by \in Readers : \A key \in Patchable : ReadsFinal(by, key) => ReadsFinal(by, key)'
  BY ReadsStored
<1>3. ThemeUnread => ThemeUnread'
  <2>1. /\ toBoard \in Seq(BoardReplies) /\ "theme" \in Readers
        /\ \/ toBoard' = toBoard
           \/ toBoard' = Append(toBoard, [what |-> "stored"])
        /\ asked'["theme"] = IF asked["theme"] = Void THEN Void ELSE asked["theme"] - 1
        /\ asked["theme"] \in {Void} \cup (Nat \ {0})
    BY DEF Store, PreferencesTypeOK, Readers
  <2>2. asked["theme"] # Void => asked'["theme"] # Void
    BY <2>1
  <2>3. DOMAIN toBoard \subseteq DOMAIN toBoard' /\ \A i \in DOMAIN toBoard : toBoard'[i] = toBoard[i]
    BY <2>1
  <2>4. QED
    BY <2>2, <2>3 DEF ThemeUnread
<1>4. BoardTold'
  BY <1>1, <1>2, <1>3, BoardStays DEF Store
<1>5. /\ window' = [window EXCEPT !.onTop = row'.onTop] /\ row' \in Settings
      /\ \A key \in SettingKeys \ Patchable : Parsed(row)[key] = Parsed(row')[key]
  BY StoreType DEF Store
<1>6. /\ Parsed(row') = row' /\ Parsed(row) \in Settings
  BY <1>5, ParsedIsSettings DEF Parsed, PreferencesTypeOK
<1>7. Parsed(row').geometry = Parsed(row).geometry
  <2>1. "geometry" \in SettingKeys \ Patchable
    BY DEF SettingKeys, Patchable
  <2>2. row'["geometry"] = Parsed(row)["geometry"]
    BY <1>5, <1>6, <2>1
  <2>3. QED
    BY <1>5, <1>6, <2>2, SettingsAreRecords
<1>8. /\ window'.onTop = Parsed(row').onTop /\ window'.moved = window.moved
      /\ window'.timer = window.timer /\ window'.large = window.large
      /\ window'.place = window.place
  BY <1>5, <1>6 DEF PreferencesTypeOK
<1>9. WindowTold'
  BY <1>7, <1>8 DEF WindowTold
<1>10. QED
  BY <1>4, <1>9

LEMMA WindowKeeps ==
    ASSUME WindowTold, UNCHANGED <<row, window>>
    PROVE  WindowTold'
  BY DEF WindowTold

LEMMA GesturesKeep ==
    ASSUME PreferencesTypeOK,
           \/ \E r \in Regions : Fold(r)
           \/ \E p \in Chips : Select(p)
           \/ ToggleMine \/ HideOrShow \/ ToggleOnTop
           \/ \E a \in Appearances : SetAppearance(a)
    PROVE  PreferencesTypeOK' /\ (BoardTold => BoardTold') /\ UNCHANGED <<row, window>>
<1>1. UNCHANGED <<row, window>>
  BY DEF Fold, Select, ToggleMine, HideOrShow, Hide, ToggleOnTop, SetAppearance, Write
<1>2. QED
  BY <1>1, FoldKeeps, SelectKeeps, ToggleMineKeeps, HideOrShowKeeps, ToggleOnTopKeeps,
     SetAppearanceKeeps

LEMMA PrefsInvBegins == PreferencesInit => PrefsInv
<1>1. SUFFICES ASSUME PreferencesInit PROVE PrefsInv
  OBVIOUS
<1>2. /\ Blank \in [folds : SUBSET Regions, project : Chips \cup {Void}, mine : BOOLEAN,
                    hidden : {Void} \cup SUBSET Hideable, appearance : Appearances]
      /\ NoWindow \in [open : BOOLEAN, place : Places \cup {Void}, large : BOOLEAN,
                   onTop : BOOLEAN, timer : BOOLEAN, moved : BOOLEAN, again : BOOLEAN]
      /\ NotAsked \in [Readers -> {Void} \cup 0..Len(toMain)]
      /\ ~NoWindow.open
  BY DEF Blank, NoWindow, NotAsked, Appearances
<1>3. /\ launched \in [geometry : Places \cup {Void}, onTop : BOOLEAN]
      /\ touched \in [folds : BOOLEAN, filter : BOOLEAN]
  BY <1>1 DEF PreferencesInit
<1>7. pressed \in 0..MaxPressed /\ hasty \in BOOLEAN /\ up \in BOOLEAN
  <2>1. pressed = 0 /\ hasty = FALSE /\ up = FALSE
    BY <1>1 DEF PreferencesInit
  <2>2. 0 \in 0..MaxPressed
    BY MaxPressed \in Nat
  <2>3. QED
    BY <2>1, <2>2
<1>4. /\ row \in Settings \cup {Missing, Unreadable}
      /\ cached \in Settings \cup {Void} /\ known \in {Void} \cup SUBSET Chips
  BY <1>1 DEF PreferencesInit
<1>5. toMain \in Seq(SettingPatches) /\ toBoard \in Seq(BoardReplies)
  BY <1>1 DEF PreferencesInit
<1>6. QED
  BY <1>1, <1>2, <1>3, <1>4, <1>5, <1>7 DEF PrefsInv, PreferencesInit, PreferencesTypeOK

LEMMA PrefsInvStep == PrefsInv /\ [PreferencesNext]_prefsVars => PrefsInv'
<1>1. SUFFICES ASSUME PrefsInv, [PreferencesNext]_prefsVars PROVE PrefsInv'
  OBVIOUS
<1>2. PreferencesTypeOK /\ (window.open => BoardTold /\ WindowTold)
  BY <1>1 DEF PrefsInv
<1>3. CASE UNCHANGED prefsVars
  <2>1. PreferencesTypeOK' /\ UNCHANGED window
    BY <1>2, <1>3 DEF PreferencesTypeOK, prefsVars
  <2>2. ASSUME window.open PROVE BoardTold' /\ WindowTold'
    BY <1>2, <1>3, <2>2, BoardUnmoved, WindowKeeps DEF prefsVars
  <2>3. QED
    BY <2>1, <2>2 DEF PrefsInv
<1>4. CASE Launch \/ Activate
  BY <1>2, <1>4, LaunchType, OpenedTold DEF PrefsInv
<1>5. CASE Close \/ Quit
  BY <1>2, <1>5, EndType DEF PrefsInv
<1>6. CASE Move \/ Maximise \/ Settle \/ \E p \in Chips : ChangeProjects(p)
  <2>1. window'.open = window.open
    <3>1. CASE Settle \/ \E p \in Chips : ChangeProjects(p)
      BY <1>2, <3>1 DEF Settle, ChangeProjects, PreferencesTypeOK
    <3>2. CASE \E place, large : Reshape(place, large)
      <4>1. PICK place, large : window' = [window EXCEPT !.place = place, !.large = large,
                                             !.timer = TRUE, !.moved = TRUE]
        BY <3>2 DEF Reshape
      <4>2. QED
        BY <1>2, <4>1 DEF PreferencesTypeOK
    <3>3. QED
      BY <1>6, <3>1, <3>2 DEF Move, Maximise
  <2>2. QED
    BY <1>2, <1>6, <2>1, WindowType, WindowMoves DEF PrefsInv
<1>7. ASSUME NEW by \in Readers, Answer(by) PROVE PrefsInv'
  <2>1. UNCHANGED <<row, window>>
    BY <1>7 DEF Answer
  <2>2. QED
    BY <1>2, <1>7, <2>1, AnswerType, AnswerTold, WindowKeeps DEF PrefsInv
<1>8. CASE Store
  <2>1. window'.open = window.open
    BY <1>2, <1>8 DEF Store, PreferencesTypeOK
  <2>2. QED
    BY <1>2, <1>8, <2>1, StoreType, StoreTold DEF PrefsInv
<1>9. CASE Hear \/ List
  <2>1. UNCHANGED <<row, window>>
    BY <1>9 DEF Hear, List
  <2>2. QED
    BY <1>2, <1>9, <2>1, HearKeeps, ListKeeps, WindowKeeps DEF PrefsInv
<1>10. CASE \/ \E r \in Regions : Fold(r)
            \/ \E p \in Chips : Select(p)
            \/ ToggleMine \/ HideOrShow \/ ToggleOnTop
            \/ \E a \in Appearances : SetAppearance(a)
  BY <1>2, <1>10, GesturesKeep, WindowKeeps DEF PrefsInv
<1>11. QED
  BY <1>1, <1>3, <1>4, <1>5, <1>6, <1>7, <1>8, <1>9, <1>10 DEF PreferencesNext

LEMMA PrefsInvKept == PrefsInv => PreferencesKept
<1>1. SUFFICES ASSUME PrefsInv PROVE PreferencesKept
  OBVIOUS
<1>2. window.open => BoardTold /\ WindowTold
  BY <1>1 DEF PrefsInv
<1>3. ASSUME AtRest
      PROVE  /\ view.folds = Parsed(row).folds
             /\ Hidden = Parsed(row).hidden
             /\ hasty \/ view.appearance = Parsed(row).appearance
             /\ view.project \in {Void, Parsed(row).project}
             /\ view.mine => Parsed(row).mine
             /\ window.again \/ window.onTop = Parsed(row).onTop
  <2>1. /\ window.open /\ toMain = << >> /\ toBoard = << >> /\ cached # Void
        /\ asked = NotAsked /\ cached \in Settings /\ Parsed(row) \in Settings
    BY <1>1, <1>3, ParsedIsSettings DEF AtRest, PrefsInv, PreferencesTypeOK
  <2>2. BoardTold /\ WindowTold
    BY <1>2, <2>1
  <2>3. \A key, v : Final(key, v) => Parsed(row)[key] = v
    BY <2>1, FinalAtRest
  <2>4. ~ThemeUnread
    BY <2>1 DEF ThemeUnread, NotAsked, Readers
  <2>5. \A key : CacheFinal(key) => Final(key, cached[key])
    BY <2>1 DEF CacheFinal
  <2>6. view.folds = Parsed(row)["folds"]
    <3>1. CASE touched.folds
      BY <2>2, <2>3, <3>1 DEF BoardTold, FoldsTold
    <3>2. CASE ~touched.folds
      <4>1. Final("folds", cached["folds"]) /\ view.folds = cached.folds
        BY <2>1, <2>2, <2>5, <3>2 DEF BoardTold, FoldsTold
      <4>2. QED
        BY <2>1, <2>3, <4>1, SettingsAreRecords
    <3>3. QED
      BY <3>1, <3>2
  <2>7. Hidden = Parsed(row)["hidden"]
    <3>1. CASE view.hidden # Void
      BY <2>2, <2>3, <3>1 DEF BoardTold, HiddenTold, Hidden
    <3>2. CASE view.hidden = Void
      <4>1. Final("hidden", cached["hidden"]) /\ Hidden = cached.hidden
        BY <2>1, <2>2, <2>5, <3>2 DEF BoardTold, HiddenTold, Hidden
      <4>2. QED
        BY <2>1, <2>3, <4>1, SettingsAreRecords
    <3>3. QED
      BY <3>1, <3>2
  <2>8. hasty \/ view.appearance = Parsed(row)["appearance"]
    BY <2>2, <2>3, <2>4 DEF BoardTold, ThemeTold
  <2>9. view.project \in {Void, Parsed(row)["project"]}
    BY <2>2, <2>3 DEF BoardTold, FilterTold
  <2>10. view.mine => Parsed(row)["mine"]
    BY <2>2, <2>3 DEF BoardTold, FilterTold
  <2>11. window.again \/ window.onTop = Parsed(row).onTop
    BY <2>2 DEF WindowTold
  <2>12. QED
    BY <2>1, <2>6, <2>7, <2>8, <2>9, <2>10, <2>11, SettingsAreRecords
<1>4. ASSUME window.open, window.moved, ~window.timer, ~window.large
      PROVE  Parsed(row).geometry = window.place
  BY <1>2, <1>4 DEF WindowTold
<1>5. QED
  BY <1>3, <1>4 DEF PreferencesKept

\* Messages keep their order, and no read overtakes a patch, whatever windows close,
\* projects change and answers are dropped meanwhile.
THEOREM PreferencesInvariant == PreferencesSpec => []PrefsInv
  BY PrefsInvBegins, PrefsInvStep, PTL DEF PreferencesSpec

\* The row, the window, the messages and the board keep their types.
THEOREM PreferencesTypeTheorem == PreferencesSpec => []PreferencesTypeOK
<1>1. PrefsInv => PreferencesTypeOK
  BY DEF PrefsInv
<1>2. QED
  BY <1>1, PreferencesInvariant, PTL

\* When nothing is under way the board is arranged as the next launch will arrange it,
\* and the window will be found where it is (regions.tsx, filter.ts, persistence.ts).
THEOREM KeptTheorem == PreferencesSpec => []PreferencesKept
  BY PrefsInvKept, PreferencesInvariant, PTL

-----------------------------------------------------------------------------
(* The screen of projects: what was on offer is taken.                     *)

ScreenInv == ProjectsTypeOK /\ saves \in Seq(Saves) /\ OfferIsTaken

HIDE PreferencesAssumption
USE ProjectsAssumption

\* A form takes its account from the project, or from the list if there is one.
LEMMA MountedTakes ==
    ASSUME ProjectsTypeOK, NEW id \in ProjectIds \cup {Null}, NEW account \in Accounts \cup {Null}
    PROVE  /\ Mounted(id, account) \in Forms
           /\ TakesShown(Mounted(id, account))
<1>1. IF OnOffer = {} THEN First(offered) = Null ELSE First(offered) \in OnOffer
  <2>1. CASE offered \in {Null, {}}
    BY <2>1 DEF First, OnOffer
  <2>2. CASE offered \notin {Null, {}}
    <3>1. offered \in SUBSET Accounts /\ \E c \in offered : TRUE
      BY <2>2 DEF ProjectsTypeOK
    <3>2. (CHOOSE c \in offered : TRUE) \in offered
      BY <3>1
    <3>3. First(offered) = CHOOSE c \in offered : TRUE
      BY <2>2 DEF First
    <3>4. OnOffer = offered /\ offered # {}
      BY <2>2 DEF OnOffer
    <3>5. QED
      BY <3>2, <3>3, <3>4
  <2>3. QED
    BY <2>1, <2>2
<1>2. OnOffer \in SUBSET Accounts
  BY DEF OnOffer, ProjectsTypeOK
<1>3. QED
  BY <1>1, <1>2 DEF Mounted, InitialAccount, Forms, TakesShown

\* A submission that loses its form loses nothing else.
LEMMA DisownedKeeps ==
    ASSUME NEW listing \in Seq(Saves), \A i \in DOMAIN listing : TakesShown(listing[i])
    PROVE  /\ Disowned(listing) \in Seq(Saves)
           /\ \A i \in DOMAIN Disowned(listing) : TakesShown(Disowned(listing)[i])
<1>1. \A s \in Saves : /\ [s EXCEPT !.mine = FALSE] \in Saves
                       /\ TakesShown(s) => TakesShown([s EXCEPT !.mine = FALSE])
  BY DEF Saves, TakesShown
<1>2. DOMAIN listing = 1..Len(listing) /\ Len(listing) \in Nat /\ \A i \in DOMAIN listing : listing[i] \in Saves
  OBVIOUS
<1>3. /\ DOMAIN Disowned(listing) = 1..Len(listing)
      /\ \A i \in DOMAIN listing : Disowned(listing)[i] = [listing[i] EXCEPT !.mine = FALSE]
      /\ Disowned(listing) = [i \in 1..Len(listing) |-> Disowned(listing)[i]]
  BY <1>2 DEF Disowned
<1>4. \A i \in 1..Len(listing) : Disowned(listing)[i] \in Saves
  BY <1>1, <1>2, <1>3
<1>5. Disowned(listing) \in Seq(Saves)
  BY <1>2, <1>3, <1>4, IsASeq
<1>6. QED
  BY <1>1, <1>2, <1>3, <1>5

\* A step of the lists, which leaves form and submissions alone.
LEMMA ListsKeep ==
    ASSUME ScreenInv, UNCHANGED <<form, saves>>,
           accounts' \in SUBSET Accounts, table' \in ProjectTables,
           offered' \in (SUBSET Accounts) \cup {Null}, listed' \in ProjectTables \cup {Null},
           wanted' \in SUBSET Queries
    PROVE  ScreenInv'
  BY DEF ScreenInv, ProjectsTypeOK, OfferIsTaken

\* A step that mounts a form, or none.
LEMMA FormsKeep ==
    ASSUME ScreenInv, UNCHANGED <<accounts, offered, listed>>,
           table' \in ProjectTables, wanted' \in SUBSET Queries,
           NEW listing \in Seq(Saves), \A i \in DOMAIN listing : TakesShown(listing[i]),
           saves' \in {saves, listing, Disowned(listing), Disowned(saves)},
           \/ form' \in {form, Null}
           \/ \E id \in ProjectIds \cup {Null}, account \in Accounts \cup {Null} :
                 form' = Mounted(id, account)
    PROVE  ScreenInv'
<1>1. form' \in Forms \cup {Null} /\ (form' # Null => TakesShown(form'))
  BY MountedTakes DEF ScreenInv, ProjectsTypeOK, OfferIsTaken
<1>2. saves' \in Seq(Saves) /\ \A i \in DOMAIN saves' : TakesShown(saves'[i])
  BY DisownedKeeps DEF ScreenInv, OfferIsTaken
<1>3. \A i \in DOMAIN saves' : saves'[i] \in Saves
  BY <1>2
<1>4. QED
  BY <1>1, <1>2, <1>3 DEF ScreenInv, ProjectsTypeOK, OfferIsTaken

\* A table with a row more, or with one replaced, or without one.
LEMMA RowsFit ==
    ASSUME NEW t \in ProjectTables
    PROVE  /\ \A id \in ProjectIds, account \in Accounts \cup {Null} :
                 [i \in DOMAIN t \cup {id} |-> IF i = id THEN account ELSE t[i]] \in ProjectTables
           /\ \A id : Restrict(t, DOMAIN t \ {id}) \in ProjectTables
<1>1. PICK ids \in SUBSET ProjectIds : t \in [ids -> Accounts \cup {Null}]
  BY DEF ProjectTables
<1>2. ASSUME NEW id \in ProjectIds, NEW account \in Accounts \cup {Null}
      PROVE  [i \in DOMAIN t \cup {id} |-> IF i = id THEN account ELSE t[i]] \in ProjectTables
  <2>1. [i \in DOMAIN t \cup {id} |-> IF i = id THEN account ELSE t[i]]
           \in [ids \cup {id} -> Accounts \cup {Null}]
    BY <1>1
  <2>2. ids \cup {id} \in SUBSET ProjectIds
    OBVIOUS
  <2>3. QED
    BY <2>1, <2>2 DEF ProjectTables
<1>3. ASSUME NEW id
      PROVE  Restrict(t, DOMAIN t \ {id}) \in ProjectTables
  <2>1. Restrict(t, DOMAIN t \ {id}) \in [ids \ {id} -> Accounts \cup {Null}]
    BY <1>1 DEF Restrict
  <2>2. ids \ {id} \in SUBSET ProjectIds
    OBVIOUS
  <2>3. QED
    BY <2>1, <2>2 DEF ProjectTables
<1>4. QED
  BY <1>2, <1>3

\* The submissions that are left when one has been answered.
LEMMA SavesLeft ==
    ASSUME ScreenInv, saves # << >>
    PROVE  /\ Head(saves) \in Saves /\ Tail(saves) \in Seq(Saves)
           /\ \A i \in DOMAIN Tail(saves) : TakesShown(Tail(saves)[i])
<1>1. saves \in Seq(Saves)
  BY DEF ScreenInv
<1>2. Head(saves) \in Saves /\ Tail(saves) \in Seq(Saves)
      /\ DOMAIN Tail(saves) = 1..Len(saves) - 1 /\ DOMAIN saves = 1..Len(saves)
      /\ \A i \in 1..Len(saves) - 1 : Tail(saves)[i] = saves[i + 1]
  BY <1>1, HeadTailProperties
<1>3. \A i \in DOMAIN Tail(saves) : i + 1 \in DOMAIN saves
  BY <1>1, <1>2
<1>4. QED
  BY <1>2, <1>3 DEF ScreenInv, OfferIsTaken

LEMMA SaveKeepsOffer == ASSUME ScreenInv, Save PROVE ScreenInv'
<1> DEFINE s == Head(saves)
<1>1. saves \in Seq(Saves) /\ saves # << >> /\ UNCHANGED <<accounts, offered, listed>>
      /\ wanted' = wanted \cup {"projects"}
      /\ table' = [i \in DOMAIN table \cup {s.id} |-> IF i = s.id THEN s.account ELSE table[i]]
  BY DEF Save, ScreenInv
<1>2. s \in Saves /\ Tail(saves) \in Seq(Saves)
      /\ \A i \in DOMAIN Tail(saves) : TakesShown(Tail(saves)[i])
  BY <1>1, SavesLeft
<1>4. table' \in ProjectTables /\ wanted' \in SUBSET Queries
  <2>1. s.id \in ProjectIds /\ s.account \in Accounts \cup {Null}
    BY <1>2 DEF Saves
  <2>2. QED
    BY <1>1, <2>1, RowsFit DEF ScreenInv, ProjectsTypeOK, Queries
<1>5. \/ form' = form
      \/ \E id \in ProjectIds \cup {Null}, account \in Accounts \cup {Null} :
            form' = Mounted(id, account)
  BY DEF Save, NewForm
<1>6. saves' \in {Tail(saves), Disowned(Tail(saves))}
  BY DEF Save
<1>7. UNCHANGED <<accounts, offered, listed>> /\ table' \in ProjectTables
      /\ wanted' \in SUBSET Queries
  BY <1>1, <1>4
<1>8. QED
  <2> HIDE DEF s
  <2>1. QED
    BY <1>2, <1>5, <1>6, <1>7, FormsKeep

\* A submission that is refused is gone, and its form stays.
LEMMA RefusalKeepsOffer == ASSUME ScreenInv, SaveRefused PROVE ScreenInv'
<1>1. saves # << >> /\ saves' = Tail(saves)
      /\ UNCHANGED <<accounts, table, offered, listed, wanted, form>>
  BY DEF SaveRefused
<1>2. Tail(saves) \in Seq(Saves) /\ \A i \in DOMAIN Tail(saves) : TakesShown(Tail(saves)[i])
  BY <1>1, SavesLeft
<1>3. table' \in ProjectTables /\ wanted' \in SUBSET Queries
  BY <1>1 DEF ScreenInv, ProjectsTypeOK
<1>4. QED
  BY <1>1, <1>2, <1>3, FormsKeep

LEMMA SubmitKeepsOffer == ASSUME ScreenInv, NEW code \in Codes, Submit(code) PROVE ScreenInv'
<1> DEFINE s == [id |-> IF form.editing # Null THEN form.editing ELSE IdOf[code],
                 account |-> form.account, shown |-> form.shown, mine |-> TRUE]
<1>1. form \in Forms /\ saves' = Append(saves, s) /\ saves \in Seq(Saves)
      /\ UNCHANGED <<accounts, table, offered, listed, wanted, form>>
      /\ TakesShown(form)
  BY DEF Submit, ScreenInv, ProjectsTypeOK, OfferIsTaken
<1>2. s \in Saves /\ TakesShown(s)
  BY <1>1 DEF Forms, Saves, ProjectIds, TakesShown
<1> HIDE DEF s
<1>3. saves' \in Seq(Saves) /\ DOMAIN saves' = 1..Len(saves) + 1 /\ DOMAIN saves = 1..Len(saves)
      /\ saves'[Len(saves) + 1] = s /\ \A i \in DOMAIN saves : saves'[i] = saves[i]
      /\ Len(saves) \in Nat
  BY <1>1, <1>2, AppendProperties
<1>4. \A i \in DOMAIN saves' : TakesShown(saves'[i])
  <2>1. \A i \in DOMAIN saves' : i \in DOMAIN saves \/ i = Len(saves) + 1
    BY <1>3
  <2>2. QED
    BY <1>2, <1>3, <2>1 DEF ScreenInv, OfferIsTaken
<1>5. QED
  <2>1. table' \in ProjectTables /\ wanted' \in SUBSET Queries
    BY <1>1 DEF ScreenInv, ProjectsTypeOK
  <2>2. QED
    BY <1>1, <1>3, <1>4, <2>1, FormsKeep

LEMMA PickKeepsOffer == ASSUME ScreenInv, NEW c \in Accounts, Pick(c) PROVE ScreenInv'
<1>1. form \in Forms /\ form' = [form EXCEPT !.account = c, !.shown = form.shown \cup offered]
      /\ c \in offered /\ offered \in SUBSET Accounts
      /\ UNCHANGED <<accounts, table, offered, listed, wanted, saves>>
  BY DEF Pick, ScreenInv, ProjectsTypeOK
<1>2. form' \in Forms /\ TakesShown(form')
  BY <1>1 DEF Forms, TakesShown
<1>3. QED
  BY <1>1, <1>2 DEF ScreenInv, ProjectsTypeOK, OfferIsTaken

\* The steps of the screen.
LEMMA ScreenStep == ASSUME ScreenInv, [ProjectsNext]_projectsVars PROVE ScreenInv'
<1>1. /\ accounts \in SUBSET Accounts /\ table \in ProjectTables /\ wanted \in SUBSET Queries
      /\ offered \in (SUBSET Accounts) \cup {Null} /\ listed \in ProjectTables \cup {Null}
      /\ saves \in Seq(Saves) /\ \A i \in DOMAIN saves : TakesShown(saves[i])
  BY DEF ScreenInv, ProjectsTypeOK, OfferIsTaken
<1>2. CASE OpenScreen \/ Leave \/ Cancel
  <2>1. UNCHANGED <<accounts, table, offered, listed>> /\ wanted' \in SUBSET Queries
        /\ saves' \in {saves, Disowned(saves)}
        /\ (form' = Null \/ form' = Mounted(Null, Null))
    BY <1>1, <1>2 DEF OpenScreen, Leave, Cancel, NewForm
  <2>2. QED
    BY <1>1, <2>1, FormsKeep
<1>3. CASE \E id \in ProjectIds : EditProject(id)
  <2>1. PICK id \in ProjectIds : EditProject(id)
    BY <1>3
  <2>2. listed[id] \in Accounts \cup {Null}
    BY <1>1, <2>1 DEF EditProject, ProjectTables
  <2>3. UNCHANGED <<accounts, table, offered, listed, wanted>> /\ saves' = Disowned(saves)
        /\ form' = Mounted(id, listed[id])
    BY <2>1 DEF EditProject
  <2>4. \E i \in ProjectIds \cup {Null}, account \in Accounts \cup {Null} :
           form' = Mounted(i, account)
    BY <2>2, <2>3
  <2>5. QED
    BY <1>1, <2>3, <2>4, FormsKeep
<1>4. CASE \/ Collect \/ UNCHANGED projectsVars
           \/ \E q \in Queries : Fetched(q)
           \/ \E c \in Accounts : Connect(c) \/ Disconnect(c)
  <2>1. /\ accounts' \in SUBSET Accounts /\ table' \in ProjectTables
        /\ offered' \in (SUBSET Accounts) \cup {Null} /\ listed' \in ProjectTables \cup {Null}
        /\ wanted' \in SUBSET Queries /\ UNCHANGED <<form, saves>>
    <3>1. CASE Collect \/ UNCHANGED projectsVars
      BY <1>1, <3>1 DEF Collect, projectsVars
    <3>2. CASE \E q \in Queries : Fetched(q)
      BY <1>1, <3>2 DEF Fetched
    <3>3. CASE \E c \in Accounts : Connect(c) \/ Disconnect(c)
      BY <1>1, <3>3 DEF Connect, Disconnect, Queries
    <3>4. QED
      BY <1>4, <3>1, <3>2, <3>3
  <2>2. QED
    BY <2>1, ListsKeep
<1>5. CASE \E id \in ProjectIds : RemoveProject(id)
  <2>1. PICK id \in ProjectIds : RemoveProject(id)
    BY <1>5
  <2>2. table' \in ProjectTables /\ wanted' \in SUBSET Queries
        /\ UNCHANGED <<accounts, offered, listed, form, saves>>
    BY <1>1, <2>1, RowsFit DEF RemoveProject, Queries
  <2>3. QED
    BY <1>1, <2>2, ListsKeep
<1>6. QED
  BY <1>2, <1>3, <1>4, <1>5, SaveKeepsOffer, RefusalKeepsOffer, SubmitKeepsOffer, PickKeepsOffer
  DEF ProjectsNext

LEMMA ScreenInductive == ProjectsSpec => []ScreenInv
<1>1. ProjectsInit => ScreenInv
  BY DEF ProjectsInit, ScreenInv, ProjectsTypeOK, OfferIsTaken
<1>2. QED
  BY <1>1, ScreenStep, PTL DEF ProjectsSpec

-----------------------------------------------------------------------------
\* The tables and the screen keep their types.
THEOREM ProjectsTypeTheorem == ProjectsSpec => []ProjectsTypeOK
<1>1. ScreenInv => ProjectsTypeOK
  BY DEF ScreenInv
<1>2. QED
  BY <1>1, ScreenInductive, PTL

\* A form holds and submits an account that was shown in it, and none only when none
\* was, whatever accounts come and go and however late the lists arrive (Projects.tsx).
THEOREM OfferTheorem == ProjectsSpec => []OfferIsTaken
<1>1. ScreenInv => OfferIsTaken
  BY DEF ScreenInv
<1>2. QED
  BY <1>1, ScreenInductive, PTL

-----------------------------------------------------------------------------
(* The lane: what a stable sort returns, and what a press opens.           *)

\* The page of a ticket that a press asks for.
PageOf(t, what, at) ==
    CASE what = "ticket" -> t.page
      [] what = "pull-request" -> PullAt(t, at)
      [] what = "link" -> IF at \in t.links THEN at ELSE Nil

\* What is under way to main, or has been there, is what was drawn of the ticket; and what
\* was opened is the same of the ticket as it was then.
PressIsOfTicket == press # Nil =>
    /\ press.from # Nil => press.shown = PageOf(press.from, press.what, press.at)
    /\ press.state = "opened" =>
          /\ press.then \in Tickets /\ press.then # Nil
          /\ press.page = PageOf(press.then, press.what, press.at)
          /\ press.page # Nil

LaneInv == LaneTypeOK /\ (sort # Nil => board \in Mirrors) /\ PressIsOfTicket

\* Rows are a sequence of what is visible, in an order.
RowsAreInOrder ==
    /\ DOMAIN Rows = 1..Cardinality(Visible) /\ Cardinality(Visible) \in Nat
    /\ \A n \in DOMAIN Rows : Rows[n] \in Visible
    /\ \A i, j \in DOMAIN Rows : i < j => Precedes(Rows[i], Rows[j])

HIDE ProjectsAssumption

LEMMA CellTypes ==
    ASSUME board \in Mirrors, NEW k \in DOMAIN board, NEW column \in Columns
    PROVE  Cell(k, column) \in Nat \cup {Nil}
<1>1. board[k].points \in Nat \cup {Nil} /\ board[k].pulls \in Seq(Nat) \cup {Nil}
  BY LaneAssumption
<1>2. CASE column = "points"
  BY <1>1, <1>2 DEF Cell
<1>3. CASE column = "pr"
  <2>1. CASE board[k].pulls \in {Nil, << >>}
    BY <1>3, <2>1 DEF Cell
  <2>2. CASE board[k].pulls \notin {Nil, << >>}
    <3>1. board[k].pulls[1] \in Nat
      BY <1>1, <2>2
    <3>2. Cell(k, column) = board[k].pulls[1]
      BY <1>3, <2>2 DEF Cell
    <3>3. QED
      BY <3>1, <3>2
  <2>3. QED
    BY <2>1, <2>2
<1>4. QED
  BY <1>2, <1>3 DEF Columns

LEMMA VisibleIsFinite ==
    ASSUME LaneTypeOK
    PROVE  /\ IsFiniteSet(Visible) /\ Visible \subseteq Nat /\ Visible \subseteq TicketKeys
           /\ Visible # {} => board \in Mirrors
           /\ board \in Mirrors => Visible \subseteq DOMAIN board
<1>1. CASE board = Nil
  <2>1. Visible = {}
    BY <1>1 DEF Visible
  <2>2. QED
    BY <2>1, FS_EmptySet
<1>2. CASE board # Nil
  <2>1. board \in Mirrors /\ Visible \in SUBSET DOMAIN board
    BY <1>2 DEF LaneTypeOK, Visible
  <2>2. IsFiniteSet(DOMAIN board) /\ DOMAIN board \subseteq Nat
    BY <2>1, LaneAssumption
  <2>3. DOMAIN board \subseteq TicketKeys
    BY <2>1 DEF TicketKeys
  <2>4. QED
    BY <2>1, <2>2, <2>3, FS_Subset
<1>3. QED
  BY <1>1, <1>2

\* The comparison, and the order of equals, make an order of all rows.
LEMMA PrecedesIsAnOrder ==
    ASSUME LaneTypeOK, sort # Nil => board \in Mirrors
    PROVE  /\ \A a \in Visible : ~Precedes(a, a)
           /\ \A a, b \in Visible : a # b => Precedes(a, b) \/ Precedes(b, a)
           /\ \A a, b, c \in Visible : Precedes(a, b) /\ Precedes(b, c) => Precedes(a, c)
<1>1. Visible \subseteq Nat
  BY VisibleIsFinite
<1>2. CASE sort = Nil
  BY <1>1, <1>2 DEF Precedes, Goes
<1>3. CASE sort # Nil
  <2> DEFINE V(a) == Cell(a, sort.column)
  <2>1. \A a \in Visible : V(a) \in Nat \cup {Nil}
    BY <1>3, VisibleIsFinite, CellTypes DEF LaneTypeOK, Orders
  <2>2. sort.up \in BOOLEAN
    BY <1>3 DEF LaneTypeOK, Orders
  <2>3. \A a, b \in Visible : Goes(a, b) <=>
           V(a) # Nil /\ (V(b) = Nil \/ (IF sort.up THEN V(a) < V(b) ELSE V(a) > V(b)))
    BY <1>3 DEF Goes
  <2> HIDE DEF V
  <2>4. \A a \in Visible : ~Goes(a, a)
    BY <2>1, <2>3
  <2>5. \A a, b \in Visible : ~(Goes(a, b) /\ Goes(b, a))
    BY <2>1, <2>2, <2>3, LaneAssumption
  <2>6. \A a, b, c \in Visible : Goes(a, b) /\ Goes(b, c) => Goes(a, c)
    BY <2>1, <2>2, <2>3, LaneAssumption
  <2>7. \A a, b, c \in Visible : ~Goes(a, b) /\ ~Goes(b, c) => ~Goes(a, c)
    BY <2>1, <2>2, <2>3, LaneAssumption
  <2>8. QED
    BY <1>1, <2>4, <2>5, <2>6, <2>7 DEF Precedes
<1>4. QED
  BY <1>2, <1>3

\* A row is where it is by the number of those before it: each number once.
LEMMA SortReturnsRows ==
    ASSUME LaneTypeOK, sort # Nil => board \in Mirrors
    PROVE  RowsAreInOrder
<1> DEFINE Ahead(k) == {j \in Visible : Precedes(j, k)}
           N == Cardinality(Visible)
           place == [k \in Visible |-> Cardinality(Ahead(k)) + 1]
<1>1. IsFiniteSet(Visible) /\ N \in Nat
  BY VisibleIsFinite, FS_CardinalityType
<1>2. ASSUME NEW k \in Visible
      PROVE  /\ IsFiniteSet(Ahead(k)) /\ Cardinality(Ahead(k)) \in Nat /\ Cardinality(Ahead(k)) < N
  <2>1. Ahead(k) \in SUBSET (Visible \ {k})
    BY PrecedesIsAnOrder
  <2>2. IsFiniteSet(Visible \ {k}) /\ Cardinality(Visible \ {k}) = N - 1
    BY <1>1, FS_RemoveElement
  <2> HIDE DEF Ahead, N
  <2>3. IsFiniteSet(Ahead(k)) /\ Cardinality(Ahead(k)) <= N - 1
    BY <2>1, <2>2, FS_Subset
  <2>4. QED
    BY <1>1, <2>3, FS_CardinalityType
<1>3. ASSUME NEW a \in Visible, NEW b \in Visible, Precedes(a, b)
      PROVE  Cardinality(Ahead(a)) < Cardinality(Ahead(b))
  <2>1. a \in Ahead(b) /\ Ahead(a) \in SUBSET (Ahead(b) \ {a})
    BY <1>3, PrecedesIsAnOrder
  <2> HIDE DEF Ahead
  <2>2. IsFiniteSet(Ahead(b) \ {a}) /\ Cardinality(Ahead(b) \ {a}) = Cardinality(Ahead(b)) - 1
    BY <1>2, <2>1, FS_RemoveElement
  <2>3. Cardinality(Ahead(a)) <= Cardinality(Ahead(b)) - 1
    BY <2>1, <2>2, FS_Subset
  <2>4. QED
    BY <1>2, <2>3
<1>4. place \in Injection(Visible, 1..N)
  <2> HIDE DEF Ahead, N
  <2>1. place \in [Visible -> 1..N]
    BY <1>1, <1>2
  <2>2. \A a, b \in Visible : place[a] = place[b] => a = b
    BY <1>2, <1>3, PrecedesIsAnOrder
  <2> HIDE DEF place
  <2>3. QED
    BY <2>1, <2>2 DEF Injection, IsInjective
<1>5. \A n \in 1..N : \E k \in Visible : Cardinality(Ahead(k)) = n - 1
  <2>1. IsFiniteSet(1..N) /\ Cardinality(1..N) = N
    BY <1>1, FS_Interval
  <2>2. place \in Surjection(Visible, 1..N)
    <3> HIDE DEF place
    <3>1. QED
      BY <1>1, <1>4, <2>1, FS_Injection
  <2> HIDE DEF Ahead, N
  <2>3. \A n \in 1..N : \E k \in Visible : place[k] = n
    <3> HIDE DEF place
    <3>1. QED
      BY <2>2 DEF Surjection
  <2>4. QED
    BY <1>1, <1>2, <2>3
<1>6. DOMAIN Rows = 1..N
      /\ \A n \in 1..N : Rows[n] \in Visible /\ Cardinality(Ahead(Rows[n])) = n - 1
  <2>1. Rows = [n \in 1..N |-> CHOOSE k \in Visible : Cardinality(Ahead(k)) = n - 1]
    BY DEF Rows
  <2> HIDE DEF Ahead, N
  <2>2. QED
    BY <1>5, <2>1
<1>7. ASSUME NEW i \in 1..N, NEW j \in 1..N, i < j
      PROVE  Precedes(Rows[i], Rows[j])
  <2>1. Cardinality(Ahead(Rows[i])) < Cardinality(Ahead(Rows[j]))
    <3> HIDE DEF Ahead
    <3>1. QED
      BY <1>1, <1>6, <1>7
  <2>2. ~Precedes(Rows[j], Rows[i])
    <3> HIDE DEF Ahead
    <3>1. QED
      BY <1>2, <1>3, <1>6, <2>1
  <2>3. Rows[i] # Rows[j]
    <3> HIDE DEF Ahead
    <3>1. QED
      BY <1>2, <1>6, <2>1
  <2>4. QED
    BY <1>6, <2>2, <2>3, PrecedesIsAnOrder
<1>8. QED
  BY <1>1, <1>6, <1>7 DEF RowsAreInOrder

\* Of rows in that order, what is unknown is last, and equals are as the keys are.
LEMMA OrderIsHonest ==
    ASSUME LaneTypeOK, sort # Nil, board \in Mirrors, NEW a \in Visible, NEW b \in Visible,
           Precedes(a, b)
    PROVE  /\ Cell(a, sort.column) = Nil => Cell(b, sort.column) = Nil
           /\ Cell(a, sort.column) = Cell(b, sort.column) => a < b
<1>1. Cell(a, sort.column) \in Nat \cup {Nil} /\ Cell(b, sort.column) \in Nat \cup {Nil}
  BY VisibleIsFinite, CellTypes DEF LaneTypeOK, Orders
<1>2. sort.up \in BOOLEAN /\ a \in Nat /\ b \in Nat
  BY VisibleIsFinite DEF LaneTypeOK, Orders
<1>3. QED
  BY <1>1, <1>2, LaneAssumption DEF Precedes, Goes

\* What a ticket has, by whatever it is asked for, is one of its pages.
LEMMA PagesAreTheTickets ==
    ASSUME NEW t \in Tickets, t # Nil, NEW what \in {"ticket", "pull-request", "link"}, NEW at
    PROVE  PageOf(t, what, at) \in PagesOf(t) \cup {Nil} /\ PagesOf(t) \subseteq Pages
<1>1. PagesOf(t) \subseteq Pages
  BY DEF Pages
<1>2. CASE what = "ticket"
  BY <1>1, <1>2 DEF PageOf, PagesOf
<1>3. CASE what = "pull-request"
  <2>1. PageOf(t, what, at) = PullAt(t, at)
    BY <1>3 DEF PageOf
  <2>2. QED
    BY <1>1, <2>1 DEF PullAt, PagesOf, Range
<1>4. CASE what = "link"
  <2>1. PageOf(t, what, at) = IF at \in t.links THEN at ELSE Nil
    BY <1>4 DEF PageOf
  <2>2. QED
    BY <1>1, <2>1 DEF PagesOf
<1>5. QED
  BY <1>2, <1>3, <1>4

LEMMA TicketsOfMirrors ==
    ASSUME NEW m \in Mirrors, NEW k \in DOMAIN m
    PROVE  m[k] \in Tickets /\ m[k] # Nil /\ k \in TicketKeys /\ k \in Nat
           /\ m[k].page \in Nat /\ m[k].links \subseteq Nat
           /\ (m[k].pulls # Nil => m[k].pulls \in Seq(Nat))
  BY LaneAssumption DEF Tickets, TicketKeys

\* A press is of what is drawn.
LEMMA AskKeeps ==
    ASSUME LaneInv, NEW k \in TicketKeys, NEW what \in {"ticket", "pull-request", "link"},
           NEW at \in Nat, NEW shown \in Pages \cup {Nil}, Ask(k, what, at, shown),
           board \in Mirrors,
           k \in DOMAIN board => shown = PageOf(board[k], what, at)
    PROVE  LaneInv'
<1> DEFINE from == IF k \in DOMAIN board THEN board[k] ELSE Nil
<1>1. from \in Tickets \cup {Nil} /\ (from # Nil => k \in DOMAIN board /\ from = board[k])
  BY TicketsOfMirrors
<1>2. press' = [key |-> k, what |-> what, at |-> at, shown |-> shown, from |-> from,
                state |-> "asked", page |-> Nil, then |-> Nil]
      /\ UNCHANGED <<mirror, board, chosen, mine, hidden, sort>>
  BY DEF Ask
<1> HIDE DEF from
<1>3. press' \in Presses
  BY <1>1, <1>2 DEF Presses
<1>4. LaneTypeOK'
  BY <1>2, <1>3 DEF LaneInv, LaneTypeOK
<1>5. PressIsOfTicket'
  <2>1. press'.from = from /\ press'.shown = shown /\ press'.what = what /\ press'.at = at
        /\ press'.state = "asked"
    BY <1>2
  <2>2. from # Nil => shown = PageOf(from, what, at)
    BY <1>1
  <2>3. press'.from # Nil => press'.shown = PageOf(press'.from, press'.what, press'.at)
    BY <2>1, <2>2
  <2>4. QED
    BY <2>1, <2>3 DEF PressIsOfTicket
<1>6. QED
  BY <1>2, <1>4, <1>5 DEF LaneInv

LEMMA PressKeeps ==
    ASSUME LaneInv, NEW k \in TicketKeys,
           OpenRow(k) \/ OpenPull(k) \/ OpenLink(k) \/ OpenActive(k)
    PROVE  LaneInv'
<1>1. ASSUME k \in Range(Rows)
      PROVE  board \in Mirrors /\ k \in DOMAIN board
  <2>1. k \in Visible
    BY <1>1, SortReturnsRows DEF LaneInv, RowsAreInOrder, Range
  <2>2. QED
    BY <2>1, VisibleIsFinite DEF LaneInv
<1>2. ASSUME board \in Mirrors, k \in DOMAIN board
      PROVE  /\ board[k] \in Tickets /\ board[k] # Nil /\ board[k].links \subseteq Nat
             /\ board[k].pulls # Nil => board[k].pulls \in Seq(Nat)
             /\ PagesOf(board[k]) \subseteq Pages
  BY <1>2, TicketsOfMirrors DEF Pages
<1>3. CASE OpenRow(k)
  <2>1. board \in Mirrors /\ k \in DOMAIN board /\ Ask(k, "ticket", 0, board[k].page)
    BY <1>1, <1>3 DEF OpenRow
  <2>2. board[k].page \in Pages /\ board[k].page = PageOf(board[k], "ticket", 0)
    BY <1>2, <2>1 DEF PagesOf, PageOf
  <2>3. QED
    BY <2>1, <2>2, AskKeeps
<1>4. CASE OpenPull(k)
  <2>1. board \in Mirrors /\ k \in DOMAIN board /\ board[k].pulls # Nil
    BY <1>1, <1>4 DEF OpenPull
  <2>2. PICK i \in DOMAIN board[k].pulls : Ask(k, "pull-request", i, board[k].pulls[i])
    BY <1>4 DEF OpenPull
  <2>3. i \in Nat /\ board[k].pulls[i] \in Pages
    BY <1>2, <2>1, <2>2 DEF PagesOf, Range
  <2>4. board[k].pulls[i] = PageOf(board[k], "pull-request", i)
    <3>1. PageOf(board[k], "pull-request", i) = PullAt(board[k], i)
      BY DEF PageOf
    <3>2. QED
      BY <2>1, <2>2, <3>1 DEF PullAt
  <2>5. QED
    BY <2>1, <2>2, <2>3, <2>4, AskKeeps
<1>5. CASE OpenLink(k)
  <2>1. board \in Mirrors /\ k \in DOMAIN board
    BY <1>5 DEF OpenLink, LaneInv, LaneTypeOK
  <2>2. PICK page \in board[k].links : Ask(k, "link", page, page)
    BY <1>5 DEF OpenLink
  <2>3. page \in Nat /\ page \in Pages /\ page = PageOf(board[k], "link", page)
    <3>1. PageOf(board[k], "link", page) = IF page \in board[k].links THEN page ELSE Nil
      BY DEF PageOf
    <3>2. QED
      BY <1>2, <2>1, <2>2, <3>1 DEF PagesOf
  <2>4. QED
    BY <2>1, <2>2, <2>3, AskKeeps
<1>6. CASE OpenActive(k)
  <2> DEFINE shown == IF k \in DOMAIN board THEN board[k].page ELSE Nil
  <2>1. board \in Mirrors /\ Ask(k, "ticket", 0, shown)
    BY <1>6 DEF OpenActive, LaneInv, LaneTypeOK
  <2>2. /\ shown \in Pages \cup {Nil}
        /\ k \in DOMAIN board => shown = PageOf(board[k], "ticket", 0)
    BY <1>2, <2>1 DEF PagesOf, PageOf
  <2> HIDE DEF shown
  <2>3. QED
    BY <2>1, <2>2, AskKeeps
<1>7. QED
  BY <1>3, <1>4, <1>5, <1>6

\* Main opens what the ticket has by then, or nothing.
LEMMA OpenKeeps == ASSUME LaneInv, OpenPage PROVE LaneInv'
<1> DEFINE page == Resolved(press.key, press.what, press.at)
           then == IF press.key \in DOMAIN mirror THEN mirror[press.key] ELSE Nil
           state == IF page = Nil THEN "refused" ELSE "opened"
<1>1. press # Nil /\ press \in Presses /\ mirror \in Mirrors
      /\ press' = [press EXCEPT !.page = page, !.state = state, !.then = then]
      /\ UNCHANGED <<mirror, board, chosen, mine, hidden, sort>>
  BY DEF OpenPage, LaneInv, LaneTypeOK
<1>2. press.what \in {"ticket", "pull-request", "link"}
  BY <1>1 DEF Presses
<1>3. then \in Tickets \cup {Nil} /\ (press.key \in DOMAIN mirror => then \in Tickets /\ then # Nil)
  BY <1>1, TicketsOfMirrors
<1>4. ASSUME page # Nil
      PROVE  /\ press.key \in DOMAIN mirror
             /\ page = PageOf(then, press.what, press.at)
             /\ page \in Pages
  <2>1. press.key \in DOMAIN mirror
    BY <1>4 DEF Resolved
  <2>2. page = PageOf(then, press.what, press.at)
    <3>1. CASE press.what = "ticket"
      BY <1>4, <2>1, <3>1 DEF Resolved, PageOf
    <3>2. CASE press.what = "pull-request"
      BY <1>4, <2>1, <3>2 DEF Resolved, PageOf
    <3>3. CASE press.what = "link"
      BY <1>4, <2>1, <3>3 DEF Resolved, PageOf
    <3>4. QED
      BY <1>2, <3>1, <3>2, <3>3
  <2>3. QED
    <3> HIDE DEF page, then
    <3>1. QED
      BY <1>2, <1>3, <1>4, <2>1, <2>2, PagesAreTheTickets
<1>5. state \in {"refused", "opened"} /\ (state = "opened" => page # Nil)
  OBVIOUS
<1> HIDE DEF page, then, state
<1>6. press' \in Presses
  <2>1. page \in Pages \cup {Nil}
    BY <1>4
  <2>2. QED
    BY <1>1, <1>3, <1>5, <2>1 DEF Presses
<1>7. press'.page = page /\ press'.state = state /\ press'.then = then
      /\ press'.what = press.what /\ press'.at = press.at /\ press'.from = press.from
      /\ press'.shown = press.shown
  BY <1>1 DEF Presses
<1>8. PressIsOfTicket'
  <2>1. press'.from # Nil => press'.shown = PageOf(press'.from, press'.what, press'.at)
    BY <1>1, <1>7 DEF LaneInv, PressIsOfTicket
  <2>2. press'.state = "opened" =>
           /\ press'.then \in Tickets /\ press'.then # Nil
           /\ press'.page = PageOf(press'.then, press'.what, press'.at)
           /\ press'.page # Nil
    BY <1>3, <1>4, <1>5, <1>7
  <2>3. QED
    BY <2>1, <2>2 DEF PressIsOfTicket
<1>9. LaneTypeOK'
  BY <1>1, <1>6 DEF LaneInv, LaneTypeOK
<1>10. QED
  BY <1>1, <1>8, <1>9 DEF LaneInv

\* The other steps press nothing.
LEMMA DrawingKeeps ==
    ASSUME LaneInv, \/ Sync \/ Read \/ Narrow \/ UNCHANGED laneVars
                    \/ \E column \in Columns : Heading(column)
    PROVE  LaneInv'
<1>1. UNCHANGED press
  BY DEF Sync, Read, Narrow, Heading, laneVars
<1>2. PressIsOfTicket'
  BY <1>1 DEF LaneInv, PressIsOfTicket
<1>3. mirror' \in Mirrors /\ board' \in Mirrors \cup {Nil} /\ mine' \in BOOLEAN
      /\ chosen' \in Projects \cup {Nil} /\ hidden' \in SUBSET Statuses
  BY DEF LaneInv, LaneTypeOK, Sync, Read, Narrow, Heading, laneVars
<1>4. sort' \in Orders \cup {Nil} /\ (sort' # Nil => board' \in Mirrors)
  <2>1. CASE \E column \in Columns : Heading(column)
    <3>1. PICK column \in Columns : board # Nil /\ sort' = NextSort(column) /\ board' = board
      BY <2>1 DEF Heading
    <3>2. NextSort(column) \in Orders \cup {Nil}
      BY DEF NextSort, Orders, LaneInv, LaneTypeOK
    <3>3. QED
      BY <3>1, <3>2 DEF LaneInv, LaneTypeOK
  <2>2. CASE Sync \/ Read \/ Narrow \/ UNCHANGED laneVars
    BY <2>2 DEF Sync, Read, Narrow, laneVars, LaneInv, LaneTypeOK
  <2>3. QED
    BY <2>1, <2>2
<1>5. QED
  BY <1>1, <1>2, <1>3, <1>4 DEF LaneInv, LaneTypeOK

LEMMA LaneInductive == LaneSpec => []LaneInv
<1>1. LaneInit => LaneInv
  BY DEF LaneInit, LaneInv, LaneTypeOK, PressIsOfTicket
<1>2. LaneInv /\ [LaneNext]_laneVars => LaneInv'
  BY PressKeeps, OpenKeeps, DrawingKeeps DEF LaneNext
<1>3. QED
  BY <1>1, <1>2, PTL DEF LaneSpec

-----------------------------------------------------------------------------
\* What is drawn and what is pressed keep their types.
THEOREM LaneTypeTheorem == LaneSpec => []LaneTypeOK
<1>1. LaneInv => LaneTypeOK
  BY DEF LaneInv
<1>2. QED
  BY <1>1, LaneInductive, PTL

\* A sorted lane has what is unknown last and equals in core's order, and what opens is a
\* page of the ticket that was pressed: the one drawn, unless the ticket has changed since
\* (lanes/sort.ts, services/links.ts).
THEOREM HonestTheorem == LaneSpec => []LaneIsHonest
<1>1. ASSUME LaneInv, sort # Nil, NEW i \in DOMAIN Rows, NEW j \in DOMAIN Rows, i < j
      PROVE  /\ Cell(Rows[i], sort.column) = Nil => Cell(Rows[j], sort.column) = Nil
             /\ Cell(Rows[i], sort.column) = Cell(Rows[j], sort.column) => Rows[i] < Rows[j]
  <2>1. Rows[i] \in Visible /\ Rows[j] \in Visible /\ Precedes(Rows[i], Rows[j])
    BY <1>1, SortReturnsRows DEF LaneInv, RowsAreInOrder
  <2>2. QED
    BY <1>1, <2>1, OrderIsHonest DEF LaneInv
<1>2. ASSUME LaneInv, press # Nil, press.state = "opened"
      PROVE  /\ press.page \in PagesOf(press.then)
             /\ press.from = press.then => press.page = press.shown
  <2>1. press.what \in {"ticket", "pull-request", "link"}
    BY <1>2 DEF LaneInv, LaneTypeOK, Presses
  <2>2. QED
    BY <1>2, <2>1, PagesAreTheTickets DEF LaneInv, PressIsOfTicket
<1>3. LaneInv => LaneIsHonest
  BY <1>1, <1>2 DEF LaneIsHonest
<1>4. QED
  BY <1>3, LaneInductive, PTL

-----------------------------------------------------------------------------
(* The whole desk: each part takes its own steps or none.                  *)

\* A behaviour of the desk is one of each of its parts.
LEMMA DeskHasParts ==
    DeskSpec => NotesSpec /\ WindowSpec /\ PreferencesSpec /\ ProjectsSpec /\ LaneSpec
<1>1. DeskInit => Init /\ WindowInit /\ PreferencesInit /\ ProjectsInit /\ LaneInit
  BY DEF DeskInit
<1>2. ASSUME [DeskNext]_deskVars
      PROVE  /\ [NotesNext]_vars /\ [WindowNext]_windowVars /\ [PreferencesNext]_prefsVars
             /\ [ProjectsNext]_projectsVars /\ [LaneNext]_laneVars
  <2>1. CASE UNCHANGED deskVars
    BY <2>1 DEF deskVars
  <2>2. CASE DeskNext
    <3>1. NotesNext \/ UNCHANGED vars
      BY <2>2 DEF DeskNext
    <3>2. WindowNext \/ UNCHANGED windowVars
      BY <2>2 DEF DeskNext
    <3>3. PreferencesNext \/ UNCHANGED prefsVars
      BY <2>2 DEF DeskNext
    <3>4. ProjectsNext \/ UNCHANGED projectsVars
      BY <2>2 DEF DeskNext
    <3>5. LaneNext \/ UNCHANGED laneVars
      BY <2>2 DEF DeskNext
    <3>6. QED
      BY <3>1, <3>2, <3>3, <3>4, <3>5
  <2>3. QED
    BY <1>2, <2>1, <2>2
<1>3. QED
  BY <1>1, <1>2, PTL DEF DeskSpec, NotesSpec, WindowSpec, PreferencesSpec, ProjectsSpec, LaneSpec

\* The types of all that the operator has in front of him.
THEOREM DeskTypeTheorem == DeskSpec => []DeskTypeOK
<1>1. NotesTypeOK /\ WindowTypeOK /\ PreferencesTypeOK /\ ProjectsTypeOK /\ LaneTypeOK
      => DeskTypeOK
  BY DEF DeskTypeOK
<1>2. QED
  BY <1>1, DeskHasParts, NotesTypeTheorem, WindowTypeTheorem, PreferencesTypeTheorem,
     ProjectsTypeTheorem, LaneTypeTheorem, PTL

=============================================================================
