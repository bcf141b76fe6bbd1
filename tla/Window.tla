------------------------------- MODULE Window -------------------------------
(***************************************************************************)
(* What the open window shows of what is stored: the operations that the   *)
(* window, the agents and the poll loop call, the events main derives from *)
(* them (main/push.ts, main/index.ts, main/service.ts, adapters/http.ts),  *)
(* and one entry of the query cache of the renderer, whichever it is       *)
(* (renderer/query.ts).  The entries do not look at each other.            *)
(*                                                                         *)
(* Main sends to the window over one ordered channel: events, answers to   *)
(* its reads, and answers to its writes.  A handler reads in one step, and *)
(* the answer is sent in the same one.                                     *)
(***************************************************************************)
EXTENDS Registry, Sequences, Naturals

CONSTANTS
    Called,    \* the names of the operations that are called
    MaxWrites  \* bound on the calls that write and on the ticks of the clock

ASSUME WindowAssumption == MaxWrites \in Nat

VARIABLES
    query,     \* the key of the cache entry, never changed
    store,     \* how often each table that the entry shows has been written
    drawn,     \* the same as the answer in the cache has it
    fetching,  \* "no", "asked" or "answered"
    toWindow,  \* sent and not received
    calls,     \* calls of operations that have been made and have not ended
    made,      \* how many of both there have been
    missed     \* ghost: those of them last written by what the entry does not hear of,
               \* since a sync last told the window

windowVars == <<query, store, drawn, fetching, toWindow, calls, made, missed>>

\* The reads of App, ConnectionNotice and the notes dialog, which are keyed by the
\* operation, and the two of the settings screens, which are not.
BoardKeys == {"projects.list", "work.list", "sessions.list", "notes.questions",
              "focus.get", "history.list", "notes.counts", "settings.get",
              "sync.status", "connections.list", "notes.list"}
SettingsKeys == {"connections", "projects"}
Keys == BoardKeys \cup SettingsKeys

\* What the queryFn of a key calls.
AsksFor(key) ==
    CASE key = "connections" -> "connections.list"
      [] key = "projects" -> "projects.list"
      [] OTHER -> key

Watched == Operation(AsksFor(query)).reads

Channels == {"sync:started", "sync:finished", "freshness:tick", "outbox:changed",
             "sessions:changed", "focus:changed", "updates:changed", "notes:changed",
             "prompts:changed", "history:changed"}

Mutating == {op \in Operations : op.name \in Called /\ Mutates(op)}

\* `by` says where a call comes from: "window" is the board and its screens, "theme"
\* the theme provider, which looks at no answer, "poller" the poll loop, "main" the
\* tracking of the window's place, and "agent" the loopback adapter.
Callers == {"window", "theme", "poller", "main", "agent"}

\* The dispatch of these is wrapped in `observing`.
Observed == {"window", "theme", "poller"}

\* The surface of a call.
Via(by) == IF by = "agent" THEN "http" ELSE "ipc"

Versions == [Watched -> Nat]
Events == [what : {"event"}, channel : Channels]
Answers == [what : {"answer"}, seen : Versions]
Replies == [what : {"reply"}, op : Mutating, ok : BOOLEAN]
Dropped == [what |-> "dropped"]
Messages == Events \cup Answers \cup Replies \cup {Dropped}
Calls == [op : Mutating, by : Callers, ran : BOOLEAN, ok : BOOLEAN]

WindowTypeOK ==
    /\ query \in Keys
    /\ store \in Versions
    /\ drawn \in Versions
    /\ fetching \in {"no", "asked", "answered"}
    /\ toWindow \in Seq(Messages)
    /\ calls \subseteq Calls
    /\ made \in 0..MaxWrites
    /\ missed \subseteq Watched

WindowInit ==
    /\ query \in Keys
    /\ store = [t \in Watched |-> 0]
    /\ drawn = store
    /\ fetching = "no"
    /\ toWindow = << >>
    /\ calls = {}
    /\ made = 0
    /\ missed = {}

-----------------------------------------------------------------------------
(* Main: what an operation implies, having run.                            *)

Event(channel) == [what |-> "event", channel |-> channel]
Pushed(channels) == [i \in DOMAIN channels |-> Event(channels[i])]

\* Mutant: every operation that mutates has an event named for it.
AnnouncesEach(op) == IF Mutates(op) THEN <<"other:changed">> ELSE << >>

\* afterDispatch, by the prefix of the name, which is that of the file: a read
\* announces nothing; success or failure does not matter.
AfterDispatch(op) ==
    IF ~Mutates(op) THEN << >>
    ELSE CASE op \in OutboxOperations -> <<"outbox:changed">>
           [] op \in SessionsOperations -> <<"sessions:changed">>
           [] op \in FocusOperations -> <<"focus:changed">>
           [] op \in UpdatesOperations -> <<"updates:changed">>
           [] op \in NotesOperations -> <<"notes:changed">>
           [] op \in PromptsOperations -> <<"prompts:changed">>
           [] op \in HistoryOperations -> <<"history:changed">>
           [] OTHER -> << >>

\* syncConnectionOf is defined for sync.now alone.
IsSync(op) == op.name = "sync.now"

\* `observing` before and after the call; the loopback adapter has only the second
\* half, and only afterDispatch of it; the tracking of the window has neither.
Before(op, by) == IF by \in Observed /\ IsSync(op) THEN <<"sync:started">> ELSE << >>
After(op, by) ==
    CASE by = "main" -> << >>
      [] by = "agent" -> AfterDispatch(op)
      [] OTHER -> (IF IsSync(op) THEN <<"sync:finished">> ELSE << >>) \o AfterDispatch(op)

-----------------------------------------------------------------------------
(* The renderer.                                                           *)

\* Mutant: the board is fetched again when a sync starts.
OnStart(channel) ==
    CASE channel = "sync:started" -> Keys
      [] channel = "outbox:changed" -> {"outbox.list", "outbox.pending"}
      [] channel = "sessions:changed" -> {"sessions.list"}
      [] channel = "focus:changed" -> {"focus.get"}
      [] channel = "notes:changed" -> {"notes.questions", "notes.counts"}
      [] channel = "history:changed" -> {"history.list"}
      [] OTHER -> {}

\* usePushInvalidation: the keys each event invalidates.  No entry has the key
\* that freshness:tick names.
Invalidates(channel) ==
    CASE channel = "sync:finished" -> Keys
      [] channel = "outbox:changed" -> {"outbox.list", "outbox.pending"}
      [] channel = "sessions:changed" -> {"sessions.list"}
      [] channel = "focus:changed" -> {"focus.get"}
      [] channel = "notes:changed" -> {"notes.questions", "notes.counts"}
      [] channel = "history:changed" -> {"history.list"}
      [] channel = "freshness:tick" -> {"__tick"}
      [] OTHER -> {}

\* What the board and its screens invalidate when a write of theirs has succeeded.
OwnInvalidates(op) ==
    CASE op.name \in {"notes.create", "notes.update", "notes.delete"} ->
            {"notes.list", "notes.counts", "notes.questions", "work.list"}
      [] op.name = "settings.update" -> {"settings.get"}
      [] op.name = "connections.remove" -> {"connections"}
      [] op.name \in {"projects.upsert", "projects.remove"} -> {"projects"}
      [] OTHER -> {}

\* After a conflict the dialog fetches its list again.
OnFailure(op) == IF op \in NotesOperations THEN {"notes.list"} ELSE {}

-----------------------------------------------------------------------------
\* What each caller may call: the window through the preload, an agent through a
\* tool, the poll loop sync.now, and the others one operation.
Callable(by) ==
    CASE by = "window" -> PreloadOperations
      [] by = "agent" -> Tools
      [] by = "poller" -> {"sync.now"}
      [] by \in {"theme", "main"} -> {"settings.update"}

Call(op, by) ==
    /\ op.name \in Callable(by)
    /\ Dispatched(op, Via(by))
    /\ made < MaxWrites
    /\ made' = made + 1
    /\ \A call \in calls : call.op # op \/ call.by # by
    /\ calls' = calls \cup {[op |-> op, by |-> by, ran |-> FALSE, ok |-> FALSE]}
    /\ toWindow' = toWindow \o Pushed(Before(op, by))
    /\ UNCHANGED <<query, store, drawn, fetching, missed>>

\* The tables of which each entry hears by an event, whoever has changed them and
\* whether the call returns or throws.
HeardByEvent ==
    CASE query = "sessions.list" -> {"sessions"}
      [] query = "focus.get" -> {"focus"}
      [] query = "history.list" -> {"history"}
      [] query \in {"notes.questions", "notes.counts"} -> {"notes"}
      [] OTHER -> {}

\* Those of which it hears by the answer to a call, if the board or a screen of it
\* made the call and it succeeded.
HeardByReply ==
    CASE query = "settings.get" -> {"settings"}
      [] query = "connections" -> {"connections"}
      [] query = "projects" -> {"projects"}
      [] OTHER -> {}

\* The entry is to hear at once of what the call does to the table.  The rest reaches
\* it when a sync that main announces has finished: what a join takes from several
\* tables, tables that no event is about, and what is stored by a call that fails,
\* by the theme provider or by main.
HearsOf(call, t) ==
    \/ t \in HeardByEvent
    \/ t \in HeardByReply /\ call.by = "window" /\ call.ok

\* The handler: it writes what it writes and returns, or throws, having written any
\* part of it: a claim that is refused has swept, and of a connection the credential
\* goes before the row.
Runs(call, wrote, ok) ==
    LET ended == [call EXCEPT !.ran = TRUE, !.ok = ok] IN
    /\ ~call.ran
    /\ ok => wrote = call.op.writes
    /\ calls' = (calls \ {call}) \cup {ended}
    /\ store' = [t \in Watched |-> IF t \in wrote THEN store[t] + 1 ELSE store[t]]
    /\ missed' = (missed \cup (Watched \cap wrote)) \ {t \in wrote : HearsOf(ended, t)}
    /\ UNCHANGED <<query, drawn, fetching, toWindow, made>>

\* Mutant: what has failed is not announced.
OnSuccessOnly(call) ==
    IF ~call.ok THEN IF call.by = "window"
                     THEN <<[what |-> "reply", op |-> call.op, ok |-> FALSE]>> ELSE << >>
    ELSE Pushed(After(call.op, call.by))
         \o (IF call.by = "window"
             THEN <<[what |-> "reply", op |-> call.op, ok |-> TRUE]>> ELSE << >>)

\* `finally`: the events, and then the answer to the window when it was its call.
Sent(call) ==
    Pushed(After(call.op, call.by))
    \o (IF call.by = "window"
        THEN <<[what |-> "reply", op |-> call.op, ok |-> call.ok]>> ELSE << >>)

Ends(call) ==
    /\ call.ran
    /\ calls' = calls \ {call}
    /\ toWindow' = toWindow \o Sent(call)
    /\ missed' = IF call.by \in Observed /\ IsSync(call.op) THEN {} ELSE missed
    /\ UNCHANGED <<query, store, drawn, fetching, made>>

\* setInterval in push.start
Tick ==
    /\ made < MaxWrites
    /\ made' = made + 1
    /\ toWindow' = Append(toWindow, Event("freshness:tick"))
    /\ UNCHANGED <<query, store, drawn, fetching, calls, missed>>

\* A fetch reaches main, which reads and answers.
Serve ==
    /\ fetching = "asked"
    /\ Dispatched(Operation(AsksFor(query)), "ipc")
    /\ fetching' = "answered"
    /\ toWindow' = Append(toWindow, [what |-> "answer", seen |-> store])
    /\ UNCHANGED <<query, store, drawn, calls, made, missed>>

Cancelled(messages) ==
    [i \in DOMAIN messages |->
        IF messages[i].what = "answer" THEN Dropped ELSE messages[i]]

\* An invalidation cancels a fetch that is under way, whose answer is dropped.
Invalidate(keys, rest) ==
    IF query \in keys
    THEN fetching' = "asked" /\ toWindow' = Cancelled(rest)
    ELSE toWindow' = rest /\ UNCHANGED fetching

\* What a message invalidates.
Invalidated(m) ==
    CASE m.what = "event" -> Invalidates(m.channel)
      [] m.what = "reply" -> IF m.ok THEN OwnInvalidates(m.op) ELSE OnFailure(m.op)
      [] OTHER -> {}

Receive ==
    /\ toWindow # << >>
    /\ IF Head(toWindow).what = "answer"
       THEN /\ drawn' = Head(toWindow).seen
            /\ fetching' = "no"
            /\ toWindow' = Tail(toWindow)
       ELSE Invalidate(Invalidated(Head(toWindow)), Tail(toWindow)) /\ UNCHANGED drawn
    /\ UNCHANGED <<query, store, calls, made, missed>>

WindowNext ==
    \/ \E op \in Mutating, by \in Callers : Call(op, by)
    \/ \E call \in calls :
        Ends(call) \/ \E wrote \in SUBSET call.op.writes, ok \in BOOLEAN : Runs(call, wrote, ok)
    \/ Tick \/ Serve \/ Receive

WindowSpec == WindowInit /\ [][WindowNext]_windowVars

-----------------------------------------------------------------------------
(* What is checked.                                                        *)

Quiet == toWindow = << >> /\ fetching = "no" /\ calls = {}

\* When nothing is under way the window shows everything that was there when the
\* last announced sync finished and every later change it is to hear of, whoever
\* made it and though the call has failed (push.ts: an agent's change reaches an open
\* window as the operator's does, and a claim that threw may have moved the row).
\* What it may lack is a table whose last writer it does not hear of.
QuietMeansCurrent ==
    Quiet => \A t \in Watched : drawn[t] = store[t] \/ t \in missed

=============================================================================
