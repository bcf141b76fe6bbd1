# Ground Control: a TLA+ verification project

Ground Control is a local desktop application that shows one board of a
developer's Jira tickets, keeps notes and history about them, and hands actions
the operator has confirmed to coding agents over MCP. This directory holds TLA+
models of it, the TLC configurations that check them on small instances,
and TLAPS proofs of their safety properties for every instance.

Contents: [the system](#the-system), [the modules](#the-modules),
[what the runs show](#what-the-runs-show), [bounds](#bounds),
[fairness](#fairness), [proofs](#proofs),
[disagreements found](#disagreements-found),
[not modelled](#not-modelled), [plan](#plan).

## The system

The Electron main process is the only process that owns data. It opens two
SQLite databases, `mirror.db` (copies of provider data, disposable) and
`authored.db` (what the operator and the agents wrote, precious), starts a
loopback HTTP server for agents and CLI, and writes a handshake file that says
where it is. better-sqlite3 is synchronous: a handler that awaits nothing is
one atomic step of the event loop, and what interleaves is whatever awaits a
provider, together with other processes.

| Component | State | Operations | Hard part |
|---|---|---|---|
| Action outbox (`services/outbox.ts`, `services/confirmation.ts`, `store/authored/outbox.ts`) | tokens in memory; the table `outbox_actions` with a JSON history | mint, enqueue, pending, claim, complete, fail, cancel, sweep | one-time consent, leases, late reports, restarts between the two stores |
| Agents (`packages/mcp`) | what the last answer said | the same operations over loopback HTTP | stale lists, lost answers, kills, names that are not identities |
| Sync (`services/sync.ts`, `runtime/providers.ts`) | a run's list, credentials and clock | `sync.now` | several awaits per run, overlapping runs, edits meanwhile |
| Connections (`services/connections.ts`) | rows in the mirror, secrets in the keychain | add, remove, test | two stores without a transaction |
| Freshness (`registry/envelope.ts`, `services/board.ts`) | last success and failure per connection | views, the worst of a lane | saying how old the data is, honestly |
| Poll scheduler (`runtime/scheduler.ts`) | failures and last poll per connection, a timer | tick, observing, start and stop | backoff, passes that await, refreshes it did not start |
| Push and query cache (`desktop/src/main/push.ts`, `renderer/query.ts`) | cached queries | events, invalidation | a change without an event, a read that crosses it |
| Notes (`services/notes.ts`, `store/authored/notes.ts`, `NotesModal.tsx`) | rows with revisions; the dialog and its list | create, update, remove, list | stale revisions, a list refreshed under an editor |
| Ticket history (`services/history.ts`, `panels/TicketHistory.tsx`) | one entry per ticket; the panel's draft | record, revise, remove | append against rewrite, revisions that start again |
| Sessions (`services/sessions.ts`) and the board over them (`correlation/*`) | a row per session | start, heartbeat, activity, end | clocks of others, late beats |
| Focus, updates, prompts (`services/*`) | a pointer, two pruned lists | set, post, record, delete | ties, two prunes that must agree |
| Settings and projects (`services/settings.ts`, `store/authored/config.ts`, `renderer/settings/*`) | one row, a table, a form | get, update, upsert, remove | several writers of one row, gestures before the first read |
| Lane and links (`renderer/lanes/*`, `main/links.ts`, `services/links.ts`) | sort, filters | press, resolve, open | a board older than the mirror |
| Store opening (`store/open.ts`, `store/migrate.ts`, migrations) | schema versions, tables | migrate | crashes between steps, foreign keys during a rebuild |
| Handshake (`runtime/handshake.ts`, `main/service.ts`, `mcp/src/client.ts`) | a file, a lock | write, read, remove | two instances, stale files, reused pids |
| Launcher (`packages/launcher`) | a cache directory | download, verify, unpack, probe, move into place | racing launchers, kills |
| Jira provider (`providers/jira`, `providers/http.ts`) | one sync's lookups and pages | search, pull requests, changelogs | requests in flight, partial failures |

Interactions: the window calls operations over IPC, agents and the CLI over
HTTP; both go through one registry, which checks who may call what. The
scheduler calls `sync.now` through the same dispatch as the window but sees
only the window's refreshes. The sync reads connections and secrets when it
starts, and writes the mirror when a provider has answered. The board is
computed from the mirror and `authored.db` when it is asked for, and pushed
events tell the window to ask again.

What makes each component correct:

- *Outbox*: nothing is in the queue that the operator did not confirm, for
  exactly what it says, once; an action has one holder; its history tells how it
  came to its state; what lapses comes back.
- *Agents*: two of them never both believe that an action is theirs; an agent
  that reports in time is believed; what waits is taken.
- *Sync and freshness*: the age shown is never younger than the data, wherever a write is cut
  short, with one exception that is [below](#disagreements-found); a failure
  is shown; identity and tickets end up being those of the account the
  connection now uses.
- *Connections*: the operator alone decides which there are; no secret is left
  that nothing refers to.
- *Scheduler*: a connection that works never looks stale; one that fails is
  tried again in bounded time; nothing is asked twice for one interval.
- *Notes and history*: nobody loses what another has written and he has not read.
- *Push and cache*: once nothing is under way, the window is current in all it is to hear of.
- *Sessions and board*: the ball is never with a dead agent; a silence is marked.
- *Updates and prompts*: what is pruned is what is oldest, of its own session.
- *Settings and projects*: what was arranged is found again; a project is bound to
  an account that its form has shown.
- *Lane and links*: a sorted lane tells the truth; a press opens what was pressed.
- *Stores*: an upgrade loses nothing, wherever it is killed; one that is not interrupted
  leaves no secret behind. (One that is killed between its migration and the clean-up does.)
- *Handshake*: an app that is up is found, and a call fails only without one.
- *Launcher*: only a whole, verified and probed runtime is started.
- *Jira*: a ticket shows its own pull requests, sprint and age, or says unknown, as far as
  the answers tell.

`PROJECT.json` lists all components with their status, every hazard with its
line and the properties about it, and for every definition that models code the
lines it models.

## The modules

| Module | Models | Extends or instantiates |
|---|---|---|
| `Dispatch` | what the outbox promises: gestures, actions, holders; no clock | |
| `Outbox` | tokens, table and operations of the outbox | instantiates `Dispatch` |
| `OutboxAgents` | agent processes around it | extends `Outbox` |
| `OutboxProofs` | theorems | extends `OutboxAgents`, TLAPS |
| `Sync` | runs of `runSync`, connections, keychain, freshness | |
| `SyncProofs` | theorems | extends `Sync`, TLAPS |
| `Scheduler` | the poll loop in time | |
| `SchedulerProofs` | theorems | extends `Scheduler`, TLAPS |
| `Register` | what revisions promise: cells that are replaced only by who holds them | |
| `Notes` | the table, agents and the dialog | instantiates `Register` |
| `NotesProofs` | theorems | extends `Notes`, TLAPS |
| `History` | entries, agents and the panel | |
| `Registry` | every operation: who may call it, what it reads and writes | |
| `Window` | calls, events and one entry of the query cache | extends `Registry` |
| `Sessions` | the rows and the clock | |
| `Board` | severity, ball and staleness | extends `Sessions` |
| `Posts` | pointer, updates, prompts | |
| `RecordsProofs` | theorems | extends `History`, `Posts`, TLAPS |
| `Preferences` | the settings row, the window and the board's copies | |
| `Projects` | accounts, projects, and the screen with its form | |
| `Lane` | rows, sort, filters, presses and what they open | |
| `Stores` | both database files and a launch over them | |
| `Handshake` | processes of the app, file, lock, client | |
| `Launcher` | launchers over one cache | |
| `StartProofs` | theorems | extends `Stores`, `Handshake`, `Launcher`, TLAPS |
| `Jira` | one sync of the provider, request by request | |
| `MCOutbox`, `MCOutboxAgents`, `MCSync`, `MCScheduler` | model values for the runs | extends the module it names |
| `MCDesk` | `Notes`, `Window`, `Preferences`, `Projects`, `Lane`, one of which moves | extends them |
| `MCConsole` | `Board`, `Posts`, `History`, `Launcher`, `Stores`, `Handshake`, `Jira`, one of which moves | extends them |
| `ScreenProofs` | theorems about the parts of `MCDesk`, and about the whole | extends `MCDesk`, `NotesProofs`, TLAPS |
| `BoardProofs` | theorems about `Board` and `Jira`, and about the whole of `MCConsole` | extends `MCConsole`, `RecordsProofs`, `StartProofs`, TLAPS |

`MCDesk` and `MCConsole` put parts that share no state side by side: the variable
`part` says which of them moves in a behaviour, so that the states of a run are the
sum of theirs and one run checks them all. Parts that do interact are composed where
they are modelled: `Outbox` with its agents, `Sync` with connections, keychain and
freshness, `Board` with `Sessions`, `Notes` and `History` with the cache of the window.

**Outbox.** `issued`, `bound` and `expiresAt` are the map in
`confirmation.ts`; `rows` is the table, with the state `"absent"` for an id
without a row; `now` is `ctx.now()`; `origin` is a ghost. Each operation is one
action, as no handler awaits anything: `Mint`, `Enqueue`, `EnqueueRefused`
(refused, and the token is gone), `EnqueueFailed` (the token was consumed and the
INSERT threw), `Claim` (the sweep of lapsed claims over the *whole* table and
then the conditional UPDATE, which may match nothing while the sweep stays),
`Complete`, `Fail`, `Cancel`, `Sweep`, `Restart` (the table survives, the
tokens do not) and `Tick`. `Sweep` carries the constant `SweepScheduled`,
because the operation exists but nothing in the product calls it. The results and
reasons of actions, and the wording of history entries, are left out.

**OutboxAgents.** `seen` is the answer of the last `grndctrl_pending_actions`,
`task` the claim an agent knows it has won. Each answer to a claim or report
may be lost after the application has committed. `Killed` forgets what a
process knew. `NameOf` gives the name a process sends: `x-grndctrl-agent` is
optional and set by hand, so it need not be injective.

**Sync.** A run is a record in `runs`: its start, what is left of the viewer
loop (with each row *as listed*) and of the ticket loop (with the account its
provider was built for), and how far the current fetch has come. One step takes
a run from one answer of the provider to the next await, since what is in between
is synchronous; `Resume` finds that await, passing over the elements without a
provider and recording failures for those that were due. The remote tracker is
represented by the time at which it was read. `AddInterrupted` and
`RemoveInterrupted` are a crash, or an error, between keychain and database. Tickets and
the date of their success are two commits (`sync.ts` 246, 247): `HistoryAnswers` makes
both, `HistoryUndated` only the first, after which the second is refused and recorded as a
failure, or that is refused too and the run ends, or the process dies. `FetchRejected` is
a failed fetch whose record is refused. The ghost `overtaken` marks tickets of a run that
was cut short there after a run that began later had recorded its success.
`View` and `LaneFresh` are `freshnessView` and `freshnessFor`.

**Scheduler.** Every instant of the code is represented by the time since, so
that the model runs for ever in finitely many states; ages are capped above
every threshold they are compared with. `Elapse` is the only step in which time
passes, and not beyond a due timer or the moment a run must have ended. Between
`BeginPass` and `EndPass` the loop holds the list and the clock it read at the
start (`todo`, `lag`), as `tick` does, while the world changes; `Wanted` is its decision about one id.
`SkipPass` is a pass that cannot read connections or settings and leaves everything as it
is until the next; `spare` is what is left of the time that this may go on. The window's
`sync.now` passes through `observing` (`WindowEnds`), an agent's does not
(`AgentEnds`). A run ends with one outcome per connection it covers, of which
`"partial"` (tickets replaced, history missing or truncated) is the interesting
one. Only refreshes of everything are asked for by others, since the window has no
control for a single connection (`App.tsx:269`), and an agent's scoped call touches
no entry. `tickMs` and the delay before the first pass are one constant.

**Notes.** `notes` is the table; `read` is what each agent last got in an answer,
`list` and `stale` the window's query, `editing` and `waiting` the dialog. `Update` and
`Remove` are the conditional statements of `store/authored/notes.ts`; an empty patch still
advances the revision. `SyncFinished` is the invalidation of everything that
`query.ts` does at the end of a sync. `base` and `over` are ghosts that remember what
was before the operator's eyes and what the last writer of a row had read.
`Register` knows no revisions; `RevisionsSuffice` is the refinement.

**History.** `Record` is the whole transaction of `record` (merge of the notes, COALESCE
of the snapshot, event); `Save`, `Delete` are conditional on the revision. The panel
holds the revision in its draft, `Answered` is its answer, `Refetched` the query.

**Registry, Window.** `Operations` is the registry as `build.ts` composes it, a record
for each operation. `Window` follows one key of the cache, any of them: `Call`, `Runs` and
`Ends` are an operation called by the board and its screens, the theme provider, an agent, the
poll loop or main itself (`Callers`). A handler that throws has written any part of what it
writes: a claim that is refused has swept, and a removed connection loses its credential
before its row. `HearsOf` says of which tables a key is to hear at once: by an event,
whoever calls and whether the call returns or throws, or by the successful answer to a call
of the board's own. `missed` is a ghost: the tables whose last writer the key does not hear of. `Sent` is what its end puts
on the way to the window, the event main derives from it (`AfterDispatch`) and the reply
to the window's own call; `Serve` and `Receive` are the ordered channel. A fetch that is
cancelled still has its answer under way, which nobody reads any more (`Dropped`).

**Sessions, Board.** `Stamp` is the clamping of a reported time between what is stored
and the receipt. `Board` has no state: `SeverityOf` and `BallInCourt` are
evaluated for every row the mirror may hold. `heard` and `worked` are ghosts in the
application's own time.

**Posts.** An insertion and the prune after it are one action, with the order by
time and random id. `posted`, `recorded`, `deleted` are ghosts.

**Preferences.** `row` is the settings row, `toMain` the patches on their way to it,
`asked` the reads on theirs (each by the number of patches ahead of it, as IPC keeps the
order), `toBoard` the answers. `cached` is the query, `view` what the board shows, `touched`
the refs that keep a late read from undoing a gesture, `window` the Electron window with the
400 ms timer of `persistence.ts`. `Store`, `Answer` and `Hear` move the messages; `List` is
an answer to `projects.list`, `Refetch` an invalidation, whose cancelled fetch is still
answered (`Unfetched`).

**Projects.** `offered` and `listed` are the two queries of the screen, `form` the mounted
form with the account it has in its state, `saves` submissions under way, which `Save`
stores and `SaveRefused` does not. The ghost `shown` is what accounts the form has shown: those on
offer when it was mounted or when one was picked, and the edited project's own, which
may have been removed since (`Projects.tsx` 141).

**Lane.** `mirror` is what is stored and `board` what the window has read. `Visible` is
`filterWork` with the status filter, `Rows` what `applySort` makes of it: `Goes` is its
comparison and `Precedes` the order that a stable sort by it has. A press (`OpenRow`,
`OpenPull`, `OpenLink`, `OpenActive`) names a ticket and what of it is wanted; `OpenPage`
is main, which looks it up in `mirror` and refuses what is not https or, for a link,
what is not in the description. A page is a number.

**Stores.** One migration is one step, `Die` may come between any two, and a launch goes on
from the version it finds. `Enforced` is the switching off of foreign keys around a
rebuild; `Orphans` the references that are read before migration 4.

**Handshake.** `RequestLock`, `Listen`, `Clear`, `Create`, `Write`, `Close`, `Exit`, each one call
on file system or socket; `Kill` and `Recycle` at any time; `Read` and `Send` are a
client's call.

**Launcher.** `pc` says where each launcher is; one call on the file system is one
step, `Dies` may come between any two, `Wear` changes the world between launches.

**Jira.** `Take`, `SummaryAnswered`, `SummaryUncounted`, `DetailAnswered`, `PullsFailed` are
the workers of `mapBounded`; `FieldsAnswered`, `SearchAnswered`, `PageDone`, `LogsAnswered` the
sync around them, each with its failure. An answer that succeeds may hold less than there
is: of pull requests any part (`Excerpts`), as the code does not read the `errors` beside the
detail, and of changelogs any part (`Written`), as no next page is followed. The ghosts
`partial` and `shortened` are the issues of which that happened. A changelog is filed under
what the answer calls its issue (`LogName`): a site names issues there by key or by id, and
the code takes either for the key. The time of a change is a text, compared as text:
`at` is its place in that order and `instant` when it was. The two folds of the code are written by what they
return, so that they can be proved about: `CurrentSprint` takes the last entry of the best
rank, and `OrderPullRequests` puts each pull request at the place that the number of those
ahead of it gives (`Ahead` is the stable sort, `OfUrl` drops what has an earlier one of its
URL).

## What the runs show

| Run | Question | Result |
|---|---|---|
| `outbox` | consent, history, claims, terminal states, the refinement of `Dispatch`, and that lapsed claims return while somebody claims | holds, 64,457 states |
| `outbox_agents` | exclusive leases, reports by the claimant, honoured leases, nothing waits for ever | holds, 747,710 states |
| `sync` | type, honest age, no stranded secret, identity settles | holds, 148,627 states |
| `sync_lane` | fresh means fresh, with two connections in the lane, for all there is a record of | holds, 2.7 million states |
| `scheduler` | healthy stays fresh, tried again, not asked twice | holds, 2.2 million states |
| `desk` | writers overwrite what they have read, a quiet window is current in what it hears of, arrangements are kept, a form submits an account it has shown, a lane and its presses are honest | holds, 673,577 states |
| `console` | sessions and board, posts, history and panel, launcher, upgrades, handshake, Jira | holds, 227,526 states |
| `outbox_lapsed_claim` | a lapsed claim returns when agents claim only what they see | violated |
| `sync_removed_connection` | only the operator decides which connections there are | violated |
| `notes_clobber` | the operator's save never replaces a text that was not shown to him | violated |
| `projects_unbound` | a project saved while there is an account is bound to one | violated |
| `press_opens_other` | a number opens the pull request it names | violated |

Every property is stated, with the code it is about, above its definition, and
the mutants in the modules (each marked "Mutant") are bugs that break it.
`outbox` contains `Sweep`; `outbox_agents` does not, as in the product.

## Bounds

- *Outbox*: two tokens, two ids, one agent name and the operator, a request
  that may be raised and one that may not. Two rows are needed for a sweep that
  moves one row while another is claimed, two tokens for a confirmation spent on
  the wrong request while the other is open. Lease and window last one unit, the
  pending limit two, and the clock stops at `MaxTime` = 2: a lease can end, be
  claimed again at that very instant, and an action can expire. The proofs lift all
  these bounds for the safety properties.
- *OutboxAgents*: two processes, two names, one kill, and `NameOf` injective.
- *Sync*: two runs at a time (overtaking needs two), one connection with two
  accounts (re-authorised) in `MCSync.cfg`, two connections in
  `MCSyncLane.cfg`; two pages; `MaxTime` = 2; `MaxEdits` = 2 bounds the operator's
  edits. Proofs lift them for all safety properties.
- *Scheduler*: two connections, of which one has a project, one refresh each by window and agent
  at a time; interval 3, ticks and runs of one unit, one doubling, and a ceiling of
  the backoff at 5, below it, and `Outage` = 1: one pass in a row may be skipped. Between
  the start of one poll of a connection that works and the end of the next lie
  the poll, the interval, the pass that just missed it, the ticks and the pass that
  polls it: at most `Interval + TickTime + Outage + 2 * n * RunTime - 1` for n
  connections, 8 here, and `StaleAfter` is 9. The product's numbers (an interval of at
  least 30 s, ticks of 15 s) satisfy the relation while the requests of two
  passes take less than 45 s together; nothing in the code enforces that.
- *Notes*: one note, two agents and the operator, three texts (written, and two that
  race), revisions up to 3; symmetric in texts and agents.
- *Window*: two calls under way or made, so that each may cross the other's event and the
  read it causes; one operation for each way of being heard of.
- *Preferences*: two gestures, one fold, chip and status, two displays: two saves in the
  air with one read behind them. *Projects*: two accounts, one code, one submission
  under way, since every submission reads the form anew, and it may be refused.
- *Lane*: three tickets, one without a project, points or pull requests, and three mirrors:
  before a sync, after one that reordered and grew the pull requests and removed a
  link, and without the first ticket.
- *Sessions, Board*: one session, four instants, intervals of one and two,
  stalled after two. A second session is in the proofs.
- *Posts*: two sessions of one agent, three ids, one kept, two instants. *History*: one
  ticket, two lives, two pieces of notes, three revisions.
- *Launcher*: two launchers, five hosts, one change of the world. *Stores*: from nothing
  and from the last release with code hosts, with every payload of the settings and every
  link of a session to a project.
  *Handshake*: three processes, so that a third can meet the file of the first and
  the lock of the second. *Jira*: three issues in pages of two, two requests at a time,
  batches of two, six kinds of answer; a fourth issue with a summary that gives no count and
  with times that do not sort as they fell; ten sites, of which two name changelogs by id.

The proofs lift these bounds for every safety property of every part.

Deadlock is checked in the runs of outbox, sync and scheduler, where a restart is always
possible. In `desk` and `console` writes, gestures and clocks are bounded and the parts
really stop.

## Fairness

- `Outbox!FairSpec`: weak fairness of "somebody claims something". This is what
  `outbox.ts:174` relies on ("needs no scheduler to be correct"); the run
  `outbox_lapsed_claim` shows what happens when agents do only what their tools
  tell them.
- `OutboxAgents!FairAgentsSpec`: time passes, and each process goes on polling,
  claiming what it saw and reporting, as `mcp/src/tools/outbox.ts` instructs.
  Nothing is assumed of operator, restarts or kills.
- `Sync!FairSpec`: a run under way goes on (WF); each connection is started on
  again and again, and a provider or keychain that is asked again and again
  sometimes answers, and the mirror then takes both commits (SF, as overlapping runs and
  failures disable the steps in between). The first part is what the scheduler does, and `TriedAgain` bounds.
- `MCConsole!ConsoleFair`: the window refetches a query that has been invalidated (WF of
  `Refetched`), as the query client does for what is mounted. `PanelCatchesUp` rests on
  it and on nothing else: that it was told is the code's part.
- `Scheduler` assumes none: its promises are about bounded time and are
  invariants.

## Proofs

All proofs are checked by tlapm with Z3, Zenon and LS4. They hold for all values of the
constants that satisfy the assumption named in the module of the component
(`OutboxAssumption`, `SyncAssumption`, `NotesAssumption` and so on), which says no more
than what kind of values they are. (`PowersAssumption` of `Scheduler` is a fact of
arithmetic: that powers of two are positive, for which the provers would need induction.) Where a theorem needs more, it is a hypothesis of that
theorem, and it is named below.

`OutboxProofs`. `TypeCorrect`: `Spec => []TypeOK`. `ConsentTheorem`:
`ConsentBacked` is made inductive by what it does not say about tokens and rows
that are not there: a token that is open has been bound and has an expiry, it is
nobody's origin, and an absent row has no origin. `AuditTheorem` and `ClaimsTheorem`:
`HistoryCoherent` and the two halves of `ClaimsAccounted` are proved together:
that a claim's end is proper needs the columns to agree with the history (the
holder the code compares is the actor of the last entry), the columns agree only
because every transition appends its entry, and the dates need that the last
entry is not after `now`. The lemmas about a single row (moved, revived, swept)
are cited by the steps of all actions. `AppendOnlyTheorem` is an action property
from the same invariant. `DispatchTheorem`: `Spec => ImplementsDispatch`, the
refinement, as a step simulation: a claim is a release of every lapsed row and
perhaps one take, a report is an end, a restart is a stutter. It needs `HoldersKnown`
beside the invariant: whoever holds a row is one of the callers `Dispatch` knows.

On agents, in the same module: `AgentsUseOutbox` shows that agents only ever go through the outbox's own
operations (`AgentsSpec => Spec`), so that every theorem above holds among them,
whatever is lost or killed. `ClaimantTheorem`, `HonouredTheorem` and
`ExclusiveTheorem` have the hypothesis `NamesDiffer`: no two processes share a name. The
code compares names and the name is configured by hand, so the hypothesis is the
operator's to meet; without it the claims fail (see
[disagreements](#disagreements-found)). Their invariant `AInv` says what an agent's
memory is worth: as long as the lease it read has not ended, either the row is still
its claim with that lease, or it has itself reported it and not heard the answer.

`SyncProofs`. `SyncTypeCorrect`; `HonestAgeTheorem` from the invariant that in
every run `start <= read` once a page has arrived and `start <= now`, so that
whichever run writes last, its own start and its own read go into the mirror
together. Where the second of the two commits is missing, the date is an earlier success's,
and it is of a run that started no later than the tickets were read, or else the run was
overtaken: that is what `overtaken` records, and the theorem excepts. `FreshTheorem` follows
from it and the definition of the lane, which speaks of the connections it has a record of;
`NoSecretStrandedTheorem` is an action property.

`SchedulerProofs`. The invariant `PollInv` counts what a pass may have cost.
`PassAccounted`: at any moment of a pass, the time since it read the clock is at most a
run for each id that it has taken. `AgesBounded`: an id that is still ahead has waited
no longer than its delay, one pass and a pause (`Pause`: a tick and the passes that may be
skipped) allow, plus that time; one behind has just
been found not due, or was polled. `TriedTheorem` is its consequence, for any number of
connections, any delays and whatever else refreshes. `HealthyTheorem` adds
`SuccessRecorded` (an entry without failures is of a refresh that reached the
mirror, at most a run earlier) and the hypothesis `ShortRuns`: a tick, the passes skipped
and two that are not fit in two intervals, which is when `StaleAfter` is enough. Nothing in the code
sees to that; `MCScheduler` checks that its instance satisfies it. `AskedTheorem` adds
`SeenInEntry` (the poller forgets no refresh it has seen) and `DelayAtLeast`: doubling does
not shorten a delay, and a delay is cut at the ceiling.

`NotesProofs`. `Copies`: what anybody holds of a note is the row as it is now, or its
revision is older than the row's; `Bounded`: a row that is alive has a revision below that
of its deletion. From these, comparing revisions does what comparing rows would:
`RevisionsTheorem` is the refinement of `Register`, which has no revisions,
and `AgentsTheorem` that no agent replaces what its last answer did not show it.

`RecordsProofs`. Of the ticket history, the same argument, but for tickets, whose entries are deleted and begun
again with revision 1: `CInv` holds of list and draft only *within one life* of the
entry. `LossTheorem` states `NothingLostUnseen` with just that exception, and needs that
`Merged` leaves the old notes a prefix of the new ones and COALESCE keeps the snapshot.
Of the posts, `NewestTheorem` states `NewestKept`. It is inductive as it stands, given that
ids are not reused and so rows are totally ordered (`AreRows`): of the rows a prune removes,
each has as many above it as are kept, and later rows only add to those (`MoreAbove`). That
the prune keeps no more than that many (`NewestIsLimited`) is needed for the types: it counts
what is above the oldest of those kept, which exists by the same well-foundedness
as `HasLatest` below.

`BoardProofs`. `BallTheorem` states `BallIsWithTheLiving` for any number of keys and any
clocks. It is inductive only with `Backed`: a stored beat is never later than the moment a
report of that session was received, which `Stamp` keeps by clamping to the receipt and
which the floor (the stored time) respects because it was itself so clamped.
`IdleTheorem` is the same argument for reports of work, and `SessionsTypeTheorem` the type
invariant both rest on. `LateBeatsTheorem` is the action property: the floor of `Stamp` is
the stored beat of the session itself for every report but a start. `GoodTheorem` states
`GoodMeansWell`: it compares the latest of what is stored with the latest of what
happened, and that a bounded set of times has a latest is `HasLatest`, from the
well-foundedness of strict inclusion among the subsets of a finite set.

Of the Jira provider, in the same module, `PullRequestsTheorem` and `TicketsTheorem` state
`PullRequestsAreTheirs` and `TicketsTellTheSite`, for any number of issues, page and batch
sizes and requests in flight. (`JiraAssumption` says that the keys of a site's issues differ, as
Jira's do; `SprintsAssumption` that the value of the sprint field is a list.) The invariant
`JiraInv` has a part for each stage. `WorkersInv`:
a worker's index is of the page, was handed out, and what it has found with what it has still
to ask for is of what its issue holds, and all of it unless an answer left some out. `PageInv`: a result is of the issue at its place, or
has not been set although handed out and then some worker has that index; so when every
worker is idle nothing is missing. `TicketsInv`: the ticket at each place is of the issue at
that place. `LogsInv`: the changelogs collected are the issues' own, filed under what the site calls them, and are
complete for all that have been asked for, except those that came shortened. `SyncInv`: the ids are those of the site or none, which is why a search
never names a field that the site has not got. Two lemmas are about the operators. `OrderedOnce`: the list
`OrderPullRequests` returns is in order, has every URL that was found, and each once. As in
the lane, the sort is a strict total order (`AheadIsAnOrder`), so that the number of those
ahead of an entry is a one-to-one map to the places (`PlacesAreTaken`), and that each URL has
an entry ahead of all others of its own is `HasLeast`. `CurrentSprintIs`: the sprint shown is
the last entry of the best rank.

`ConsoleTypeTheorem` and, in `ScreenProofs`, `DeskTypeTheorem` state the type invariants of
the two compositions as wholes: a behaviour of all parts is one of each, which takes its own
steps or stutters (`ConsoleHasParts`, `DeskHasParts`), so the theorems about the parts hold
in it. The same lemmas carry every other theorem over to `ConsoleSpec` and `DeskSpec`.

`StartProofs`. Of the handshake, `HInv`: only the holder of the lock goes beyond starting
(`OneGoesOn`), so the file is the work of the process that got that far, as far as it
got, or of one that was killed (`FileIsTheirs`). `AppIsFoundTheorem` follows; for
`ServedTheorem`, a call that began while a process was up has read that process's
file (`ReadIsUp`). Of the launcher, `OnlyCheckedTheorem` states `OnlyCheckedRuns` for any
number of launchers: `KnownOf` is what a launcher at a place has found out about a host that
stays the same and a slot that nobody replaces, and that the archive has been verified, and
the directory it unpacked is whole, by the time it moves it into place. Of the stores, `UpgradesTheorem`
states `UpgradesAreSound` for any projects, sessions and settings: it needs that tickets are
only of connections that a migration keeps (`TicketsAreKept`), so that no rebuild of
the mirror fails on them, and that a secret whose row is gone is in the memory of the
launch that removed it, unless that launch died (`SecretsAreKnown`). Its half about secrets is
therefore about launches that were not interrupted.

`ScreenProofs`. Of the window, `CurrentTheorem` states `QuietMeansCurrent`, for every key of the cache and
whatever is called how often by whom. Its invariant `WInv` says where the news may be
(`Covered`): of every table the key reads, unless its last writer is one of whom the key does
not hear (`missed`), what is drawn, or about to be
drawn, is what is stored, or else a fetch has been asked for, or a message under way makes
the window ask (`Stirs`), or a call has written the table and not ended. That an answer
under way is the only one (`OneAnswer`) is needed because a cancelled answer would be drawn
otherwise. `WhoWrites` and `Announced` read off the registry which operations write a table and
what the window is told of each, succeed or fail: an operation added to a file without its event would
break these two lemmas and nothing else.

Of the preferences, `KeptTheorem` states `PreferencesKept`. Its invariant `PrefsInv` compares
what the board shows not with what is stored but with what will be (`Final`): a value is final
under a key when the last patch on its way with that key carries it, or none does and it is
stored. A fold, filter, status or theme the operator has touched is final (`BoardTold`); one
he has not is as the board has read it, and each read that he has not heard of, asked or
answered, is of something final (`ReadsFinal`): no patch of that key is behind it. So a read
that is overtaken by a gesture is harmless only because of `touched`, which is what the
theorem is about. With nothing on its way, final is stored. `WindowTold` says the same of the
window and its timer. It holds for any number of gestures, and `hasty` is the one exception (see
[disagreements](#disagreements-found)).

Of the screen of projects, `OfferTheorem` states
`OfferIsTaken`, inductive with the types as it stands: a form is mounted with an account that it
shows when there is one (`MountedTakes`), a pick is of what is on offer, and a list that
changes under it takes none away. Of
the lane, `HonestTheorem` states `LaneIsHonest`, for any number of tickets. That the
comparison, with equals by key, is a strict total order (`PrecedesIsAnOrder`) makes the
number of rows ahead of a row an injection into a set of the same size, so each place has
just one row and `Rows` is the whole lane in order (`SortReturnsRows`). What a press
shows is the page of the ticket as it was drawn, and what opens the same page of the ticket
as main found it (`PressIsOfTicket`); if the two are equal, so are the pages.

What the proofs found. The attempt on `NotAskedTwice` failed where the ceiling of half an
hour is below the interval, which is how the property came to speak of the shorter of the two,
and a disagreement below. The attempt on the type of `Scheduler` showed that `Recorded` has to cap
the age it stores as `Elapse` caps the others: in the small instance no age gets that far.

Only model-checked: all liveness, which is out of this prover's reach (`LapsedReturns`,
`PendingTaken`, `IdentitySettles`, `PanelCatchesUp`), and the five violations. Every other
property of the passing runs is a theorem.

## Disagreements found

Five are runs, with the quoted text in `PROJECT.json`:

1. A lapsed claim does not return to the queue: `pending` does not sweep, and
   nothing calls `sweep` (`outbox_lapsed_claim`).
2. A run that waits for `viewer()` re-inserts a connection removed meanwhile
   (`sync_removed_connection`).
3. A sync that finishes refreshes the notes under an open editor, whose save then replaces
   what the operator has not seen (`notes_clobber`).
4. A form of a project mounted before the accounts are listed binds it to none
   (`projects_unbound`).
5. A pull request is looked up by its position in a list that may have been
   reordered since (`press_opens_other`).

The others were met while modelling and are not kept as runs:

- The claimant check compares names, and agents without a configured name share one
  (`services/outbox.ts` 89, 117).
- A run that is cut short between the tickets and their date (`services/sync.ts` 246, 247) leaves the
  tickets under the date of the last success. If that is of a run which started later, the age
  shown is younger than the data; `fetched_at` of the tickets themselves is not asked for it. And a first
  refresh cut short there leaves tickets of a connection without a record, which the lane
  does not count (`services/board.ts` 82).
- An `add` cut short between keychain and row leaves a secret without a row, until the same
  account is added again (`services/connections.ts` 107-126); `remove` avoids just that (150).
- A failure recorded by an older run moves `last_failure_at` back, so that a newer
  failure disappears (`store/mirror/repository.ts` 300; three overlapping runs).
- A poll that replaces the tickets but not their history counts as failed for the
  backoff and as successful for freshness: such a lane looks stale between polls that
  all bring data (`runtime/scheduler.ts` 194).
- With an interval of more than half an hour (up to an hour is allowed,
  `services/settings.ts` 55) a connection that fails is polled more often than one that
  works, as the ceiling of the backoff is shorter than the interval
  (`runtime/scheduler.ts` 184; `spec.md` 185 speaks of backing off).
- A connection removed and added between two passes keeps its backoff
  (`runtime/scheduler.ts` 233).
- The root `README.md` (212) and `store/open.ts` (74) call `mirror.db` safe to delete because
  it rebuilds, but the connections are rows of it (`store/mirror/repository.ts` 176):
  there is nothing left to rebuild from until they are added again. `DeleteMirror` is an
  action of `Stores`.
- Not everything the window shows is refetched when it changes. A removal of a connection that
  fails after the credential is gone, or a write by the theme provider (`renderer/theme.tsx` 90-98) or by
  main as it tracks the window (`main/index.ts` 480), leaves the queries as they are until a sync
  finishes.
- An answer of Jira's with a 200 that carries `errors` beside the detail, or no details, and a
  summary without a count are read as no pull requests (`providers/jira/index.ts` 128, 236, 244),
  where the comment above (232) asks for unknown, not none. `partial` marks these in the model.
- Changelogs are filed under `log.issueId` as if it were the key (`providers/jira/index.ts` 343,
  355), though the search's issues have an id and a key apart (74) and the id goes out as `issueId`
  (228). On a site that names them by id no activity is found and every ticket's is unknown. The
  fixtures put the key there (`test/providers/jira.test.ts` 971, 1132).
- The changelog answer is taken for the whole history: there is no next page
  (`providers/jira/index.ts` 333). And times are sorted as texts (830), so that two with different
  offsets may come in the wrong order.
- A launch that dies between migration 4 and its clean-up leaves the secret of the removed
  connection for good (`store/open.ts` 111): the next one does not look.
- The clock event invalidates a key nothing reads (`renderer/query.ts` 170), so that
  ages move only when something else redraws.
- `before-quit` (`main/index.ts` 541) cancels the timer of a pending save before the windows
  close: on a quit that does not start with the window, a move within the last 400 ms is
  not saved, although the comment there says that the `close` handler has flushed it.
- A project that is removed stays the filter of the session (`renderer/filter.ts` 62-73):
  the effect that would clear it does not run once anything has been pressed.
- A theme chosen before the stored one has been read is undone on the screen
  (`renderer/theme.tsx` 52-62), though it is stored.

## Not modelled

- Schemas and validation, the texts of results and errors, ticket columns that no
  property tells apart, and the parsing of single values (`domain/adf.ts`,
  `domain/keys.ts`): data.
- `connections.add` in `Window`: the form calls a channel of its own (`main/credential.ts`), which
  is not the registry's, and invalidates the list itself.
- Settings changed while the scheduler runs: the delays are constants.
- A provider that never answers: `Scheduler` takes `RunTime` as an assumption the
  code does not enforce (there is no timeout in `providers/http.ts`), `Sync` has the
  fairness above.
- Two processes of the app on one database: the lock that `Handshake` models excludes them.
- The two pages of a project (`services/links.ts` 137-181), the clipboard read-back and the
  security options of the window: no state that changes.
- Components that draw their props, styling, and the CLI, which makes one-shot calls of
  the same services.
- Which project a ticket belongs to (`correlation/join.ts`), a lookup; two projects that
  name the same Jira key get the first.

## Plan

Done: outbox and agents, sync, scheduler, notes and history, push and cache, sessions and
board, posts, settings and projects, lane and links, stores, handshake, launcher, Jira.

Proved: every safety property and every action property of the passing runs, two refinements
(`ImplementsDispatch`, `RevisionsSuffice`), and the types of both compositions.

Open: the hazards that `PROJECT.json` lists without a property (a report with one good and one
bad result, a third overlapping run, `sweep` without a caller, a request that never ends), each
of which needs the code or its documents to say what it should promise first.
