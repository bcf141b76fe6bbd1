-------------------------------- MODULE Sync --------------------------------
(***************************************************************************)
(* Refreshing the mirror: runSync (services/sync.ts), started by           *)
(* createCoreServices().syncNow (runtime/services.ts) for one connection   *)
(* or for all, against the connection list and the keychain that           *)
(* services/connections.ts edits.                                          *)
(*                                                                         *)
(* runSync awaits the provider, so several of them run interleaved with    *)
(* each other and with the operator's edits: the scheduler starts one per  *)
(* connection, the window and any agent start one whenever they like, and  *)
(* nothing stops two from covering the same connection.  A step here is    *)
(* the code from one answer of the provider to the next request.           *)
(*                                                                         *)
(* A run is given its credentials, its list of connections and its clock   *)
(* when it starts and uses them to the end.  The remote tracker is         *)
(* represented by the time at which it was read: data read at t is what    *)
(* was true at t.  Times are positive, and 0 stands for SQL NULL.          *)
(***************************************************************************)
EXTENDS Integers, SequencesExt

CONSTANTS
    Conns,      \* the connection ids, in the order of listConnections: ORDER BY id
    Bound,      \* the ids with a project that names a ticket key
    Labels,     \* what a row identifies: kind, site and account label
    Accounts,   \* whom a secret authenticates as
    Slots,      \* bound: so many runs at once
    None, Everything,
    MaxPages,   \* the ceiling MAX_TICKETS_PER_CONNECTION, in pages
    StaleAfter, \* three poll intervals
    MaxTime,    \* bound: the clock stops there
    MaxEdits    \* bound on the operator's edits of the connections

Ids == ToSet(Conns)

ASSUME SyncAssumption ==
    /\ Conns \in Seq(Ids)
    /\ Bound \subseteq Ids
    /\ None \notin Labels \cup Accounts
    /\ Everything \notin Ids
    /\ MaxPages \in Nat \ {0} /\ StaleAfter \in Nat
    /\ MaxTime \in Nat /\ MaxEdits \in Nat

VARIABLES
    now,
    rows,        \* connections: label and viewer_identity, or NoRow
    secrets,     \* the keychain: whom the secret of each id authenticates as
    tickets,     \* whose tickets each connection last wrote and when they were read;
                 \* `overtaken` is a ghost, see HistoryUndated
    lastSuccess, lastFailure, \* freshness
    runs,        \* the runSync calls under way
    wanted,      \* ghost: the label the operator last gave each id, None if removed
    edits

vars == <<now, rows, secrets, tickets, lastSuccess, lastFailure, runs, wanted,
          edits>>
mirrorVars == <<tickets, lastSuccess, lastFailure>>
operatorVars == <<secrets, wanted, edits>>

RowOf == [label : Labels, identity : Accounts \cup {None}]
NoRow == [label |-> None, identity |-> None]
Tickets == [account : Accounts, read : Nat \ {0}, overtaken : BOOLEAN]
NoTickets == [account |-> None, read |-> 0, overtaken |-> FALSE]

\* One element of the viewer loop: a row as it was listed, and whom the provider
\* built for it speaks for.  One element of the ticket loop.
Viewer == [id : Ids, account : Accounts, row : RowOf]
          \cup [id : Ids, account : {None}, row : {NoRow}]
Fetch == [id : Ids, due : BOOLEAN, account : Accounts \cup {None}]

\* `pages` and `read` belong to the first element of `fetches`: how many pages
\* have arrived, and when the first one was read; `whole` once no more are asked.
Run == [start : Nat \ {0}, viewers : Seq(Viewer), fetches : Seq(Fetch),
        pages : Nat, read : Nat, whole : BOOLEAN]
Idle == [start |-> 0]

SyncTypeOK ==
    /\ now \in Nat \ {0}
    /\ rows \in [Ids -> RowOf \cup {NoRow}]
    /\ secrets \in [Ids -> Accounts \cup {None}]
    /\ tickets \in [Ids -> Tickets \cup {NoTickets}]
    /\ lastSuccess \in [Ids -> Nat]
    /\ lastFailure \in [Ids -> Nat]
    /\ runs \in [Slots -> Run \cup {Idle}]
    /\ wanted \in [Ids -> Labels \cup {None}]
    /\ edits \in 0..MaxEdits

Init ==
    /\ now = 1
    /\ rows = [c \in Ids |-> NoRow]
    /\ secrets = [c \in Ids |-> None]
    /\ tickets = [c \in Ids |-> NoTickets]
    /\ lastSuccess = [c \in Ids |-> 0]
    /\ lastFailure = [c \in Ids |-> 0]
    /\ runs = [s \in Slots |-> Idle]
    /\ wanted = [c \in Ids |-> None]
    /\ edits = 0

-----------------------------------------------------------------------------
(* The operator: services/connections.ts.                                  *)

Listed(c) == rows[c] # NoRow

\* add finds the row of the same account, or idFor takes the first free id.  The
\* labels are taken to have one slug, so that the candidates are the same ids.
IdFor(label) ==
    IF \E c \in Ids : rows[c].label = label
    THEN {c \in Ids : rows[c].label = label}
    ELSE {c \in Ids : ~Listed(c) /\ \A k \in 1..Len(Conns) :
                        Conns[k] = c => \A j \in 1..(k - 1) : Listed(Conns[j])}

\* connections.add: the keychain first, the row afterwards, and re-authorising
\* keeps the identity found by an earlier sync.
AddConnection(label, account) ==
    /\ edits < MaxEdits
    /\ \E c \in IdFor(label) :
        /\ secrets' = [secrets EXCEPT ![c] = account]
        /\ rows' = [rows EXCEPT ![c] = [label |-> label, identity |-> @.identity]]
        /\ wanted' = [wanted EXCEPT ![c] = label]
    /\ edits' = edits + 1
    /\ UNCHANGED <<now, runs, mirrorVars>>

\* connections.remove: the credential goes first.  The tickets and the
\* freshness of the connection stay.
RemoveConnection(c) ==
    /\ edits < MaxEdits
    /\ Listed(c)
    /\ secrets' = [secrets EXCEPT ![c] = None]
    /\ rows' = [rows EXCEPT ![c] = NoRow]
    /\ wanted' = [wanted EXCEPT ![c] = None]
    /\ edits' = edits + 1
    /\ UNCHANGED <<now, runs, mirrorVars>>

\* The process dies, or the database refuses, between the two halves.
AddInterrupted(label, account) ==
    /\ edits < MaxEdits
    /\ \E c \in IdFor(label) : secrets' = [secrets EXCEPT ![c] = account]
    /\ edits' = edits + 1
    /\ UNCHANGED <<now, rows, runs, wanted, mirrorVars>>

\* Mutant: the row goes first.
RowGoesFirst(c) ==
    /\ edits < MaxEdits
    /\ Listed(c)
    /\ rows' = [rows EXCEPT ![c] = NoRow]
    /\ edits' = edits + 1
    /\ UNCHANGED <<now, secrets, runs, wanted, mirrorVars>>

RemoveInterrupted(c) ==
    /\ edits < MaxEdits
    /\ Listed(c)
    /\ secrets' = [secrets EXCEPT ![c] = None]
    /\ edits' = edits + 1
    /\ UNCHANGED <<now, rows, runs, wanted, mirrorVars>>

-----------------------------------------------------------------------------
(* The runs.                                                               *)

\* The provider buildSyncTargets makes for c: none without a row, without a
\* secret, or while the keychain cannot be reached.
Provider(c, reachable) == IF Listed(c) /\ reachable THEN secrets[c] ELSE None

Wanted(scope, c) == scope \in {c, Everything}

\* The two loops as they stand when the run starts: over listConnections, and
\* over the connections that projects name.  Both pass over an element without
\* a provider, and the second reports it if it was due (`unusable`).
Viewers(scope, reachable) ==
    [k \in 1..Len(Conns) |->
        LET c == Conns[k]
            account == IF Wanted(scope, c) THEN Provider(c, reachable) ELSE None
        IN  [id |-> c, account |-> account,
             row |-> IF account = None THEN NoRow ELSE rows[c]]]

Fetches(scope, reachable) ==
    [k \in 1..Len(Conns) |->
        LET c == Conns[k]
            due == c \in Bound /\ Wanted(scope, c)
        IN  [id |-> c, due |-> due,
             account |-> IF due THEN Provider(c, reachable) ELSE None]]

Skips(loop, n) ==
    /\ \A k \in 1..n : loop[k].account = None
    /\ n < Len(loop) => loop[n + 1].account # None

\* recordFailure, dated with the clock of the run.
RecordFailures(start, failed) ==
    lastFailure' = [c \in Ids |-> IF c \in failed THEN start ELSE lastFailure[c]]

\* The run goes on to its next await, or returns.
Resume(s, run, failed) ==
    \E i \in 0..Len(run.viewers), j \in 0..Len(run.fetches) :
        /\ Skips(run.viewers, i)
        /\ IF i < Len(run.viewers) THEN j = 0 ELSE Skips(run.fetches, j)
        /\ runs' = [runs EXCEPT ![s] =
                      IF i = Len(run.viewers) /\ j = Len(run.fetches) THEN Idle
                      ELSE [run EXCEPT !.viewers = SubSeq(@, i + 1, Len(@)),
                                       !.fetches = SubSeq(@, j + 1, Len(@))]]
        /\ LET passed == {k \in 1..j : run.fetches[k].due}
           IN  RecordFailures(run.start, failed \cup {run.fetches[k].id : k \in passed})

\* syncNow: targets, credentials and `now` are fixed for the whole run.
Start(s, scope, reachable) ==
    /\ runs[s] = Idle
    /\ Resume(s, [start |-> now, viewers |-> Viewers(scope, reachable),
                  fetches |-> Fetches(scope, reachable),
                  pages |-> 0, read |-> 0, whole |-> FALSE], {})
    /\ UNCHANGED <<now, rows, operatorVars, tickets, lastSuccess>>

AtViewer(s) == runs[s] # Idle /\ runs[s].viewers # << >>
AtFetch(s) == runs[s] # Idle /\ runs[s].viewers = << >>

PastViewer(s) == [runs[s] EXCEPT !.viewers = Tail(@)]

\* Mutant: the identity is resolved once and kept.
ResolvedOnce(s) ==
    /\ AtViewer(s)
    /\ LET v == Head(runs[s].viewers) IN
        rows' = IF v.row.identity # None THEN rows
                ELSE [rows EXCEPT ![v.id] = [v.row EXCEPT !.identity = v.account]]
    /\ Resume(s, PastViewer(s), {})
    /\ UNCHANGED <<now, operatorVars, tickets, lastSuccess>>

\* provider.viewer() answered: if the row as listed says otherwise, that row is
\* written back with the new identity, whatever has become of it meanwhile.
ViewerAnswers(s) ==
    /\ AtViewer(s)
    /\ LET v == Head(runs[s].viewers) IN
        rows' = IF v.row.identity = v.account THEN rows
                ELSE [rows EXCEPT ![v.id] = [v.row EXCEPT !.identity = v.account]]
    /\ Resume(s, PastViewer(s), {})
    /\ UNCHANGED <<now, operatorVars, tickets, lastSuccess>>

\* The error is dropped: the fetch below will meet it again.
ViewerFails(s) ==
    /\ AtViewer(s)
    /\ Resume(s, PastViewer(s), {})
    /\ UNCHANGED <<now, rows, operatorVars, tickets, lastSuccess>>

\* Mutant: the tickets do not say when they were read.
NotDated(s, more) ==
    /\ AtFetch(s) /\ ~runs[s].whole
    /\ LET run == runs[s] IN
        runs' = [runs EXCEPT ![s] =
                    [run EXCEPT !.pages = run.pages + 1,
                                !.whole = ~more \/ run.pages + 1 >= MaxPages]]
    /\ UNCHANGED <<now, rows, operatorVars, mirrorVars>>

\* A page of searchIssues; `more` is its next page token.  At the ceiling the
\* rest is not asked for.
PageAnswers(s, more) ==
    /\ AtFetch(s) /\ ~runs[s].whole
    /\ LET run == runs[s] IN
        runs' = [runs EXCEPT ![s] =
                    [run EXCEPT !.pages = run.pages + 1,
                                !.read = IF run.read = 0 THEN now ELSE run.read,
                                !.whole = ~more \/ run.pages + 1 >= MaxPages]]
    /\ UNCHANGED <<now, rows, operatorVars, mirrorVars>>

PastFetch(s) ==
    [runs[s] EXCEPT !.fetches = Tail(@), !.pages = 0, !.read = 0, !.whole = FALSE]

\* searchIssues threw, or the mirror refused the write of the tickets: its
\* transaction was rolled back, so the previous ones are still there.
FetchFails(s) ==
    /\ AtFetch(s)
    /\ Resume(s, PastFetch(s), {Head(runs[s].fetches).id})
    /\ UNCHANGED <<now, rows, operatorVars, tickets, lastSuccess>>

\* Mutant: success is dated when it is recorded.
DatedAtTheEnd(run, c) == lastSuccess' = [lastSuccess EXCEPT ![c] = now]

\* recordSuccess is dated like a failure.
RecordSuccess(run, c) == lastSuccess' = [lastSuccess EXCEPT ![c] = run.start]

\* replaceTickets
ReplaceTickets(f, read, overtaken) ==
    tickets' = [tickets EXCEPT ![f.id] =
                    [account |-> f.account, read |-> read, overtaken |-> overtaken]]

\* fetchChangelogs has answered or failed; either way the tickets replace the
\* old ones.  Success is recorded in the same turn of the event loop, by a commit
\* of its own.
HistoryAnswers(s) ==
    /\ AtFetch(s) /\ runs[s].whole
    /\ LET f == Head(runs[s].fetches) IN
        /\ ReplaceTickets(f, runs[s].read, FALSE)
        /\ RecordSuccess(runs[s], f.id)
    /\ Resume(s, PastFetch(s), {})
    /\ UNCHANGED <<now, rows, operatorVars>>

\* A record the mirror refuses in the handler of errors ends the run.
Rejected(s) == runs' = [runs EXCEPT ![s] = Idle] /\ UNCHANGED lastFailure
Died == runs' = [s \in Slots |-> Idle] /\ UNCHANGED lastFailure

\* The first of the two commits has been made and the second has not: the mirror
\* refuses the success, which is then recorded as a failure if the mirror takes
\* that, or the process dies.  The date on record is an earlier success's; it is
\* that of a run that started later if this one has been overtaken.
HistoryUndated(s) ==
    /\ AtFetch(s) /\ runs[s].whole
    /\ LET f == Head(runs[s].fetches) IN
        /\ ReplaceTickets(f, runs[s].read, runs[s].start < lastSuccess[f.id])
        /\ Resume(s, PastFetch(s), {f.id}) \/ Rejected(s) \/ Died
    /\ UNCHANGED <<now, rows, operatorVars, lastSuccess>>

\* The fetch failed, and so did the record of it.
FetchRejected(s) ==
    /\ AtFetch(s)
    /\ Rejected(s)
    /\ UNCHANGED <<now, rows, operatorVars, tickets, lastSuccess>>

\* The process dies and starts again: the runs are gone, both databases and
\* the keychain stay.
Restart ==
    /\ Died
    /\ UNCHANGED <<now, rows, operatorVars, tickets, lastSuccess>>

Tick ==
    /\ now < MaxTime
    /\ now' = now + 1
    /\ UNCHANGED <<rows, runs, operatorVars, mirrorVars>>

OperatorEdits ==
    \/ \E label \in Labels, account \in Accounts :
        AddConnection(label, account) \/ AddInterrupted(label, account)
    \/ \E c \in Ids : RemoveConnection(c) \/ RemoveInterrupted(c)

RunSteps(s) ==
    \/ ViewerAnswers(s) \/ ViewerFails(s)
    \/ \E more \in BOOLEAN : PageAnswers(s, more)
    \/ FetchFails(s) \/ HistoryAnswers(s) \/ HistoryUndated(s) \/ FetchRejected(s)

Next ==
    \/ OperatorEdits
    \/ \E s \in Slots, scope \in Ids \cup {Everything}, reachable \in BOOLEAN :
        Start(s, scope, reachable)
    \/ \E s \in Slots : RunSteps(s)
    \/ Restart
    \/ Tick

Spec == Init /\ [][Next]_vars

\* The connection whose provider the run is waiting for.
Asking(s, c) ==
    IF AtViewer(s) THEN Head(runs[s].viewers).id = c
    ELSE AtFetch(s) /\ Head(runs[s].fetches).id = c

\* A run under way goes on, every connection is polled again and again
\* (runtime/scheduler.ts), and a provider that is asked again and again
\* sometimes answers, as does the keychain, and the mirror then takes both commits.
FairSpec ==
    /\ Spec
    /\ \A s \in Slots : WF_vars(RunSteps(s))
    /\ \A c \in Ids :
        /\ SF_vars(\E s \in Slots : Start(s, c, TRUE))
        /\ SF_vars(\E s \in Slots : Asking(s, c) /\ ViewerAnswers(s))
        /\ SF_vars(\E s \in Slots : Asking(s, c) /\ PageAnswers(s, FALSE))
        /\ SF_vars(\E s \in Slots : Asking(s, c) /\ HistoryAnswers(s))

-----------------------------------------------------------------------------
(* What the board says of its age: freshnessView and freshnessFor.         *)

View(c) ==
    CASE lastSuccess[c] = 0               -> "never"
      [] lastSuccess[c] > 0 /\ lastFailure[c] > lastSuccess[c] -> "failed"
      [] OTHER -> IF now - lastSuccess[c] > StaleAfter THEN "stale" ELSE "fresh"

\* Only the connections that have been synced or have failed have a record.
Recorded == {c \in Ids : lastSuccess[c] # 0 \/ lastFailure[c] # 0}

\* Mutant: the best of them stands for the lane.
OneIsFresh == \E c \in Recorded : View(c) = "fresh"

\* The worst of them stands for the lane.
LaneFresh == Recorded # {} /\ \A c \in Recorded : View(c) = "fresh"

-----------------------------------------------------------------------------
(* Properties.                                                             *)

\* The age shown is never younger than the data: there is no success without
\* tickets, and what is on the board was read at lastSuccess or later, in whatever
\* order overlapping runs finish and wherever a write is cut short (constitution.md
\* XIV).  Excepted are the tickets of a run that was overtaken by a later one and
\* then cut short between its two commits.
HonestAge ==
    \A c \in Ids : lastSuccess[c] # 0 =>
        /\ tickets[c] # NoTickets
        /\ tickets[c].overtaken \/ lastSuccess[c] <= tickets[c].read

\* When the ticket lane says fresh, all it shows was read within the window,
\* the tickets of removed connections included (services/board.ts:75).  The lane
\* cannot know of a connection that has no record yet, the first write of its
\* tickets having been cut short.
FreshMeansFresh ==
    LaneFresh => \A c \in Recorded :
        tickets[c].overtaken \/ now - tickets[c].read <= StaleAfter

\* No step takes the row from a secret that stays: a secret nothing refers to
\* could not be removed any more (services/connections.ts:151).
NoSecretStranded ==
    [][\A c \in Ids :
        secrets[c] # None /\ Listed(c) /\ secrets'[c] # None => Listed(c)']_vars

\* Once the operator stops editing, every connection in use ends up with the
\* identity and the tickets of the account its secret belongs to, though runs
\* with older secrets may still be under way (services/sync.ts:99).
Settled(c) ==
    Listed(c) /\ secrets[c] # None =>
        /\ rows[c].identity = secrets[c]
        /\ c \in Bound => tickets[c].account = secrets[c]

IdentitySettles == <>[](\A c \in Ids : Settled(c))

\* The rows are the operator's: only add and remove decide which connections
\* there are and what they are called.
OperatorDecides == \A c \in Ids : rows[c].label = wanted[c]

=============================================================================
