------------------------------ MODULE Scheduler ------------------------------
(***************************************************************************)
(* What makes the board refresh without being asked: the poll loop of      *)
(* runtime/scheduler.ts, as desktop/src/main/index.ts wires it, next to    *)
(* the refreshes it did not start: the window's, which pass through        *)
(* `observing`, and an agent's, which arrive over the loopback interface   *)
(* and do not.                                                             *)
(*                                                                         *)
(* Time passes in Elapse only, and never beyond a moment at which a timer  *)
(* is due or a run must have ended: timers fire on time, code between two  *)
(* awaits takes no time, and a run of runSync takes at most RunTime.  An   *)
(* instant of the code is represented by the time since, so that the model *)
(* runs for ever in finitely many states; an age at its cap stands for all *)
(* greater ones.  What a run does inside is the subject of Sync; here it   *)
(* ends with an outcome for each connection it covers.                     *)
(***************************************************************************)
EXTENDS Integers, SequencesExt

CONSTANTS
    Conns,        \* the connection ids, in the order of listConnections
    Bound,        \* the ids with a project that names a ticket key
    Interval,     \* pollIntervalSec
    TickTime,     \* tickMs, and the delay before the first pass
    RunTime,      \* bound: a run has ended by then
    Outage,       \* bound: how long passes in a row may find nothing to read
    MaxDoublings, \* MAX_DOUBLINGS
    MaxBackoff,   \* MAX_BACKOFF_MS
    Asked,        \* what the window and agents ask for: <<who, scope>>
    Everything, Idle, Never

Ids == ToSet(Conns)

\* `usable`: of the ids with a project, those connected when the run began.
Run == [scope : Ids \cup {Everything}, age : 0..RunTime, usable : SUBSET Bound]

ASSUME SchedulerAssumption ==
    /\ Conns \in Seq(Ids) /\ Bound \subseteq Ids
    /\ {Interval, TickTime, RunTime, MaxDoublings, MaxBackoff} \subseteq Nat \ {0}
    /\ Outage \in Nat
    /\ Everything \notin Ids
    /\ Asked \subseteq {"window", "agent"} \X (Ids \cup {Everything})
    /\ Never \notin Nat /\ Idle \notin Nat \cup Run

\* A fact of arithmetic, true of any number of doublings, that the provers do not know.
ASSUME PowersAssumption == \A n \in 0..MaxDoublings : 2 ^ n \in Nat \ {0}

VARIABLES
    conns,    \* the connections there are
    entries,  \* what the loop remembers of each
    kinds,    \* the ids of the last pass
    timer,    \* time left until the next pass, or Idle while one is under way
    spare,    \* what is left of Outage
    todo,     \* the ids that pass has still to consider, in order
    lag,      \* time since that pass read the clock
    runs,     \* the sync.now calls under way, by who made them
    data,     \* time since the start of the run that last called recordSuccess
    quiet     \* ghost: time since the poller saw a refresh of each id finish

schedVars == <<entries, kinds, timer, spare, todo, lag>>
vars == <<conns, schedVars, runs, data, quiet>>

Least(a, b) == IF a < b THEN a ELSE b

Callers == {"scheduler", "window", "agent"}

\* The longest wait between two polls of one connection: the delay; the pass
\* that just missed it; one tick; the passes that are skipped; and the pass that
\* polls it.
MaxWait == (IF Interval > MaxBackoff THEN Interval ELSE MaxBackoff)
           + TickTime + Outage + (2 * Len(Conns) - 1) * RunTime

\* board.ts and registry/ops/sync.ts: three polls' worth.
StaleAfter == 3 * Interval

AgeCap == MaxWait + 1
DataCap == StaleAfter + 1
Older(age, cap) == IF age = Never THEN Never ELSE Least(age + 1, cap)

Entry == [failures : 0..MaxDoublings, age : (0..AgeCap) \cup {Never}]

\* entryFor: what stands for an id met for the first time, or not met yet.
NewEntry == [failures |-> 0, age |-> Never]

SchedulerTypeOK ==
    /\ conns \subseteq Ids
    /\ entries \in [Ids -> Entry]
    /\ \A c \in Ids \ kinds : entries[c] = NewEntry
    /\ kinds \subseteq Ids
    /\ timer \in (0..TickTime) \cup {Idle}
    /\ spare \in 0..Outage
    /\ todo \in Seq(Ids)
    /\ lag \in 0..(Len(Conns) * RunTime)
    /\ runs \in [Callers -> Run \cup {Idle}]
    /\ data \in [Bound -> (0..DataCap) \cup {Never}]
    /\ quiet \in [Ids -> 0..Interval]

\* The application starts on what the last time left in the mirror.
Init ==
    /\ conns \in SUBSET Ids
    /\ entries = [c \in Ids |-> NewEntry]
    /\ kinds = {}
    /\ timer = TickTime
    /\ spare = Outage
    /\ todo = << >>
    /\ lag = 0
    /\ runs = [who \in Callers |-> Idle]
    /\ data \in [Bound -> {Never, DataCap}]
    /\ quiet = [c \in Ids |-> Interval]

-----------------------------------------------------------------------------
(* The pass.                                                               *)

\* delayMs
Delay(entry) ==
    IF entry.failures = 0 THEN Interval
    ELSE Least(Interval * 2 ^ Least(entry.failures, MaxDoublings), MaxBackoff)

\* Mutant: a connection that has failed often is left alone.
GivesUp(c) ==
    entries[c].age # Never =>
        entries[c].failures < MaxDoublings /\ entries[c].age - lag >= Delay(entries[c])

\* `at` is the instant the pass began: an entry the window has refreshed since
\* then is younger than the pass.
Due(c) == entries[c].age # Never => entries[c].age - lag >= Delay(entries[c])

\* The targets are the connections there were when the pass began.
Wanted(c) == c \in kinds /\ Due(c)

\* Mutant: what was known of a removed connection is kept.
NothingForgotten == entries

\* targetsNow forgets the entries of connections that are gone.
Remembered == [c \in Ids |-> IF c \in conns THEN entries[c] ELSE NewEntry]

BeginPass ==
    /\ timer = 0
    /\ timer' = Idle
    /\ spare' = Outage
    /\ todo' = Conns
    /\ kinds' = conns
    /\ entries' = Remembered
    /\ lag' = 0
    /\ UNCHANGED <<conns, runs, data, quiet>>

\* The connections or the settings cannot be read.  The code takes that for the
\* service going down; if it is not, the next pass finds out.
SkipPass ==
    /\ timer = 0 /\ TickTime <= spare
    /\ timer' = TickTime
    /\ spare' = spare - TickTime
    /\ UNCHANGED <<conns, entries, kinds, todo, lag, runs, data, quiet>>

InPass == timer = Idle /\ runs["scheduler"] = Idle

\* buildSyncTargets: providers for what is connected when the run begins.
Begun(scope) == [scope |-> scope, age |-> 0, usable |-> conns \cap Bound]

\* On to the first target that is due; nothing is awaited before it.
Poll ==
    /\ InPass
    /\ \E n \in 1..Len(todo) :
        /\ Wanted(todo[n]) /\ \A k \in 1..(n - 1) : ~Wanted(todo[k])
        /\ todo' = SubSeq(todo, n + 1, Len(todo))
        /\ runs' = [runs EXCEPT !["scheduler"] = Begun(todo[n])]
    /\ UNCHANGED <<conns, entries, kinds, timer, spare, lag, data, quiet>>

\* None is left: the timer is re-armed.
EndPass ==
    /\ InPass
    /\ \A k \in 1..Len(todo) : ~Wanted(todo[k])
    /\ todo' = << >>
    /\ timer' = TickTime
    /\ lag' = 0
    /\ UNCHANGED <<conns, entries, kinds, spare, runs, data, quiet>>

-----------------------------------------------------------------------------
(* The runs.                                                               *)

Asks(who, scope) ==
    /\ runs[who] = Idle
    /\ runs' = [runs EXCEPT ![who] = Begun(scope)]
    /\ UNCHANGED <<conns, schedVars, data, quiet>>

Covers(run, c) == run.scope \in {c, Everything}

\* How a run may end on the connections it reports on.  "partial": the tickets
\* were replaced, but their history could not be had or there were too many;
\* the report carries a second result, not ok (services/sync.ts:253).
Outcomes(run) ==
    [{c \in Bound : Covers(run, c)} -> {"ok", "partial", "failed"}]

Possible(run, ends) ==
    \A c \in DOMAIN ends : c \notin run.usable => ends[c] = "failed"

Replaced(ends) == {c \in DOMAIN ends : ends[c] \in {"ok", "partial"}}

\* Mutant: a report is a success, whatever it says; only a throw counts.
AnyReport(ends, c) == TRUE

\* `succeeded`: no results for a connection is a success.
Succeeded(ends, c) == c \notin DOMAIN ends \/ ends[c] = "ok"

\* The count is read through Math.min(failures, MAX_DOUBLINGS) only.
Attempted(entry, ok) ==
    [failures |-> IF ok THEN 0 ELSE Least(entry.failures + 1, MaxDoublings),
     age |-> 0]

\* Mutant: a refresh of everything restarts no clock.
OnlyNamed(run, c) == run.scope = c

\* The entries `observing` touches: every id of the last pass the call covers.
Observed(run, c) == c \in kinds /\ Covers(run, c)

\* What a run leaves in the mirror.
Recorded(run, ends) ==
    data' = [c \in Bound |->
                IF c \in Replaced(ends) THEN Least(run.age, DataCap) ELSE data[c]]

Seen(ids) == quiet' = [c \in Ids |-> IF c \in ids THEN 0 ELSE quiet[c]]

PollEnds(ends) ==
    LET run == runs["scheduler"]
        c == run.scope
    IN  /\ entries' = [entries EXCEPT ![c] = Attempted(@, Succeeded(ends, c))]
        /\ Recorded(run, ends)
        /\ Seen({c})

WindowEnds(ends) ==
    LET run == runs["window"] IN
    /\ entries' = [c \in Ids |->
         IF Observed(run, c) THEN Attempted(entries[c], Succeeded(ends, c))
         ELSE entries[c]]
    /\ Recorded(run, ends)
    /\ Seen({c \in kinds : Covers(run, c)})

AgentEnds(ends) ==
    /\ Recorded(runs["agent"], ends)
    /\ UNCHANGED <<entries, quiet>>

RunEnds(who) ==
    /\ runs[who] # Idle
    /\ \E ends \in Outcomes(runs[who]) :
        /\ Possible(runs[who], ends)
        /\ CASE who = "scheduler" -> PollEnds(ends)
             [] who = "window"    -> WindowEnds(ends)
             [] who = "agent"     -> AgentEnds(ends)
    /\ runs' = [runs EXCEPT ![who] = Idle]
    /\ UNCHANGED <<conns, kinds, timer, spare, todo, lag>>

\* The call itself throws.  The loop counts that as a failure; for the window
\* the exception passes `observing` by.
RunThrows(who) ==
    /\ runs[who] # Idle
    /\ IF who = "scheduler"
       THEN LET c == runs[who].scope
            IN  entries' = [entries EXCEPT ![c] = Attempted(@, FALSE)]
       ELSE UNCHANGED entries
    /\ runs' = [runs EXCEPT ![who] = Idle]
    /\ UNCHANGED <<conns, kinds, timer, spare, todo, lag, data, quiet>>

-----------------------------------------------------------------------------
(* The rest of the world.                                                  *)

\* connections.add and connections.remove; the mirror keeps its record.
Edit(c) ==
    /\ conns' = IF c \in conns THEN conns \ {c} ELSE conns \cup {c}
    /\ UNCHANGED <<schedVars, runs, data, quiet>>

\* The application is quit and started: stopPolling clears the timer.
Restart ==
    /\ entries' = [c \in Ids |-> NewEntry]
    /\ kinds' = {}
    /\ timer' = TickTime
    /\ spare' = Outage
    /\ todo' = << >>
    /\ lag' = 0
    /\ runs' = [who \in Callers |-> Idle]
    /\ UNCHANGED <<conns, data, quiet>>

Elapse ==
    /\ timer = Idle => runs["scheduler"] # Idle
    /\ timer # 0
    /\ \A who \in Callers : runs[who] # Idle => runs[who].age < RunTime
    /\ timer' = IF timer = Idle THEN Idle ELSE timer - 1
    /\ lag' = IF timer = Idle THEN lag + 1 ELSE 0
    /\ entries' = [c \in Ids |-> [entries[c] EXCEPT !.age = Older(@, AgeCap)]]
    /\ runs' = [who \in Callers |->
         IF runs[who] = Idle THEN Idle ELSE [runs[who] EXCEPT !.age = @ + 1]]
    /\ data' = [c \in Bound |-> Older(data[c], DataCap)]
    /\ quiet' = [c \in Ids |-> Least(quiet[c] + 1, Interval)]
    /\ UNCHANGED <<conns, kinds, spare, todo>>

Next ==
    \/ BeginPass \/ SkipPass \/ Poll \/ EndPass
    \/ \E ask \in Asked : Asks(ask[1], ask[2])
    \/ \E who \in Callers : RunEnds(who) \/ RunThrows(who)
    \/ \E c \in Ids : Edit(c)
    \/ Restart
    \/ Elapse

Spec == Init /\ [][Next]_vars

-----------------------------------------------------------------------------
(* Properties.                                                             *)

\* Runs, a tick and the passes that are skipped are short against the interval.
ShortRuns == TickTime + Outage + 2 * Len(Conns) * RunTime <= 2 * Interval + 1

\* While its polls succeed, a connection never looks stale: the cadence and
\* the threshold are two numbers that come from one place (scheduler.ts:171).
\* Whatever else asks for refreshes, and in whatever order they end, the next
\* one is on the board in time, provided ShortRuns.
HealthyStaysFresh ==
    \A c \in conns \cap Bound :
        entries[c].failures = 0 /\ entries[c].age # Never
            => data[c] # Never /\ data[c] <= StaleAfter

\* However often it has failed, a connection is tried again within the backoff
\* ceiling, the two passes it may have to wait for and those skipped: "short enough that
\* recovery happens on its own" (scheduler.ts:122), which Sync assumes.
TriedAgain ==
    \A c \in conns : entries[c].age # Never => entries[c].age <= MaxWait

\* The poller does not ask what was asked less than an interval ago, unless it has
\* never seen the connection: "two round trips for one question" (scheduler.ts:95).  One
\* that has failed it may ask sooner, after the ceiling of the backoff, where that is the
\* shorter: an interval may be an hour (services/settings.ts:55) and the ceiling is half of
\* one.
NotAskedTwice ==
    [][\A c \in Ids :
        runs["scheduler"] = Idle /\ runs'["scheduler"] # Idle
            /\ runs'["scheduler"].scope = c /\ entries[c].age # Never
            => /\ entries[c].failures = 0 => quiet[c] >= Interval
               /\ quiet[c] >= Least(Interval, MaxBackoff)]_vars

=============================================================================
