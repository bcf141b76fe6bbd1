------------------------------- MODULE Sessions -------------------------------
(***************************************************************************)
(* Agent sessions (services/sessions.ts, store/authored/sessions.ts): what *)
(* agents report of themselves, and what the board makes of it by the      *)
(* clock (domain/sessions.ts).  Every operation is one step.               *)
(*                                                                         *)
(* A report may name the time it was made at.  Reports are delivered late, *)
(* twice and out of order, and the agent's clock need not agree with ours, *)
(* so that the time named is any.                                          *)
(***************************************************************************)
EXTENDS Integers

CONSTANTS
    Keys,       \* session:<agentId>/<sessionId>, all of them well formed
    Tickets,
    Intervals,  \* heartbeatIntervalSec, within its two limits
    Multiplier, \* settings: how many missed beats are silence
    None,
    MaxTime     \* bound of the clock

ASSUME SessionsAssumption ==
    /\ Intervals \subseteq Nat \ {0}
    /\ Multiplier \in Nat \ {0}
    /\ MaxTime \in Nat
    /\ None \notin Int \cup Tickets \cup {"done", "failed"}

VARIABLES
    now,
    sessions,   \* agent_sessions
    questions,  \* the subjects with an open question: what the notes say
    heard,      \* ghost: when the last report of each session was received
    worked      \* ghost: when the last report of work was, None before one

vars == <<now, sessions, questions, heard, worked>>

Times == 0..MaxTime
Row == [item : Tickets \cup {None}, interval : Intervals, started : Times,
        heartbeat : Times, activity : Times \cup {None}, ended : Times \cup {None},
        outcome : {"done", "failed", None}]
NoRow == [interval |-> 0]

Begun(k) == sessions[k] # NoRow

SessionsTypeOK ==
    /\ now \in Times
    /\ sessions \in [Keys -> Row \cup {NoRow}]
    /\ questions \subseteq Keys \cup Tickets
    /\ heard \in [Keys -> Times]
    /\ worked \in [Keys -> Times \cup {None}]
    /\ \A k \in Keys : Begun(k) =>
        (sessions[k].ended = None) = (sessions[k].outcome = None)

Init ==
    /\ now = 0
    /\ sessions = [k \in Keys |-> NoRow]
    /\ questions = {}
    /\ heard = [k \in Keys |-> 0]
    /\ worked = [k \in Keys |-> None]

-----------------------------------------------------------------------------
\* Mutant: the agent's clock is taken at its word.
StampTrusting(at, floor) == IF at > floor THEN at ELSE floor

\* Mutant: what is stored already does not matter.
StampLate(at, floor) == IF at < now THEN at ELSE now

\* stamp: no later than now, no earlier than `floor`.  A report without a time, or
\* with one that does not parse, was made now.
Stamp(at, floor) ==
    LET usable == IF at < now THEN at ELSE now
    IN  IF usable > floor THEN usable ELSE floor

NoFloor == 0
ActivityFloor(row) == IF row.activity = None THEN NoFloor ELSE row.activity

\* upsertStart: ON CONFLICT keeps started_at and last_real_activity_at.
Started(k, item, interval, at) ==
    IF Begun(k)
    THEN [sessions[k] EXCEPT !.item = item, !.interval = interval, !.heartbeat = at,
                             !.ended = None, !.outcome = None]
    ELSE [item |-> item, interval |-> interval, started |-> at, heartbeat |-> at,
          activity |-> None, ended |-> None, outcome |-> None]

Start(k, item, interval, at) ==
    /\ sessions' = [sessions EXCEPT ![k] = Started(k, item, interval, Stamp(at, NoFloor))]
    /\ heard' = [heard EXCEPT ![k] = now]
    /\ UNCHANGED <<now, questions, worked>>

\* The others: mustGet, and one patch of the row.  An ended session is patched too.
Touch(k, row) ==
    /\ Begun(k)
    /\ sessions' = [sessions EXCEPT ![k] = row]
    /\ heard' = [heard EXCEPT ![k] = now]
    /\ UNCHANGED <<now, questions>>

Heartbeat(k, at) ==
    /\ Touch(k, [sessions[k] EXCEPT !.heartbeat = Stamp(at, sessions[k].heartbeat)])
    /\ UNCHANGED worked

\* The work item is given, taken away or not mentioned.
Activity(k, item, at) ==
    /\ Touch(k, [sessions[k] EXCEPT !.heartbeat = Stamp(at, sessions[k].heartbeat),
                                    !.activity = Stamp(at, ActivityFloor(sessions[k])),
                                    !.item = item])
    /\ worked' = [worked EXCEPT ![k] = now]

\* Mutant: ending does not record how.
EndUntold(k, outcome, at) ==
    /\ Touch(k, [sessions[k] EXCEPT !.heartbeat = Stamp(at, sessions[k].heartbeat),
                                    !.ended = Stamp(at, sessions[k].heartbeat)])
    /\ UNCHANGED worked

End(k, outcome, at) ==
    /\ Touch(k, [sessions[k] EXCEPT !.heartbeat = Stamp(at, sessions[k].heartbeat),
                                    !.ended = Stamp(at, sessions[k].heartbeat),
                                    !.outcome = outcome])
    /\ UNCHANGED worked

\* Notes ask and answer questions about a session or a ticket.
QuestionsMove(subject) ==
    /\ questions' = IF subject \in questions THEN questions \ {subject}
                    ELSE questions \cup {subject}
    /\ UNCHANGED <<now, sessions, heard, worked>>

Tick ==
    /\ now < MaxTime
    /\ now' = now + 1
    /\ UNCHANGED <<sessions, questions, heard, worked>>

-----------------------------------------------------------------------------
\* The times a report may name.  The future is the same whatever it is.
Named == 0..(now + 1)

Starts(k) ==
    \E item \in Tickets \cup {None}, interval \in Intervals, at \in Named :
        Start(k, item, interval, at)

SessionsNext ==
    \/ Tick
    \/ \E subject \in Keys \cup Tickets : QuestionsMove(subject)
    \/ \E k \in Keys :
        \/ Starts(k)
        \/ \E at \in Named : Heartbeat(k, at)
        \/ \E item \in Tickets \cup {None}, at \in Named :
            Begun(k) /\ Activity(k, item, at)
        \/ \E outcome \in {"done", "failed"}, at \in Named : End(k, outcome, at)

SessionsSpec == Init /\ [][SessionsNext]_vars

-----------------------------------------------------------------------------
(* What a read derives (sessionStateOf, and view in the service).          *)

HasOpenQuestion(k) == k \in questions \/ sessions[k].item \in questions

\* sessionStateOf: an end first, then a question, then the clock.
State(k) ==
    CASE sessions[k].ended # None ->
            IF sessions[k].outcome = "failed" THEN "failed" ELSE "done"
      [] sessions[k].ended = None /\ HasOpenQuestion(k) -> "needs-you"
      [] OTHER ->
            IF now - sessions[k].heartbeat > sessions[k].interval * Multiplier
            THEN "silent" ELSE "running"

-----------------------------------------------------------------------------
(* What is checked.                                                        *)

\* The last activity shown is not younger than the last report of work, through
\* any number of beats, restarts and ends: a stuck agent does not look busy.
IdleIsHonest ==
    \A k \in Keys :
        /\ Begun(k) /\ sessions[k].activity # None
        => worked[k] # None /\ sessions[k].activity <= worked[k]

Silenced(k) ==
    /\ Begun(k) /\ State(k) = "running"
    /\ now' = now
    /\ sessions'[k].ended = None /\ sessions'[k].heartbeat < sessions[k].heartbeat

\* A late beat, report of work or end does not drag a running session backwards
\* (services/sessions.ts, stamp).
LateBeatsDoNotDrag == [][\A k \in Keys : Silenced(k) => Starts(k)]_vars

=============================================================================
