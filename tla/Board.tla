--------------------------------- MODULE Board --------------------------------
(***************************************************************************)
(* What the board makes of a ticket (correlation/*.ts, services/board.ts): *)
(* the mirror's row, the sessions that report against it and the questions *)
(* that are open, joined at every read by the clock of that read.  Nothing *)
(* here is stored; the state is the sessions' (Sessions.tla), and the rows *)
(* are whatever the last sync has left.                                    *)
(***************************************************************************)
EXTENDS Sessions

CONSTANTS
    Accounts,   \* whom a ticket may be assigned to
    Operators,  \* those of them that a connection has as its viewer
    Threshold   \* settings: laneThresholdHours.tickets

ASSUME BoardAssumption == Operators \subseteq Accounts /\ Threshold \in Nat

\* `words`: what the name of the status matches, one name may match both.
\* `changed`: last_real_activity_at, as the changelogs have it.
TicketRow == [assignee : Accounts \cup {None}, done : BOOLEAN,
              words : SUBSET {"blocked", "waiting"}, changed : Times \cup {None}]

IsBlocked(row) == "blocked" \in row.words
IsAwaitingOthers(row) == "waiting" \in row.words

Severities == <<"good", "warning", "serious", "critical">>
Rank(severity) == CHOOSE i \in 1..4 : Severities[i] = severity

\* groupSessions: on the ticket they name; a ticket the mirror does not hold has no
\* row, and its sessions are on none.
On(t) == {k \in Keys : Begun(k) /\ sessions[k].item = t}

-----------------------------------------------------------------------------
\* latestOf, over those that are known.
LatestOf(times) ==
    LET known == times \ {None}
    IN  IF known = {} THEN None ELSE CHOOSE at \in known : \A other \in known : other <= at

WorkItemActivity(t, row) ==
    LatestOf({row.changed} \cup {sessions[k].activity : k \in On(t)})

\* hoursSince: nothing is younger than now.
HoursSince(at) == IF at > now THEN 0 ELSE now - at

ThresholdMultiple(at) ==
    IF at = None \/ Threshold = 0 THEN 0 ELSE HoursSince(at) \div Threshold

StalenessSeverity(multiple) == IF multiple >= 3 THEN 4 ELSE multiple + 1

-----------------------------------------------------------------------------
OpenQuestion(t) == t \in questions \/ \E k \in On(t) : k \in questions

\* The item's question is every session's (join.ts, sessionStates).
StateOnItem(t, k) ==
    IF sessions[k].ended = None /\ OpenQuestion(t) THEN "needs-you" ELSE State(k)

\* Mutant: a session that has not ended is at work.
NotEnded(k) == Begun(k) /\ sessions[k].ended = None

\* runningSessions: by the clock alone, whatever has been asked.
Live(k) ==
    /\ sessions[k].ended = None
    /\ now - sessions[k].heartbeat <= sessions[k].interval * Multiplier

OfTicket(row) ==
    IF IsBlocked(row) THEN "critical"
    ELSE IF IsAwaitingOthers(row) THEN "warning" ELSE "good"

\* Mutant: only a session that asks is worth a mark.
AsksOnly(state) == IF state = "needs-you" THEN "warning" ELSE "good"

OfSession(state) ==
    CASE state = "silent" -> "serious"
      [] state = "needs-you" -> "warning"
      [] OTHER -> "good"

\* severityOf: the worst of the contributions.
SeverityOf(t, row) ==
    LET ranks == {Rank(OfTicket(row)),
                  StalenessSeverity(ThresholdMultiple(WorkItemActivity(t, row)))}
                 \cup {Rank(OfSession(StateOnItem(t, k))) : k \in On(t)}
    IN  Severities[CHOOSE i \in ranks : \A j \in ranks : j <= i]

\* ballInCourt, in its order.
BallInCourt(t, row) ==
    LET operators == row.assignee \in Operators
        actionable == ~row.done /\ ~IsBlocked(row)
    IN  IF OpenQuestion(t) THEN "you"
        ELSE IF operators /\ actionable THEN "you"
        ELSE IF \E k \in On(t) : Live(k) THEN "agent"
        ELSE IF row.assignee # None /\ ~operators THEN "them"
        ELSE "you"

-----------------------------------------------------------------------------
(* What is checked, of every row the mirror may hold.                      *)

Unheard(k) == now - heard[k] > sessions[k].interval * Multiplier

\* The ball is not with a dead agent, and not with an agent while somebody waits for
\* an answer of the operator's: it is on an agent only where a session on that ticket
\* has been heard from within its window, whatever times the reports have named
\* (join.ts: an agent that has stopped reporting has not got the ball).
BallIsWithTheLiving ==
    \A t \in Tickets, row \in TicketRow :
        BallInCourt(t, row) = "agent" =>
            /\ ~OpenQuestion(t)
            /\ \E k \in Keys : Begun(k) /\ sessions[k].item = t /\ sessions[k].ended = None
                               /\ ~Unheard(k)

\* A silence or a stall is marked: where a session is on a ticket, the row is good
\* only when every session on it that has not ended is within its window, and when the
\* last real change of the ticket or report of work, as far as anything of that is
\* known, is not a whole threshold ago, however often the agents have beaten since
\* (severity.ts).
GoodMeansWell ==
    \A t \in {sessions[k].item : k \in {x \in Keys : Begun(x)}} \ {None}, row \in TicketRow :
        SeverityOf(t, row) = "good" =>
            LET done == LatestOf({row.changed} \cup {worked[k] : k \in On(t)})
            IN  /\ \A k \in On(t) : sessions[k].ended = None => ~Unheard(k)
                /\ Threshold > 0 /\ WorkItemActivity(t, row) # None
                   => done # None /\ HoursSince(done) < Threshold

=============================================================================
