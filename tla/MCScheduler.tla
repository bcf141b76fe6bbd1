----------------------------- MODULE MCScheduler -----------------------------
(***************************************************************************)
(* Two connections, one of which has projects bound to it.                 *)
(***************************************************************************)
EXTENDS Scheduler

CONSTANTS jira, other

MCConns == <<jira, other>>
MCBound == {jira}
Both == {<<"window", Everything>>, <<"agent", Everything>>}

\* What HealthyTheorem asks of the constants.
ASSUME RunsAreShort == ShortRuns

=============================================================================
