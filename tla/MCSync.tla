------------------------------- MODULE MCSync -------------------------------
(***************************************************************************)
(* Two connections of which one has projects bound, two labels, and two    *)
(* accounts.                                                               *)
(***************************************************************************)
EXTENDS Sync

CONSTANTS jira, other, la, lb, x, y, s1, s2

OneConn == <<jira>>
TwoConns == <<jira, other>>
MCBound == {jira}
OneLabel == {la}
OneAccount == {x}
BothBound == {jira, other}
MCLabels == {la, lb}
MCAccounts == {x, y}
MCSlots == {s1, s2}

=============================================================================
