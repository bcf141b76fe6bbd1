------------------------------ MODULE MCOutbox ------------------------------
(***************************************************************************)
(* Outbox on a small instance: two requests of which one may not be acted  *)
(* upon, two gestures, two actions, the operator and one agent.            *)
(***************************************************************************)
EXTENDS Outbox

CONSTANTS r1, bad, t1, t2, a1, a2, ag1

MCRequests == {r1, bad}
MCActionable == {r1}
MCTokens == {t1, t2}
MCIds == {a1, a2}
MCAgents == {ag1}

=============================================================================
