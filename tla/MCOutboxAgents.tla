--------------------------- MODULE MCOutboxAgents ---------------------------
(***************************************************************************)
(* Two agent processes, each under a name of its own.                      *)
(***************************************************************************)
EXTENDS OutboxAgents

CONSTANTS r1, t1, t2, a1, a2, ag1, ag2, c1, c2

MCRequests == {r1}
MCTokens == {t1, t2}
MCIds == {a1, a2}
MCAgents == {ag1, ag2}
MCClients == {c1, c2}
DistinctNames == (c1 :> ag1 @@ c2 :> ag2)

=============================================================================
