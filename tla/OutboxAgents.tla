---------------------------- MODULE OutboxAgents ----------------------------
(***************************************************************************)
(* The outbox with its users: agent processes that reach it through        *)
(* packages/mcp.  An agent polls grndctrl_pending_actions, claims something*)
(* the answer named, performs it with its own credentials and reports.     *)
(* Its knowledge is what the last answer said, so it goes stale; an answer *)
(* may be lost, since mcp/src/client.ts turns any failed fetch into "not   *)
(* running" whatever the app has committed; and the process may be killed. *)
(*                                                                         *)
(* The outbox does not see processes, it sees the name each one sends in   *)
(* x-grndctrl-agent.  The header is optional and configured by hand, so    *)
(* NameOf need not be injective.  The window has no control that claims or *)
(* reports, so the operator only confirms and cancels here.                *)
(***************************************************************************)
EXTENDS Outbox

CONSTANTS
    Clients,   \* agent processes
    NameOf,    \* the name each one is known by
    Idle,
    MaxDeaths  \* bound on the kills

ASSUME AgentsAssumption ==
    /\ NameOf \in [Clients -> Agents]
    /\ None \notin Clients
    /\ MaxDeaths \in Nat

VARIABLES
    seen,     \* the ids in the last answer of outbox.pending, not yet tried
    task,     \* the claim the agent knows it has won, with the lease it read
    claimant, \* ghost: the process whose claim made the row `claimed`
    reporter, \* ghost: the process whose report ended the action
    deaths

agentVars == <<seen, task, claimant, reporter, deaths>>
allVars == <<vars, agentVars>>

Task == [id : Ids, leaseEnd : Nat]

AgentsTypeOK ==
    /\ TypeOK
    /\ seen \in [Clients -> SUBSET Ids]
    /\ task \in [Clients -> Task \cup {Idle}]
    /\ claimant \in [Ids -> Clients \cup {None}]
    /\ reporter \in [Ids -> Clients \cup {None}]
    /\ deaths \in 0..MaxDeaths

AgentsInit ==
    /\ Init
    /\ seen = [c \in Clients |-> {}]
    /\ task = [c \in Clients |-> Idle]
    /\ claimant = [id \in Ids |-> None]
    /\ reporter = [id \in Ids |-> None]
    /\ deaths = 0

\* Mutant: an action that was claimed once is not shown again.
NeverClaimed == {id \in Ids : rows[id].state = "pending" /\ Len(rows[id].history) = 1}

\* grndctrl_pending_actions: a read; lapsed claims are not swept here.
PendingIds == {id \in Ids : rows[id].state = "pending"}

Poll(c) ==
    /\ task[c] = Idle
    /\ seen' = [seen EXCEPT ![c] = PendingIds]
    /\ UNCHANGED <<vars, task, claimant, reporter, deaths>>

\* grndctrl_claim_action on something the last poll named.
TryClaim(c, id) ==
    /\ task[c] = Idle
    /\ id \in seen[c]
    /\ seen' = [seen EXCEPT ![c] = @ \ {id}]
    /\ \/ /\ ClaimWon(NameOf[c], id)
          /\ claimant' = [claimant EXCEPT ![id] = c]
          /\ \/ task' = [task EXCEPT ![c] = [id |-> id, leaseEnd |-> now + Lease]]
             \/ UNCHANGED task       \* the answer was lost
       \/ /\ ClaimLost(id)
          /\ UNCHANGED <<claimant, task>>
    /\ UNCHANGED <<reporter, deaths>>

\* grndctrl_complete_action or grndctrl_fail_action, in time or late.
Report(c) ==
    /\ task[c] # Idle
    /\ LET id == task[c].id IN
       \/ /\ Complete(NameOf[c], id) \/ Fail(NameOf[c], id)
          /\ reporter' = [reporter EXCEPT ![id] = c]
          /\ \/ task' = [task EXCEPT ![c] = Idle]
             \/ UNCHANGED task       \* the answer was lost; it may try again
       \/ /\ ~HoldsClaim(NameOf[c], id)
          /\ task' = [task EXCEPT ![c] = Idle]
          /\ UNCHANGED <<vars, reporter>>
    /\ UNCHANGED <<seen, claimant, deaths>>

\* A new process under the same name knows nothing of the old one's work.
Killed(c) ==
    /\ deaths < MaxDeaths
    /\ deaths' = deaths + 1
    /\ seen' = [seen EXCEPT ![c] = {}]
    /\ task' = [task EXCEPT ![c] = Idle]
    /\ UNCHANGED <<vars, claimant, reporter>>

TryAny(c) == \E id \in Ids : TryClaim(c, id)

AgentsNext ==
    \/ (OperatorStep \/ ProcessStep) /\ UNCHANGED agentVars
    \/ \E c \in Clients : Poll(c) \/ TryAny(c) \/ Report(c) \/ Killed(c)

AgentsSpec == AgentsInit /\ [][AgentsNext]_allVars

\* The clock runs, and an agent goes on polling, claiming what it saw and
\* reporting, as mcp/src/tools/outbox.ts tells it to.  Nothing is assumed of
\* the operator, of restarts or of kills.
FairAgentsSpec ==
    /\ AgentsSpec
    /\ WF_allVars(Tick /\ UNCHANGED agentVars)
    /\ \A c \in Clients :
        WF_allVars(Poll(c)) /\ WF_allVars(TryAny(c)) /\ WF_allVars(Report(c))

-----------------------------------------------------------------------------

\* As far as this agent can know, it has an action to perform.
Owns(c) == task[c] # Idle /\ task[c].leaseEnd > now

\* Two agents never both hold an answer that says the action is theirs now.
\* tools/outbox.ts:44 "Only one agent can hold it".
LeaseExclusive ==
    \A c, d \in Clients :
        c # d /\ Owns(c) /\ Owns(d) => task[c].id # task[d].id

\* The process that ended an action is the one whose claim it was under:
\* "A claimed action may only be finished by whoever holds the claim"
\* (outbox.ts:106).  The code compares names, so this needs distinct names.
ReportedByClaimant ==
    \A id \in Ids : reporter[id] # None => reporter[id] = claimant[id]

\* While the lease an agent read has not run out, nothing but its own report takes
\* the action away.
LeaseLasts ==
    \A c \in Clients : Owns(c) =>
        LET id == task[c].id IN
        \/ claimant[id] = c /\ HoldsClaim(NameOf[c], id)
        \/ reporter[id] = c

\* An agent that could report in time and did so is believed, and while its lease
\* runs it is the only one who thinks it may (services/outbox.ts:66 "Long enough for a
\* Jira transition").
LeaseHonoured == LeaseLasts /\ LeaseExclusive

\* Confirming an action with no agent running still works: whatever waits is
\* taken once agents poll (services/outbox.ts:17).
PendingTaken ==
    \A id \in Ids : rows[id].state = "pending" ~> rows[id].state # "pending"

=============================================================================
