-------------------------------- MODULE Posts --------------------------------
(***************************************************************************)
(* What agents leave for the operator to read: the active ticket           *)
(* (services/focus.ts), updates (services/updates.ts) and recorded prompts *)
(* (services/prompts.ts), with the tables under them (store/authored/).    *)
(* Every operation is one step; an insertion and the pruning that follows  *)
(* are one transaction.                                                    *)
(*                                                                         *)
(* Both lists are ordered by the millisecond and then by a random id.      *)
(***************************************************************************)
EXTENDS Naturals, FiniteSets

CONSTANTS
    Agents,
    SessionKeys,
    OwnerOf,         \* the agent whose session each key is
    Focusable,       \* keys of tickets: subjectKindOf
    User,
    Ids,             \* random ids, a set of numbers: their order is the strings'
    Retention,       \* RETENTION_PER_SESSION, at least 1
    PromptRetention, \* RETENTION, at least 1
    Nothing,
    LastInstant      \* bound of the clock

ASSUME PostsAssumption ==
    /\ Ids \subseteq Nat
    /\ Retention \in Nat \ {0} /\ PromptRetention \in Nat \ {0}
    /\ OwnerOf \in [SessionKeys -> Agents]
    /\ Nothing \notin [ticket : Focusable, by : Agents \cup {User}, at : 0..LastInstant]
    /\ LastInstant \in Nat

VARIABLES
    clock,
    begun,    \* the keys in agent_sessions: no row of it is ever deleted
    active,   \* active_ticket
    updates,  \* agent_updates
    prompts,  \* prompts
    posted,   \* ghost: every update there has been
    recorded, \* ghost: every prompt there has been
    deleted   \* ghost: the prompts the operator deleted

postsVars == <<clock, begun, active, updates, prompts, posted, recorded, deleted>>
ghosts == <<posted, recorded, deleted>>

Callers == Agents \cup {User}
Instants == 0..LastInstant

Focus == [ticket : Focusable, by : Callers, at : Instants]
Update == [id : Ids, session : SessionKeys, agent : Agents, ticket : Focusable \cup {Nothing},
           at : Instants]
Prompt == [id : Ids, by : Callers, session : SessionKeys \cup {Nothing}, at : Instants]

\* The label of a prompt need not be a session anybody started.
PostsTypeOK ==
    /\ clock \in Instants
    /\ begun \subseteq SessionKeys
    /\ active \in Focus \cup {Nothing}
    /\ updates \subseteq posted /\ posted \subseteq Update
    /\ prompts \subseteq recorded /\ recorded \subseteq Prompt
    /\ deleted \subseteq recorded
    /\ \A u \in updates : u.session \in begun /\ u.agent = OwnerOf[u.session]
    /\ \A k \in SessionKeys : Cardinality({u \in updates : u.session = k}) <= Retention
    /\ Cardinality(prompts) <= PromptRetention

PostsInit ==
    /\ clock = 0
    /\ begun = {}
    /\ active = Nothing
    /\ updates = {} /\ prompts = {}
    /\ posted = {} /\ recorded = {} /\ deleted = {}

-----------------------------------------------------------------------------
(* The active ticket.                                                      *)

\* sessions.start, of which the rest is in Sessions.tla.
Begin(k) ==
    /\ k \notin begun
    /\ begun' = begun \cup {k}
    /\ UNCHANGED <<clock, active, updates, prompts, ghosts>>

\* focus.set: one row, the last one set.  A key that is not a ticket's, or is of an
\* unknown site, is refused.
SetFocus(w, t) ==
    /\ active' = [ticket |-> t, by |-> w, at |-> clock]
    /\ UNCHANGED <<clock, begun, updates, prompts, ghosts>>

\* focus.clear, of whatever is set and whoever set it.
ClearFocus ==
    /\ active # Nothing
    /\ active' = Nothing
    /\ UNCHANGED <<clock, begun, updates, prompts, ghosts>>

ActiveTicket == IF active = Nothing THEN Nothing ELSE active.ticket

-----------------------------------------------------------------------------
(* Updates and prompts.                                                    *)

\* ORDER BY posted_at DESC, id DESC, and the same of recorded_at
NewerThan(v, u) == v.at > u.at \/ (v.at = u.at /\ v.id > u.id)

\* Mutant: ORDER BY id DESC.
NewestById(rows, limit) == {u \in rows : Cardinality({v \in rows : v.id > u.id}) < limit}

\* ... LIMIT limit
Newest(rows, limit) == {u \in rows : Cardinality({v \in rows : NewerThan(v, u)}) < limit}

Of(rows, k) == {u \in rows : u.session = k}

\* Mutant: the inner SELECT is not restricted to the session.
PrunedAcross(rows, k) == (rows \ Of(rows, k)) \cup (Of(rows, k) \cap Newest(rows, Retention))

\* DELETE ... WHERE session_key = ? AND id NOT IN (...)
Pruned(rows, k) == (rows \ Of(rows, k)) \cup Newest(Of(rows, k), Retention)

Unused == Ids \ {u.id : u \in posted \cup recorded}

\* updates.post.  The author and the ticket are not the caller's to give: one comes
\* from the session that the caller names, the other is what is active now.
Post(k, id) ==
    LET row == [id |-> id, session |-> k, agent |-> OwnerOf[k],
                ticket |-> ActiveTicket, at |-> clock]
    IN  /\ k \in begun
        /\ updates' = Pruned(updates \cup {row}, k)
        /\ posted' = posted \cup {row}
        /\ UNCHANGED <<clock, begun, active, prompts, recorded, deleted>>

\* Mutant: a prompt is pruned against the prompts of its own session.
RecordBySession(w, k, id) ==
    LET row == [id |-> id, by |-> w, session |-> k, at |-> clock]
    IN  /\ prompts' = (prompts \ Of(prompts, k))
                        \cup Newest(Of(prompts, k) \cup {row}, PromptRetention)
        /\ recorded' = recorded \cup {row}
        /\ UNCHANGED <<clock, begun, active, updates, posted, deleted>>

\* prompts.record: the author is the transport's to say, one bound for everybody.
RecordPrompt(w, k, id) ==
    LET row == [id |-> id, by |-> w, session |-> k, at |-> clock]
    IN  /\ prompts' = Newest(prompts \cup {row}, PromptRetention)
        /\ recorded' = recorded \cup {row}
        /\ UNCHANGED <<clock, begun, active, updates, posted, deleted>>

\* prompts.delete, which is the operator's.
DeletePrompt(p) ==
    /\ prompts' = prompts \ {p}
    /\ deleted' = deleted \cup {p}
    /\ UNCHANGED <<clock, begun, active, updates, posted, recorded>>

Pass ==
    /\ clock < LastInstant
    /\ clock' = clock + 1
    /\ UNCHANGED <<begun, active, updates, prompts, ghosts>>

PostsNext ==
    \/ Pass \/ ClearFocus
    \/ \E k \in SessionKeys : Begin(k) \/ \E id \in Unused : Post(k, id)
    \/ \E w \in Callers :
        \/ \E t \in Focusable : SetFocus(w, t)
        \/ \E k \in SessionKeys \cup {Nothing}, id \in Unused : RecordPrompt(w, k, id)
    \/ \E p \in prompts : DeletePrompt(p)

PostsSpec == PostsInit /\ [][PostsNext]_postsVars

-----------------------------------------------------------------------------
(* What is checked.                                                        *)

\* What is missing of a session's updates, or of the prompts, is what is older than
\* as many as are kept, so that the pruning and the panel agree on which those
\* are: however posts of several sessions and deletions alternate, and with any
\* ids for rows of one millisecond (store/authored/updates.ts, prompts.ts).
NewestKept ==
    /\ \A u \in posted \ updates :
        Cardinality({v \in Of(posted, u.session) : NewerThan(v, u)}) >= Retention
    /\ \A p \in recorded \ (prompts \cup deleted) :
        Cardinality({q \in recorded : NewerThan(q, p)}) >= PromptRetention

=============================================================================
