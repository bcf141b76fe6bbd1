------------------------------- MODULE Outbox -------------------------------
(***************************************************************************)
(* The action outbox: the confirmation tokens held in memory               *)
(* (services/confirmation.ts), the outbox service (services/outbox.ts) and *)
(* the table it keeps in authored.db (store/authored/outbox.ts).           *)
(*                                                                         *)
(* better-sqlite3 is synchronous and no handler here awaits anything, so   *)
(* one call of one operation is one step.  An operation that is refused    *)
(* without changing anything is a stuttering step and has no action; the   *)
(* refusals that do leave a trace (a burned token, a sweep of the claims)  *)
(* have one.  Time is a counter in an abstract unit; the clock never runs  *)
(* backwards.                                                              *)
(***************************************************************************)
EXTENDS Naturals, SequencesExt

CONSTANTS
    Requests,        \* what may be confirmed: a subject, a kind and a payload
    Actionable,      \* the requests whose subject may be acted upon
    Tokens,          \* the random values mint can draw; bounds the mints
    Ids,             \* the fresh action ids; bounds the rows
    Agents,          \* the names agents put in x-grndctrl-agent
    Operator, System, Unknown, \* the other names a history entry may carry
    None,            \* SQL NULL, and "not yet" for a ghost
    Lease,           \* DEFAULT_CLAIM_LEASE_SEC
    PendingTtl,      \* DEFAULT_PENDING_TTL_SEC
    ConfirmTtl,      \* CONFIRMATION_TTL_SEC
    SweepScheduled,  \* does anything call sweep?  Nothing in the product does
    MaxTime          \* bound: the clock stops there

Actors == Agents \cup {Operator, System, Unknown}

ASSUME OutboxAssumption ==
    /\ Actionable \subseteq Requests
    /\ {Lease, PendingTtl, ConfirmTtl} \subseteq Nat \ {0}
    /\ MaxTime \in Nat
    /\ SweepScheduled \in BOOLEAN
    /\ None \notin Requests \cup Tokens \cup Actors

\* The column `state`, with "absent" for an id that has no row (and for the
\* `from` of a first history entry, which the code writes as null).
States == {"absent", "pending", "claimed", "complete", "failed", "expired",
           "cancelled"}
Terminal == {"complete", "failed", "expired", "cancelled"}

Entry == [at : Nat, from : States, to : States, actor : Actors]

Row == [state : States, request : Requests \cup {None}, confirmedAt : Nat,
        claimedBy : Actors \cup {None}, leaseEnd : Nat, history : Seq(Entry)]

NoRow == [state |-> "absent", request |-> None, confirmedAt |-> 0,
          claimedBy |-> None, leaseEnd |-> 0, history |-> << >>]

VARIABLES
    now,      \* ctx.now()
    issued,   \* confirmation.ts `issued`: the tokens in the process's memory
    bound,    \* the request each token was minted for; kept after the token
    expiresAt,\*   and its expiry are gone, as a ghost
    rows,     \* outbox_actions
    origin    \* ghost: the token whose consumption inserted the row

vars == <<now, issued, bound, expiresAt, rows, origin>>
tokenVars == <<issued, bound, expiresAt>>

TypeOK ==
    /\ now \in Nat
    /\ issued \subseteq Tokens
    /\ bound \in [Tokens -> Requests \cup {None}]
    /\ expiresAt \in [Tokens -> Nat]
    /\ rows \in [Ids -> Row]
    /\ origin \in [Ids -> Tokens \cup {None}]

Init ==
    /\ now = 0
    /\ issued = {}
    /\ bound = [t \in Tokens |-> None]
    /\ expiresAt = [t \in Tokens |-> 0]
    /\ rows = [id \in Ids |-> NoRow]
    /\ origin = [id \in Ids |-> None]

-----------------------------------------------------------------------------
(* Confirmation tokens.                                                    *)

\* The tokens left once mint or consume has swept the expired ones.
Unexpired == {t \in issued : expiresAt[t] > now}

\* outbox.mintConfirmation: a gesture of the operator in the window.
Mint(t, r) ==
    /\ r \in Actionable
    /\ bound[t] = None
    /\ issued' = Unexpired \cup {t}
    /\ bound' = [bound EXCEPT ![t] = r]
    /\ expiresAt' = [expiresAt EXCEPT ![t] = now + ConfirmTtl]
    /\ UNCHANGED <<now, rows, origin>>

\* Mutant: consume forgets to delete the token.
TokenKept(t) ==
    /\ issued' = Unexpired
    /\ UNCHANGED <<bound, expiresAt>>

\* consume: the token leaves the map before its binding is compared, so the
\* call that fails the comparison has used it up as well.
Consume(t) ==
    /\ issued' = Unexpired \ {t}
    /\ UNCHANGED <<bound, expiresAt>>

\* Mutant: the binding is not compared.
AcceptsAnything(t, r) == t \in Unexpired

Accepts(t, r) == t \in Unexpired /\ bound[t] = r

-----------------------------------------------------------------------------
(* The table.                                                              *)

\* Every transition appends its entry in the statement that makes it.
Moved(row, to, actor) ==
    [row EXCEPT
        !.state = to,
        !.history = Append(@, [at |-> now, from |-> row.state, to |-> to,
                               actor |-> actor])]

\* Mutant: the lease column is left behind.
LeaseLeftBehind(row) == [row EXCEPT !.claimedBy = None]

Unclaimed(row) == [row EXCEPT !.claimedBy = None, !.leaseEnd = 0]

\* Mutant: the confirmation is not stamped.
NotStamped(r) ==
    Moved([NoRow EXCEPT !.request = r, !.confirmedAt = None], "pending", Operator)

Inserted(r) ==
    Moved([NoRow EXCEPT !.request = r, !.confirmedAt = now], "pending", Operator)

\* Mutant: the WHERE clause lost its comparison with the clock.
LapsedAtOnce(row) == row.state = "claimed"

\* The WHERE clause of expireClaims: a lease that ends now has ended.
Lapsed(row) == row.state = "claimed" /\ row.leaseEnd <= now

\* The entry names the agent that let the claim go.
Dropper(row) == IF row.claimedBy = None THEN Unknown ELSE row.claimedBy

\* Mutant: the sweep writes the columns and no history entry.
RevivedSilently(row) ==
    IF Lapsed(row) THEN Unclaimed([row EXCEPT !.state = "pending"]) ELSE row

Revived(row) ==
    IF Lapsed(row) THEN Unclaimed(Moved(row, "pending", Dropper(row))) ELSE row

\* Mutant: nobody sweeps.
NothingExpires == rows

ExpireClaims == [id \in Ids |-> Revived(rows[id])]

Claimed(row, who) ==
    [Moved(row, "claimed", who) EXCEPT !.claimedBy = who, !.leaseEnd = now + Lease]

\* Mutant: the state is checked, the holder is not.
AnyoneHolds(who, id) == rows[id].state = "claimed"

\* requireClaimant.  Holding a claim whose lease has ended is still holding it.
HoldsClaim(who, id) == rows[id].state = "claimed" /\ rows[id].claimedBy = who

Overdue(row) == row.state = "pending" /\ row.confirmedAt + PendingTtl <= now

SweptRow(row) ==
    LET revived == Revived(row)
    IN  IF Overdue(revived) THEN Moved(revived, "expired", System) ELSE revived

-----------------------------------------------------------------------------
(* The operations.                                                         *)

\* outbox.enqueue with the token minted for exactly this request.
Enqueue(t, r, id) ==
    /\ Accepts(t, r)
    /\ Consume(t)
    /\ rows[id].state = "absent"
    /\ rows' = [rows EXCEPT ![id] = Inserted(r)]
    /\ origin' = [origin EXCEPT ![id] = t]
    /\ UNCHANGED now

\* outbox.enqueue refused: a token already used, expired, unknown, or minted
\* for another request.  It is gone from the map either way.
EnqueueRefused(t, r) ==
    /\ ~Accepts(t, r)
    /\ Consume(t)
    /\ UNCHANGED <<now, rows, origin>>

\* consume returned and the INSERT threw: the confirmation is spent, no row.
EnqueueFailed(t, r) ==
    /\ Accepts(t, r)
    /\ Consume(t)
    /\ UNCHANGED <<now, rows, origin>>

\* Mutant: the UPDATE has no condition on the state.
ClaimAlwaysWins(who, id) ==
    /\ ExpireClaims[id].state # "absent"
    /\ rows' = [ExpireClaims EXCEPT ![id] = Claimed(@, who)]
    /\ UNCHANGED <<now, tokenVars, origin>>

\* outbox.claim: the lapsed claims of the whole table go back to the queue
\* first, then the conditional UPDATE takes the row.
ClaimWon(who, id) ==
    /\ ExpireClaims[id].state = "pending"
    /\ rows' = [ExpireClaims EXCEPT ![id] = Claimed(@, who)]
    /\ UNCHANGED <<now, tokenVars, origin>>

\* The UPDATE matched nothing; the sweep before it has been committed.
ClaimLost(id) ==
    /\ ExpireClaims[id].state # "pending"
    /\ rows' = ExpireClaims
    /\ UNCHANGED <<now, tokenVars, origin>>

Claim(who, id) == ClaimWon(who, id) \/ ClaimLost(id)

\* outbox.complete keeps the claim's columns, outbox.fail clears them.
Complete(who, id) ==
    /\ HoldsClaim(who, id)
    /\ rows' = [rows EXCEPT ![id] = Moved(@, "complete", who)]
    /\ UNCHANGED <<now, tokenVars, origin>>

Fail(who, id) ==
    /\ HoldsClaim(who, id)
    /\ rows' = [rows EXCEPT ![id] = Unclaimed(Moved(@, "failed", who))]
    /\ UNCHANGED <<now, tokenVars, origin>>

\* Mutant: any action may be cancelled.
CancelAnything(id) ==
    /\ rows[id].state # "absent"
    /\ rows' = [rows EXCEPT ![id] = Moved(@, "cancelled", Operator)]
    /\ UNCHANGED <<now, tokenVars, origin>>

\* outbox.cancel, on the window's surface only.
Cancel(id) ==
    /\ rows[id].state = "pending"
    /\ rows' = [rows EXCEPT ![id] = Moved(@, "cancelled", Operator)]
    /\ UNCHANGED <<now, tokenVars, origin>>

\* sweep(now): revive, then expire what nobody took.
Sweep ==
    /\ SweepScheduled
    /\ rows' = [id \in Ids |-> SweptRow(rows[id])]
    /\ UNCHANGED <<now, tokenVars, origin>>

\* The process dies and starts again: the table survives, the tokens do not.
Restart ==
    /\ issued' = {}
    /\ UNCHANGED <<now, bound, expiresAt, rows, origin>>

Tick ==
    /\ now < MaxTime
    /\ now' = now + 1
    /\ UNCHANGED <<tokenVars, rows, origin>>

\* What the window may do; what any surface may do, the window included.
OperatorStep ==
    \/ \E t \in Tokens, r \in Requests :
        Mint(t, r) \/ EnqueueRefused(t, r) \/ EnqueueFailed(t, r)
    \/ \E t \in Tokens, r \in Requests, id \in Ids : Enqueue(t, r, id)
    \/ \E id \in Ids : Cancel(id)

CallerStep(who, id) == Claim(who, id) \/ Complete(who, id) \/ Fail(who, id)

ProcessStep == Sweep \/ Restart \/ Tick

Next ==
    \/ OperatorStep
    \/ \E who \in Agents \cup {Operator}, id \in Ids : CallerStep(who, id)
    \/ ProcessStep

Spec == Init /\ [][Next]_vars

-----------------------------------------------------------------------------
(* Safety.                                                                 *)

Present(id) == rows[id].state # "absent"

\* Every row was confirmed by the operator for what it says: it was inserted
\* by consuming a token minted for that very request, on a subject that may be
\* acted upon, inside the token's window, and no other row spent the token.
\* outbox.ts:134 "There is no path into the table that skips it."
ConsentBacked ==
    \A id \in Ids : Present(id) =>
        LET t == origin[id] IN
        /\ t \in Tokens \ issued
        /\ bound[t] = rows[id].request /\ bound[t] \in Actionable
        /\ rows[id].confirmedAt < expiresAt[t]
        /\ \A other \in Ids \ {id} : origin[other] # t

\* The moves an action may make, as its history names them.
Move == { <<"absent", "pending">>, <<"pending", "claimed">>,
          <<"claimed", "pending">>, <<"claimed", "complete">>,
          <<"claimed", "failed">>, <<"pending", "expired">>,
          <<"pending", "cancelled">> }

\* The history is the whole truth about how a row came to its state: it starts
\* at the confirmation, each entry continues the one before it, no later entry
\* is dated earlier, and the last one ends where the row is.
HistoryExplains(row) ==
    LET h == row.history IN
    IF row.state = "absent" THEN h = << >>
    ELSE /\ Len(h) > 0 /\ Last(h).to = row.state
         /\ h[1].from = "absent" /\ h[1].at = row.confirmedAt
         /\ \A k \in 1..Len(h) : <<h[k].from, h[k].to>> \in Move /\ h[k].at <= now
         /\ \A k \in 1..(Len(h) - 1) :
                h[k].to = h[k + 1].from /\ h[k].at <= h[k + 1].at

HistoryCoherent == \A id \in Ids : HistoryExplains(rows[id])

\* A claim ends in one of three ways and the history shows which: its holder
\* reports, or its lease has run out, and then the entry names who dropped it
\* (outbox.ts:105 requireClaimant; store/authored/outbox.ts:189).
ClaimEnds(h) ==
    \A k \in 1..(Len(h) - 1) : h[k].to = "claimed" =>
        /\ h[k + 1].actor = h[k].actor
        /\ h[k + 1].to = "pending" => h[k].at + Lease <= h[k + 1].at

ClaimsEndProperly == \A id \in Ids : ClaimEnds(rows[id].history)

\* The claim's columns agree with the history: a row that is claimed or
\* complete names the last claimant and that claim's lease; no other row
\* names anybody.
ClaimColumns(row) ==
    LET h == row.history
        n == IF row.state = "complete" THEN Len(h) - 1 ELSE Len(h)
    IN  IF row.state \in {"claimed", "complete"}
        THEN h[n].to = "claimed" /\ row.claimedBy = h[n].actor
             /\ row.leaseEnd = h[n].at + Lease
        ELSE row.claimedBy = None /\ row.leaseEnd = 0

ClaimAgrees == \A id \in Ids : ClaimColumns(rows[id])

\* Both: what the table says of a claim now and what its history says of it are one
\* account, and that account keeps the terms of the lease (services/outbox.ts).
ClaimsAccounted == ClaimsEndProperly /\ ClaimAgrees

\* Nothing rewrites the log, and nothing leaves a terminal state: a failure is
\* not retried (outbox.ts:223), a withdrawn consent is not acted upon.
AppendOnly ==
    [][\A id \in Ids :
        /\ IsPrefix(rows[id].history, rows'[id].history)
        /\ rows[id].state \in Terminal => rows'[id] = rows[id]]_vars

-----------------------------------------------------------------------------
(* Liveness.                                                               *)

ClaimAny == \E who \in Agents, id \in Ids : Claim(who, id)

FairSpec == Spec /\ WF_vars(ClaimAny)

\* As long as somebody keeps calling claim, for whatever id, a claim whose
\* lease has ended does not stay: sweeping on claim "needs no scheduler to be
\* correct" (outbox.ts:174).
LapsedReturns == \A id \in Ids : Lapsed(rows[id]) ~> ~Lapsed(rows[id])

-----------------------------------------------------------------------------
(* The refinement of Dispatch.                                             *)

PhaseOf(state) ==
    CASE state = "absent"  -> "none"
      [] state = "pending" -> "waiting"
      [] state = "claimed" -> "taken"
      [] state \in {"complete", "failed"}   -> "done"
      [] state \in {"expired", "cancelled"} -> "withdrawn"

\* The claim of a complete row is kept as a record; nobody holds it any more.
Abstract == INSTANCE Dispatch WITH
    Gestures <- Tokens, Actions <- Ids, Holders <- Agents \cup {Operator},
    agreed <- bound,
    open <- issued,
    phase <- [id \in Ids |-> PhaseOf(rows[id].state)],
    holder <- [id \in Ids |-> IF rows[id].state = "claimed"
                              THEN rows[id].claimedBy ELSE None],
    gesture <- origin

\* With its clock, leases, sweeps, restarts and refused calls, the outbox does
\* nothing Dispatch does not allow: one action per confirmation, one holder at
\* a time, ended once and by that holder (constitution.md XVI).
ImplementsDispatch == Abstract!Spec

=============================================================================
