---------------------------- MODULE OutboxProofs ----------------------------
(***************************************************************************)
(* What holds of the outbox for every set of requests, tokens, ids and     *)
(* agents and every choice of the durations; and then of the agents'       *)
(* claims, for any number of processes, kills and lost answers, provided   *)
(* that each process goes by a name of its own.                            *)
(***************************************************************************)
EXTENDS OutboxAgents, TLAPS

-----------------------------------------------------------------------------
(* What the row operators return.                                          *)

\* The columns of a row after a transition, and its type: store/authored
\* transition() sets the state, appends to the history and nothing else.
LEMMA MovedRow ==
    ASSUME NEW row \in Row, NEW to \in States, NEW actor \in Actors, now \in Nat
    PROVE  LET m == Moved(row, to, actor)
               e == [at |-> now, from |-> row.state, to |-> to, actor |-> actor]
           IN  /\ m \in Row
               /\ m.state = to
               /\ m.request = row.request /\ m.confirmedAt = row.confirmedAt
               /\ m.claimedBy = row.claimedBy /\ m.leaseEnd = row.leaseEnd
               /\ m.history = Append(row.history, e)
               /\ e \in Entry
<1> DEFINE e == [at |-> now, from |-> row.state, to |-> to, actor |-> actor]
           h == Append(row.history, e)
<1>1. e \in Entry
  BY DEF Entry, Row
<1>2. h \in Seq(Entry)
  BY <1>1 DEF Row
<1>3. Moved(row, to, actor) = [row EXCEPT !.state = to, !.history = h]
  BY DEF Moved
<1>4. QED
  BY <1>1, <1>2, <1>3 DEF Row

\* Clearing a claim touches the two claim columns only.
LEMMA UnclaimedRow ==
    ASSUME NEW row \in Row
    PROVE  LET u == Unclaimed(row)
           IN  /\ u \in Row
               /\ u.state = row.state
               /\ u.request = row.request /\ u.confirmedAt = row.confirmedAt
               /\ u.history = row.history
               /\ u.claimedBy = None /\ u.leaseEnd = 0
  BY DEF Unclaimed, Row

\* The row a successful claim writes.
LEMMA ClaimedRow ==
    ASSUME NEW row \in Row, NEW who \in Actors, now \in Nat
    PROVE  LET c == Claimed(row, who)
               m == Moved(row, "claimed", who)
           IN  /\ c \in Row
               /\ c.state = "claimed"
               /\ c.request = row.request /\ c.confirmedAt = row.confirmedAt
               /\ c.claimedBy = who /\ c.leaseEnd = now + Lease
               /\ c.history = m.history
<1> DEFINE m == Moved(row, "claimed", who)
<1>1. "claimed" \in States
  BY DEF States
<1>2. m \in Row /\ m.state = "claimed" /\ m.request = row.request
      /\ m.confirmedAt = row.confirmedAt
  BY <1>1, MovedRow
<1>3. now + Lease \in Nat
  BY OutboxAssumption
<1> HIDE DEF m
<1>4. Claimed(row, who) = [m EXCEPT !.claimedBy = who, !.leaseEnd = now + Lease]
  BY DEF Claimed, m
<1>5. QED
  BY <1>2, <1>3, <1>4 DEF Row, m

\* NoRow is a row, and so is the one enqueue inserts.
LEMMA InsertedRow ==
    ASSUME NEW r \in Requests, now \in Nat
    PROVE  LET i == Inserted(r)
               e == [at |-> now, from |-> "absent", to |-> "pending", actor |-> Operator]
           IN  /\ NoRow \in Row
               /\ i \in Row /\ i.state = "pending" /\ i.request = r
               /\ i.confirmedAt = now /\ i.claimedBy = None /\ i.leaseEnd = 0
               /\ i.history = <<e>>
<1> DEFINE n == [NoRow EXCEPT !.request = r, !.confirmedAt = now]
<1>1. NoRow \in Row
  BY DEF NoRow, Row, States
<1>2. n \in Row /\ n.state = "absent" /\ n.request = r /\ n.confirmedAt = now
      /\ n.claimedBy = None /\ n.leaseEnd = 0 /\ n.history = << >>
  BY <1>1 DEF NoRow, Row
<1> HIDE DEF n
<1>3. "pending" \in States /\ Operator \in Actors
  BY DEF States, Actors
<1>4. Inserted(r) = Moved(n, "pending", Operator)
  BY DEF Inserted, n
<1>5. QED
  BY <1>1, <1>2, <1>3, <1>4, MovedRow

-----------------------------------------------------------------------------
(* What one step may do to one row.                                        *)

\* The row's part of the inductive invariant.
RowInv(row) == HistoryExplains(row) /\ ClaimEnds(row.history) /\ ClaimColumns(row)

\* The older log is the beginning of the newer one.
Extends(s, t) == Len(s) <= Len(t) /\ \A k \in 1..Len(s) : t[k] = s[k]

\* What every operation but enqueue does to a row: it remains about the same
\* confirmed request, its log grows at the end, a terminal row is not touched,
\* and the row's invariant holds of the result.
RowKept(row, new) ==
    /\ new \in Row /\ RowInv(new)
    /\ new.request = row.request /\ new.confirmedAt = row.confirmedAt
    /\ new.state = "absent" <=> row.state = "absent"
    /\ Extends(row.history, new.history)
    /\ row.state \in Terminal => new = row

\* A legal move, made by the holder if the row is claimed, and to `pending` only
\* when the lease has run out, leaves a log that explains the row and accounts
\* for its claims.
LEMMA MoveKeepsLog ==
    ASSUME NEW row \in Row, NEW to \in States, NEW actor \in Actors, now \in Nat,
           RowInv(row), row.state # "absent", <<row.state, to>> \in Move,
           row.state = "claimed" =>
               actor = row.claimedBy /\ (to = "pending" => row.leaseEnd <= now)
    PROVE  LET m == Moved(row, to, actor)
           IN  /\ HistoryExplains(m) /\ ClaimEnds(m.history)
               /\ Extends(row.history, m.history)
               /\ m.history[Len(m.history)].at = now
               /\ m.history[Len(m.history)].actor = actor
               /\ m.history[Len(m.history)].to = to
               /\ Len(m.history) = Len(row.history) + 1
<1> DEFINE m == Moved(row, to, actor)
           e == [at |-> now, from |-> row.state, to |-> to, actor |-> actor]
           h == row.history
           n == Len(h)
<1>1. /\ m \in Row /\ m.state = to /\ m.confirmedAt = row.confirmedAt
      /\ m.history = Append(h, e) /\ e \in Entry
  BY MovedRow
<1>2. h \in Seq(Entry) /\ n \in Nat
  BY DEF Row
<1>3. /\ n > 0 /\ h[n].to = row.state
      /\ h[1].from = "absent" /\ h[1].at = row.confirmedAt
      /\ \A k \in 1..n : <<h[k].from, h[k].to>> \in Move /\ h[k].at <= now
      /\ \A k \in 1..(n - 1) : h[k].to = h[k + 1].from /\ h[k].at <= h[k + 1].at
  BY DEF RowInv, HistoryExplains, Last
<1>4. \A k \in 1..n : h[k] \in Entry
  BY <1>2
<1> HIDE DEF m
<1>5. /\ Len(m.history) = n + 1 /\ m.history[n + 1] = e
      /\ \A k \in 1..n : m.history[k] = h[k]
  BY <1>1, <1>2
<1>6. e.at = now /\ e.from = row.state /\ e.to = to /\ e.actor = actor
  OBVIOUS
<1> HIDE DEF e, h, n
<1>7. HistoryExplains(m)
  <2>1. Len(m.history) > 0 /\ Last(m.history).to = m.state
    BY <1>1, <1>2, <1>5, <1>6 DEF Last
  <2>2. m.history[1].from = "absent" /\ m.history[1].at = m.confirmedAt
    BY <1>1, <1>2, <1>3, <1>5
  <2>3. ASSUME NEW k \in 1..Len(m.history)
        PROVE  <<m.history[k].from, m.history[k].to>> \in Move /\ m.history[k].at <= now
    <3>1. CASE k = n + 1
      BY <3>1, <1>5, <1>6
    <3>2. CASE k # n + 1
      BY <3>2, <1>2, <1>3, <1>5
    <3>3. QED
      BY <3>1, <3>2
  <2>4. ASSUME NEW k \in 1..(Len(m.history) - 1)
        PROVE  /\ m.history[k].to = m.history[k + 1].from
               /\ m.history[k].at <= m.history[k + 1].at
    <3>0. k \in 1..n /\ m.history[k] = h[k]
      BY <1>2, <1>5
    <3>1. CASE k = n
      <4>1. m.history[k + 1] = e
        BY <3>1, <1>5
      <4>2. h[k].to = row.state /\ h[k].at <= now
        BY <3>0, <3>1, <1>3
      <4>3. QED
        BY <3>0, <4>1, <4>2, <1>6
    <3>2. CASE k # n
      <4>0. k \in 1..(n - 1)
        BY <3>0, <3>2, <1>2
      <4>1. m.history[k + 1] = h[k + 1]
        BY <4>0, <1>2, <1>5
      <4>2. h[k].to = h[k + 1].from /\ h[k].at <= h[k + 1].at
        BY <4>0, <1>3
      <4>3. QED
        BY <3>0, <4>1, <4>2
    <3>3. QED
      BY <3>1, <3>2
  <2>5. m.state # "absent"
    BY <1>1 DEF Move
  <2>6. QED
    BY <2>1, <2>2, <2>3, <2>4, <2>5 DEF HistoryExplains
<1>8. ClaimEnds(m.history)
  <2> SUFFICES ASSUME NEW k \in 1..(Len(m.history) - 1), m.history[k].to = "claimed"
               PROVE  /\ m.history[k + 1].actor = m.history[k].actor
                      /\ m.history[k + 1].to = "pending" =>
                            m.history[k].at + Lease <= m.history[k + 1].at
    BY DEF ClaimEnds
  <2>1. CASE k = n
    <3>1. row.state = "claimed"
      <4>1. n \in 1..n
        BY <1>2, <1>3
      <4>2. m.history[n] = h[n]
        BY <1>5, <4>1
      <4>3. h[n].to = row.state
        BY <1>3
      <4>4. QED
        BY <2>1, <4>2, <4>3
    <3>2. h[n].actor = row.claimedBy /\ row.leaseEnd = h[n].at + Lease
      BY <3>1 DEF RowInv, ClaimColumns, h, n
    <3>3. QED
      BY <2>1, <3>1, <3>2, <1>2, <1>3, <1>5, <1>6
  <2>2. CASE k # n
    <3>1. k \in 1..(n - 1)
      BY <2>2, <1>2, <1>5
    <3>2. m.history[k] = h[k] /\ m.history[k + 1] = h[k + 1]
      BY <3>1, <1>2, <1>5
    <3>3. QED
      BY <3>1, <3>2 DEF RowInv, ClaimEnds, h, n
  <2>3. QED
    BY <2>1, <2>2
<1>9. Extends(h, m.history)
  BY <1>2, <1>5 DEF Extends, n
<1>10. QED
  BY <1>5, <1>6, <1>7, <1>8, <1>9 DEF h, m, n

\* Doing nothing keeps a row.
LEMMA KeptReflexive ==
    ASSUME NEW row \in Row, RowInv(row)
    PROVE  RowKept(row, row)
  BY DEF RowKept, Extends, Row

\* Keeping a row twice keeps it: claim and sweep revive it first.
LEMMA KeptTransitive ==
    ASSUME NEW row \in Row, NEW mid \in Row, NEW new \in Row,
           RowKept(row, mid), RowKept(mid, new)
    PROVE  RowKept(row, new)
<1>1. Len(row.history) \in Nat /\ Len(mid.history) \in Nat /\ Len(new.history) \in Nat
  BY DEF Row
<1>2. Extends(row.history, new.history)
  BY <1>1 DEF RowKept, Extends
<1>3. QED
  BY <1>2 DEF RowKept

\* A move that leaves the row waiting or ended without a holder, for a row whose
\* claim columns are empty afterwards.
LEMMA PlainMoveKept ==
    ASSUME NEW row \in Row, RowInv(row), now \in Nat,
           NEW to \in States \ {"absent", "claimed", "complete"}, NEW actor \in Actors,
           row.state = "pending", <<row.state, to>> \in Move
    PROVE  RowKept(row, Moved(row, to, actor))
<1> DEFINE m == Moved(row, to, actor)
<1>1. /\ m \in Row /\ m.state = to
      /\ m.request = row.request /\ m.confirmedAt = row.confirmedAt
      /\ m.claimedBy = row.claimedBy /\ m.leaseEnd = row.leaseEnd
  BY MovedRow
<1>2. HistoryExplains(m) /\ ClaimEnds(m.history) /\ Extends(row.history, m.history)
  BY MoveKeepsLog
<1> HIDE DEF m
<1>3. ClaimColumns(m)
  BY <1>1 DEF RowInv, ClaimColumns
<1>4. QED
  BY <1>1, <1>2, <1>3 DEF RowKept, RowInv, Terminal, m

\* A move out of `claimed` that clears the claim: a lapse, or a failure.
LEMMA ReleaseKept ==
    ASSUME NEW row \in Row, RowInv(row), now \in Nat, NEW to \in {"pending", "failed"},
           row.state = "claimed", to = "pending" => row.leaseEnd <= now,
           row.claimedBy \in Actors
    PROVE  RowKept(row, Unclaimed(Moved(row, to, row.claimedBy)))
<1> DEFINE m == Moved(row, to, row.claimedBy)
           u == Unclaimed(m)
<1>0. to \in States /\ <<row.state, to>> \in Move
  BY DEF States, Move
<1>1. /\ m \in Row /\ m.state = to
      /\ m.request = row.request /\ m.confirmedAt = row.confirmedAt
  BY <1>0, MovedRow
<1>2. HistoryExplains(m) /\ ClaimEnds(m.history) /\ Extends(row.history, m.history)
  BY <1>0, MoveKeepsLog
<1> HIDE DEF m
<1>3. /\ u \in Row /\ u.state = to
      /\ u.request = row.request /\ u.confirmedAt = row.confirmedAt
      /\ u.history = m.history /\ u.claimedBy = None /\ u.leaseEnd = 0
  BY <1>1, UnclaimedRow
<1> HIDE DEF u
<1>4. HistoryExplains(u)
  BY <1>1, <1>2, <1>3 DEF HistoryExplains
<1>5. ClaimColumns(u)
  BY <1>3 DEF ClaimColumns
<1>6. QED
  BY <1>1, <1>2, <1>3, <1>4, <1>5 DEF RowKept, RowInv, Terminal, u, m

\* A claimed row names its holder.
LEMMA HolderNamed ==
    ASSUME NEW row \in Row, RowInv(row), row.state = "claimed"
    PROVE  row.claimedBy \in Actors
<1>1. Len(row.history) \in 1..Len(row.history)
  BY DEF Row, RowInv, HistoryExplains
<1>2. row.history[Len(row.history)] \in Entry
  BY <1>1 DEF Row
<1>3. row.claimedBy = row.history[Len(row.history)].actor
  BY DEF RowInv, ClaimColumns
<1>4. QED
  BY <1>2, <1>3 DEF Entry

\* expireClaims, on one row.
LEMMA RevivedKept ==
    ASSUME NEW row \in Row, RowInv(row), now \in Nat
    PROVE  RowKept(row, Revived(row))
<1>1. CASE Lapsed(row)
  <2>1. row.claimedBy \in Actors
    BY <1>1, HolderNamed DEF Lapsed
  <2>2. Dropper(row) = row.claimedBy
    BY <2>1, OutboxAssumption DEF Dropper
  <2>3. Revived(row) = Unclaimed(Moved(row, "pending", row.claimedBy))
    BY <1>1, <2>2 DEF Revived
  <2>4. QED
    BY <1>1, <2>1, <2>3, ReleaseKept DEF Lapsed
<1>2. CASE ~Lapsed(row)
  BY <1>2, KeptReflexive DEF Revived
<1>3. QED
  BY <1>1, <1>2

\* The UPDATE of claim, on the row it matched.
LEMMA ClaimedKept ==
    ASSUME NEW row \in Row, RowInv(row), now \in Nat, NEW who \in Actors,
           row.state = "pending"
    PROVE  RowKept(row, Claimed(row, who))
<1> DEFINE m == Moved(row, "claimed", who)
           c == Claimed(row, who)
<1>1. "claimed" \in States /\ <<row.state, "claimed">> \in Move
  BY DEF States, Move
<1>2. m \in Row /\ m.state = "claimed" /\ m.confirmedAt = row.confirmedAt
  BY <1>1, MovedRow
<1>3. /\ HistoryExplains(m) /\ ClaimEnds(m.history) /\ Extends(row.history, m.history)
      /\ m.history[Len(m.history)].at = now
      /\ m.history[Len(m.history)].actor = who
      /\ m.history[Len(m.history)].to = "claimed"
  BY <1>1, MoveKeepsLog
<1>4. /\ c \in Row /\ c.state = "claimed"
      /\ c.request = row.request /\ c.confirmedAt = row.confirmedAt
      /\ c.claimedBy = who /\ c.leaseEnd = now + Lease /\ c.history = m.history
  BY ClaimedRow
<1> HIDE DEF m, c
<1>5. HistoryExplains(c)
  BY <1>2, <1>3, <1>4 DEF HistoryExplains
<1>6. ClaimColumns(c)
  BY <1>3, <1>4 DEF ClaimColumns
<1>7. QED
  BY <1>3, <1>4, <1>5, <1>6 DEF RowKept, RowInv, Terminal, c, m

\* complete keeps the claim's columns: they still name the last claim.
LEMMA CompleteKept ==
    ASSUME NEW row \in Row, RowInv(row), now \in Nat,
           row.state = "claimed", row.claimedBy \in Actors
    PROVE  RowKept(row, Moved(row, "complete", row.claimedBy))
<1> DEFINE m == Moved(row, "complete", row.claimedBy)
           n == Len(row.history)
<1>1. "complete" \in States /\ <<row.state, "complete">> \in Move
  BY DEF States, Move
<1>2. /\ m \in Row /\ m.state = "complete"
      /\ m.request = row.request /\ m.confirmedAt = row.confirmedAt
      /\ m.claimedBy = row.claimedBy /\ m.leaseEnd = row.leaseEnd
  BY <1>1, MovedRow
<1>3. /\ HistoryExplains(m) /\ ClaimEnds(m.history) /\ Extends(row.history, m.history)
      /\ Len(m.history) = n + 1
  BY <1>1, MoveKeepsLog
<1>4. n \in Nat /\ n > 0
  BY DEF Row, RowInv, HistoryExplains
<1> HIDE DEF m
<1>5. m.history[n] = row.history[n]
  BY <1>3, <1>4 DEF Extends, n
<1>6. /\ row.history[n].to = "claimed" /\ row.claimedBy = row.history[n].actor
      /\ row.leaseEnd = row.history[n].at + Lease
  BY DEF RowInv, ClaimColumns, n
<1> HIDE DEF n
<1>7. ClaimColumns(m)
  BY <1>2, <1>3, <1>4, <1>5, <1>6 DEF ClaimColumns
<1>8. QED
  BY <1>2, <1>3, <1>7 DEF RowKept, RowInv, Terminal, m

\* sweep, on one row.
LEMMA SweptKept ==
    ASSUME NEW row \in Row, RowInv(row), now \in Nat
    PROVE  RowKept(row, SweptRow(row))
<1> DEFINE v == Revived(row)
<1>1. RowKept(row, v) /\ v \in Row /\ RowInv(v)
  BY RevivedKept DEF RowKept
<1> HIDE DEF v
<1>2. CASE Overdue(v)
  <2>1. "expired" \in States \ {"absent", "claimed", "complete"} /\ System \in Actors
        /\ v.state = "pending" /\ <<v.state, "expired">> \in Move
    BY <1>2 DEF States, Actors, Move, Overdue
  <2>2. RowKept(v, Moved(v, "expired", System))
    BY <1>1, <2>1, PlainMoveKept
  <2>3. SweptRow(row) = Moved(v, "expired", System)
    BY <1>2 DEF SweptRow, v
  <2>4. Moved(v, "expired", System) \in Row
    BY <2>2 DEF RowKept
  <2>5. QED
    BY <1>1, <2>2, <2>3, <2>4, KeptTransitive
<1>3. CASE ~Overdue(v)
  BY <1>1, <1>3 DEF SweptRow, v
<1>4. QED
  BY <1>2, <1>3

\* The row enqueue inserts.
LEMMA InsertedInv ==
    ASSUME NEW r \in Requests, now \in Nat
    PROVE  Inserted(r) \in Row /\ RowInv(Inserted(r))
<1> DEFINE i == Inserted(r)
           e == [at |-> now, from |-> "absent", to |-> "pending", actor |-> Operator]
<1>1. /\ i \in Row /\ i.state = "pending" /\ i.confirmedAt = now
      /\ i.claimedBy = None /\ i.leaseEnd = 0 /\ i.history = <<e>>
  BY InsertedRow
<1> HIDE DEF i
<1>2. Len(i.history) = 1 /\ i.history[1] = e
  BY <1>1
<1>3. <<e.from, e.to>> \in Move /\ e.at = now /\ e.to = "pending" /\ e.from = "absent"
  BY DEF Move
<1>4. HistoryExplains(i)
  BY <1>1, <1>2, <1>3 DEF HistoryExplains, Last
<1>5. ClaimEnds(i.history)
  BY <1>2 DEF ClaimEnds
<1>6. ClaimColumns(i)
  BY <1>1 DEF ClaimColumns
<1>7. QED
  BY <1>1, <1>4, <1>5, <1>6 DEF RowInv, i

-----------------------------------------------------------------------------
(* The inductive invariant.                                                *)

\* A token in memory was minted for something that may be acted upon, and the
\* ids without a row have no origin.
TokensHeld == \A t \in issued : bound[t] \in Actionable
OriginsMatch == \A id \in Ids : ~Present(id) => origin[id] = None

IInv ==
    /\ TypeOK
    /\ TokensHeld
    /\ OriginsMatch
    /\ ConsentBacked
    /\ \A id \in Ids : RowInv(rows[id])

\* The calls that work on rows already there.
WorkStep ==
    \/ \E who \in Agents \cup {Operator}, id \in Ids : CallerStep(who, id)
    \/ \E id \in Ids : Cancel(id)
    \/ Sweep

\* Each of them keeps every row, and nothing but rows changes.
LEMMA WorkKeepsRows ==
    ASSUME IInv, WorkStep
    PROVE  /\ UNCHANGED <<now, tokenVars, origin>>
           /\ rows' \in [Ids -> Row]
           /\ \A id \in Ids : RowKept(rows[id], rows'[id])
<1>1. now \in Nat /\ rows \in [Ids -> Row] /\ \A id \in Ids : RowInv(rows[id])
  BY DEF IInv, TypeOK
<1>2. \A id \in Ids : RowKept(rows[id], rows[id])
  BY <1>1, KeptReflexive
<1>3. \A id \in Ids : ExpireClaims[id] = Revived(rows[id]) /\ RowKept(rows[id], ExpireClaims[id])
  BY <1>1, RevivedKept DEF ExpireClaims
<1>4. ExpireClaims \in [Ids -> Row]
  BY <1>3 DEF ExpireClaims, RowKept
<1>5. ASSUME NEW who \in Agents \cup {Operator}, NEW x \in Ids, ClaimWon(who, x)
      PROVE  rows' \in [Ids -> Row] /\ \A id \in Ids : RowKept(rows[id], rows'[id])
  <2>1. rows' = [ExpireClaims EXCEPT ![x] = Claimed(ExpireClaims[x], who)]
        /\ ExpireClaims[x].state = "pending"
    BY <1>5 DEF ClaimWon
  <2>2. who \in Actors /\ ExpireClaims[x] \in Row /\ RowInv(ExpireClaims[x])
    BY <1>3 DEF Actors, RowKept
  <2>3. RowKept(ExpireClaims[x], Claimed(ExpireClaims[x], who))
    BY <1>1, <2>1, <2>2, ClaimedKept
  <2>4. Claimed(ExpireClaims[x], who) \in Row
    BY <2>3 DEF RowKept
  <2>5. RowKept(rows[x], Claimed(ExpireClaims[x], who))
    BY <1>1, <1>3, <2>2, <2>3, <2>4, KeptTransitive
  <2>6. QED
    BY <1>3, <1>4, <2>1, <2>4, <2>5
<1>6. ASSUME NEW x \in Ids, ClaimLost(x)
      PROVE  rows' \in [Ids -> Row] /\ \A id \in Ids : RowKept(rows[id], rows'[id])
  BY <1>3, <1>4, <1>6 DEF ClaimLost
<1>7. ASSUME NEW x \in Ids, NEW new, rows' = [rows EXCEPT ![x] = new], RowKept(rows[x], new)
      PROVE  rows' \in [Ids -> Row] /\ \A id \in Ids : RowKept(rows[id], rows'[id])
  <2>1. new \in Row
    BY <1>7 DEF RowKept
  <2>2. QED
    BY <1>1, <1>2, <1>7, <2>1
<1>8. ASSUME NEW who \in Agents \cup {Operator}, NEW x \in Ids, Complete(who, x)
      PROVE  rows' \in [Ids -> Row] /\ \A id \in Ids : RowKept(rows[id], rows'[id])
  <2>1. rows' = [rows EXCEPT ![x] = Moved(rows[x], "complete", who)]
        /\ rows[x].state = "claimed" /\ rows[x].claimedBy = who
    BY <1>8 DEF Complete, HoldsClaim
  <2>2. who \in Actors
    BY DEF Actors
  <2>3. RowKept(rows[x], Moved(rows[x], "complete", who))
    BY <1>1, <2>1, <2>2, CompleteKept
  <2>4. QED
    BY <1>7, <2>1, <2>3
<1>9. ASSUME NEW who \in Agents \cup {Operator}, NEW x \in Ids, Fail(who, x)
      PROVE  rows' \in [Ids -> Row] /\ \A id \in Ids : RowKept(rows[id], rows'[id])
  <2>1. rows' = [rows EXCEPT ![x] = Unclaimed(Moved(rows[x], "failed", who))]
        /\ rows[x].state = "claimed" /\ rows[x].claimedBy = who
    BY <1>9 DEF Fail, HoldsClaim
  <2>2. who \in Actors
    BY DEF Actors
  <2>3. RowKept(rows[x], Unclaimed(Moved(rows[x], "failed", who)))
    BY <1>1, <2>1, <2>2, ReleaseKept
  <2>4. QED
    BY <1>7, <2>1, <2>3
<1>10. ASSUME NEW x \in Ids, Cancel(x)
       PROVE  rows' \in [Ids -> Row] /\ \A id \in Ids : RowKept(rows[id], rows'[id])
  <2>1. rows' = [rows EXCEPT ![x] = Moved(rows[x], "cancelled", Operator)]
        /\ rows[x].state = "pending"
    BY <1>10 DEF Cancel
  <2>2. Operator \in Actors /\ "cancelled" \in States \ {"absent", "claimed", "complete"}
        /\ <<rows[x].state, "cancelled">> \in Move
    BY <2>1 DEF Actors, States, Move
  <2>3. RowKept(rows[x], Moved(rows[x], "cancelled", Operator))
    BY <1>1, <2>1, <2>2, PlainMoveKept
  <2>4. QED
    BY <1>7, <2>1, <2>3
<1>11. ASSUME Sweep
       PROVE  rows' \in [Ids -> Row] /\ \A id \in Ids : RowKept(rows[id], rows'[id])
  <2>1. \A id \in Ids : RowKept(rows[id], SweptRow(rows[id]))
    BY <1>1, SweptKept
  <2>2. rows' = [id \in Ids |-> SweptRow(rows[id])]
    BY <1>11 DEF Sweep
  <2>3. QED
    BY <2>1, <2>2 DEF RowKept
<1>12. UNCHANGED <<now, tokenVars, origin>>
  BY DEF WorkStep, CallerStep, Claim, ClaimWon, ClaimLost, Complete, Fail, Cancel, Sweep,
         tokenVars
<1>13. QED
  BY <1>5, <1>6, <1>8, <1>9, <1>10, <1>11, <1>12 DEF WorkStep, CallerStep, Claim

\* The empty table, with no token minted.
LEMMA InvStart == Init => IInv
<1> SUFFICES ASSUME Init PROVE IInv
  OBVIOUS
<1> USE DEF Init
<1>1. NoRow \in Row /\ NoRow.state = "absent" /\ NoRow.history = << >>
      /\ NoRow.claimedBy = None /\ NoRow.leaseEnd = 0
  BY DEF NoRow, Row, States
<1>2. TypeOK
  BY <1>1 DEF TypeOK
<1>3. RowInv(NoRow)
  BY <1>1 DEF RowInv, HistoryExplains, ClaimEnds, ClaimColumns
<1>4. \A id \in Ids : RowInv(rows[id]) /\ ~Present(id)
  BY <1>1, <1>3 DEF Present
<1>5. TokensHeld /\ OriginsMatch /\ ConsentBacked
  BY <1>4 DEF TokensHeld, OriginsMatch, ConsentBacked
<1>6. QED
  BY <1>2, <1>4, <1>5 DEF IInv

\* Working on the table leaves every row backed by the consent it had.
LEMMA WorkPreserves ==
    ASSUME IInv, WorkStep
    PROVE  IInv'
<1>1. /\ UNCHANGED <<now, issued, bound, expiresAt, origin>>
      /\ rows' \in [Ids -> Row]
      /\ \A id \in Ids : RowKept(rows[id], rows'[id])
  BY WorkKeepsRows DEF tokenVars
<1>2. TypeOK'
  BY <1>1 DEF IInv, TypeOK
<1>3. \A id \in Ids : Present(id)' <=> Present(id)
  BY <1>1 DEF Present, RowKept
<1>4. TokensHeld' /\ OriginsMatch'
  BY <1>1, <1>3 DEF IInv, TokensHeld, OriginsMatch
<1>5. ConsentBacked'
  BY <1>1, <1>3 DEF IInv, ConsentBacked, RowKept
<1>6. \A id \in Ids : RowInv(rows[id])'
  BY <1>1 DEF RowKept, RowInv, HistoryExplains
<1>7. QED
  BY <1>2, <1>4, <1>5, <1>6 DEF IInv

\* The steps that concern tokens, the process or the clock, and leave the rows.
IdleStep ==
    \/ \E t \in Tokens, r \in Requests :
        Mint(t, r) \/ EnqueueRefused(t, r) \/ EnqueueFailed(t, r)
    \/ Restart
    \/ Tick
    \/ UNCHANGED vars

\* A fresh token is no row's origin; every other such step only drops tokens.
LEMMA IdlePreserves ==
    ASSUME IInv, IdleStep
    PROVE  IInv'
<1>1. /\ TypeOK /\ TokensHeld /\ OriginsMatch /\ ConsentBacked
      /\ \A id \in Ids : RowInv(rows[id])
  BY DEF IInv
<1>2. rows' = rows /\ origin' = origin /\ now' \in Nat /\ now <= now'
  BY <1>1, OutboxAssumption DEF IdleStep, Mint, EnqueueRefused, EnqueueFailed, Restart, Tick,
     vars, tokenVars, TypeOK
<1>3. \A id \in Ids : RowInv(rows[id])'
  <2> SUFFICES ASSUME NEW id \in Ids PROVE RowInv(rows[id])'
    OBVIOUS
  <2>1. \A k \in 1..Len(rows[id].history) : rows[id].history[k] \in Entry
    BY <1>1 DEF TypeOK, Row
  <2>2. HistoryExplains(rows[id])
    BY <1>1 DEF RowInv
  <2>3. HistoryExplains(rows[id])'
    BY <1>1, <1>2, <2>1, <2>2 DEF HistoryExplains, TypeOK, Entry
  <2>4. QED
    BY <1>1, <1>2, <2>3 DEF RowInv
<1>4. \A id \in Ids : Present(id)' <=> Present(id)
  BY <1>2 DEF Present
<1>5. OriginsMatch'
  BY <1>1, <1>2, <1>4 DEF OriginsMatch
<1>6. CASE \E t \in Tokens, r \in Requests : Mint(t, r)
  <2>1. PICK t \in Tokens, r \in Requests : Mint(t, r)
    BY <1>6
  <2>2. /\ r \in Actionable /\ bound[t] = None
        /\ issued' \subseteq issued \cup {t}
        /\ bound' = [bound EXCEPT ![t] = r]
        /\ expiresAt' = [expiresAt EXCEPT ![t] = now + ConfirmTtl]
    BY <2>1 DEF Mint, Unexpired
  <2>3. now + ConfirmTtl \in Nat /\ None \notin Actionable
    BY <1>1, OutboxAssumption DEF TypeOK
  <2>4. TypeOK'
    BY <1>1, <1>2, <2>2, <2>3 DEF TypeOK
  <2>5. TokensHeld'
    BY <1>1, <2>2 DEF TokensHeld, TypeOK
  <2>6. \A id \in Ids : Present(id) => origin[id] # t
    BY <1>1, <2>2, <2>3 DEF ConsentBacked
  <2>7. ConsentBacked'
    BY <1>1, <1>2, <1>4, <2>2, <2>6 DEF ConsentBacked, TypeOK
  <2>8. QED
    BY <1>3, <1>5, <2>4, <2>5, <2>7 DEF IInv
<1>7. CASE issued' \subseteq issued /\ bound' = bound /\ expiresAt' = expiresAt
  <2>1. TypeOK'
    BY <1>1, <1>2, <1>7 DEF TypeOK
  <2>2. TokensHeld'
    BY <1>1, <1>7 DEF TokensHeld
  <2>3. ConsentBacked'
    BY <1>1, <1>2, <1>4, <1>7 DEF ConsentBacked
  <2>4. QED
    BY <1>3, <1>5, <2>1, <2>2, <2>3 DEF IInv
<1>8. QED
  BY <1>6, <1>7 DEF IdleStep, EnqueueRefused, EnqueueFailed, Consume, Restart, Tick, vars,
     tokenVars, Unexpired

\* enqueue: the token it spends is still in memory, so it is no row's origin,
\* and afterwards it is in memory no more.
LEMMA EnqueuePreserves ==
    ASSUME IInv, NEW t \in Tokens, NEW r \in Requests, NEW x \in Ids, Enqueue(t, r, x)
    PROVE  IInv'
<1>1. /\ TypeOK /\ TokensHeld /\ OriginsMatch /\ ConsentBacked
      /\ \A id \in Ids : RowInv(rows[id])
  BY DEF IInv
<1>2. /\ t \in issued /\ now < expiresAt[t] /\ bound[t] = r
      /\ issued' \subseteq issued \ {t} /\ bound' = bound /\ expiresAt' = expiresAt
      /\ ~Present(x) /\ now' = now
      /\ rows' = [rows EXCEPT ![x] = Inserted(r)]
      /\ origin' = [origin EXCEPT ![x] = t]
  BY <1>1 DEF Enqueue, Accepts, Unexpired, Consume, Present, TypeOK
<1>3. Inserted(r) \in Row /\ RowInv(Inserted(r))
  BY <1>1, InsertedInv DEF TypeOK
<1>4. /\ Inserted(r).state = "pending" /\ Inserted(r).request = r
      /\ Inserted(r).confirmedAt = now
  BY <1>1, InsertedRow DEF TypeOK
<1>5. TypeOK'
  BY <1>1, <1>2, <1>3 DEF TypeOK
<1>6. \A id \in Ids : RowInv(rows[id])'
  <2>1. \A id \in Ids : RowInv(rows'[id])
    BY <1>1, <1>2, <1>3 DEF TypeOK
  <2>2. QED
    BY <1>2, <2>1 DEF RowInv, HistoryExplains
<1>7. Present(x)' /\ \A id \in Ids \ {x} : Present(id)' <=> Present(id)
  BY <1>1, <1>2, <1>4 DEF Present, TypeOK
<1>8. TokensHeld'
  BY <1>1, <1>2 DEF TokensHeld
<1>9. OriginsMatch'
  BY <1>1, <1>2, <1>7 DEF OriginsMatch, TypeOK
<1>10. \A id \in Ids : origin[id] # t
  <2>1. t # None
    BY OutboxAssumption
  <2>2. QED
    BY <1>1, <1>2, <2>1 DEF ConsentBacked, OriginsMatch
<1>11. ConsentBacked'
  <2> SUFFICES ASSUME NEW id \in Ids, Present(id)'
               PROVE  /\ origin'[id] \in Tokens \ issued'
                      /\ bound'[origin'[id]] = rows'[id].request
                      /\ bound'[origin'[id]] \in Actionable
                      /\ rows'[id].confirmedAt < expiresAt'[origin'[id]]
                      /\ \A other \in Ids \ {id} : origin'[other] # origin'[id]
    BY DEF ConsentBacked
  <2>1. CASE id = x
    BY <2>1, <1>1, <1>2, <1>4, <1>10 DEF TypeOK, TokensHeld
  <2>2. CASE id # x
    <3>1. origin'[id] = origin[id] /\ rows'[id] = rows[id] /\ Present(id)
      BY <2>2, <1>1, <1>2, <1>7 DEF TypeOK
    <3>2. /\ origin[id] \in Tokens \ issued
          /\ bound[origin[id]] = rows[id].request /\ bound[origin[id]] \in Actionable
          /\ rows[id].confirmedAt < expiresAt[origin[id]]
          /\ \A other \in Ids \ {id} : origin[other] # origin[id]
      BY <1>1, <3>1 DEF ConsentBacked
    <3>3. \A other \in Ids \ {id} : origin'[other] # origin'[id]
      BY <3>1, <3>2, <1>1, <1>2, <1>10 DEF TypeOK
    <3>4. QED
      BY <3>1, <3>2, <3>3, <1>2
  <2>3. QED
    BY <2>1, <2>2
<1>12. QED
  BY <1>5, <1>6, <1>8, <1>9, <1>11 DEF IInv

\* Every step of the outbox is of one of the three kinds.
LEMMA StepKinds ==
    ASSUME [Next]_vars
    PROVE  \/ WorkStep
           \/ IdleStep
           \/ \E t \in Tokens, r \in Requests, id \in Ids : Enqueue(t, r, id)
  BY DEF Next, OperatorStep, ProcessStep, WorkStep, IdleStep

\* Whatever is called, restarted or ticked, the invariant survives.
LEMMA InvInductive == IInv /\ [Next]_vars => IInv'
  BY StepKinds, WorkPreserves, IdlePreserves, EnqueuePreserves

\* So it holds in every reachable state of the outbox.
LEMMA InvHolds == Spec => []IInv
<1>1. QED
  BY InvStart, InvInductive, PTL DEF Spec

-----------------------------------------------------------------------------
(* The theorems.                                                           *)

\* Every variable keeps its type, whatever is minted, claimed and swept.
THEOREM TypeCorrect == Spec => []TypeOK
<1>1. IInv => TypeOK
  BY DEF IInv
<1>2. QED
  BY <1>1, InvHolds, PTL

\* No row gets into the table but by the operator's confirmation of it, and no
\* confirmation makes two rows (services/outbox.ts enqueue, confirmation.ts).
THEOREM ConsentTheorem == Spec => []ConsentBacked
<1>1. IInv => ConsentBacked
  BY DEF IInv
<1>2. QED
  BY <1>1, InvHolds, PTL

\* The history tells how every row came to its state.
THEOREM AuditTheorem == Spec => []HistoryCoherent
<1>1. IInv => HistoryCoherent
  BY DEF IInv, RowInv, HistoryCoherent
<1>2. QED
  BY <1>1, InvHolds, PTL

\* A claim is ended by its holder or by its lease, and its columns agree with the history.
THEOREM ClaimsTheorem == Spec => []ClaimsAccounted
<1>1. IInv => ClaimsAccounted
  BY DEF IInv, RowInv, ClaimsAccounted, ClaimsEndProperly, ClaimAgrees
<1>2. QED
  BY <1>1, InvHolds, PTL

\* A log that extends another has it as a prefix.
LEMMA ExtendsIsPrefix ==
    ASSUME NEW s \in Seq(Entry), NEW t \in Seq(Entry), Extends(s, t)
    PROVE  IsPrefix(s, t)
<1>1. Len(s) \in Nat /\ Len(t) \in Nat /\ Len(s) <= Len(t)
  BY DEF Extends
<1>2. SubSeq(s, 1, Len(s)) = [k \in 1..Len(s) |-> s[k]]
  BY <1>1
<1>3. SubSeq(t, 1, Len(s)) = [k \in 1..Len(s) |-> t[k]]
  BY <1>1
<1>4. \A k \in 1..Len(s) : t[k] = s[k]
  BY DEF Extends
<1>5. [k \in 1..Len(s) |-> s[k]] = [k \in 1..Len(s) |-> t[k]]
  BY <1>4
<1>6. QED
  BY <1>1, <1>2, <1>3, <1>5 DEF IsPrefix

\* No step rewrites a log or touches a row that has ended.
THEOREM AppendOnlyTheorem == Spec => AppendOnly
<1> DEFINE Grows == \A id \in Ids :
        /\ IsPrefix(rows[id].history, rows'[id].history)
        /\ rows[id].state \in Terminal => rows'[id] = rows[id]
<1>1. ASSUME IInv, [Next]_vars
      PROVE  Grows
  <2>1. rows \in [Ids -> Row] /\ \A id \in Ids : RowInv(rows[id])
    BY <1>1 DEF IInv, TypeOK
  <2>2. rows' \in [Ids -> Row]
    BY <1>1, InvInductive DEF IInv, TypeOK
  <2>3. ASSUME NEW id \in Ids, RowKept(rows[id], rows'[id])
        PROVE  /\ IsPrefix(rows[id].history, rows'[id].history)
               /\ rows[id].state \in Terminal => rows'[id] = rows[id]
    <3>1. rows[id].history \in Seq(Entry) /\ rows'[id].history \in Seq(Entry)
      BY <2>1, <2>2 DEF Row
    <3>2. QED
      BY <2>3, <3>1, ExtendsIsPrefix DEF RowKept
  <2>4. CASE WorkStep
    BY <1>1, <2>3, <2>4, WorkKeepsRows
  <2>5. CASE IdleStep
    <3>1. rows' = rows
      BY <2>5 DEF IdleStep, Mint, EnqueueRefused, EnqueueFailed, Restart, Tick, vars
    <3>2. \A id \in Ids : RowKept(rows[id], rows'[id])
      BY <2>1, <3>1, KeptReflexive
    <3>3. QED
      BY <2>3, <3>2
  <2>6. ASSUME NEW t \in Tokens, NEW r \in Requests, NEW x \in Ids, Enqueue(t, r, x)
        PROVE  Grows
    <3> SUFFICES ASSUME NEW id \in Ids
                 PROVE  /\ IsPrefix(rows[id].history, rows'[id].history)
                        /\ rows[id].state \in Terminal => rows'[id] = rows[id]
      OBVIOUS
    <3>1. rows[x].state = "absent" /\ rows' = [rows EXCEPT ![x] = Inserted(r)]
      BY <2>6 DEF Enqueue
    <3>2. CASE id = x
      <4>1. rows[id].history = << >> /\ rows[id].state \notin Terminal
        BY <2>1, <3>1, <3>2 DEF RowInv, HistoryExplains, Terminal
      <4>2. rows[id].history \in Seq(Entry) /\ rows'[id].history \in Seq(Entry)
        BY <2>1, <2>2 DEF Row
      <4>3. Extends(rows[id].history, rows'[id].history)
        BY <4>1, <4>2 DEF Extends
      <4>4. QED
        BY <4>1, <4>2, <4>3, ExtendsIsPrefix
    <3>3. CASE id # x
      <4>1. rows'[id] = rows[id]
        BY <2>1, <3>1, <3>3
      <4>2. RowKept(rows[id], rows'[id])
        BY <2>1, <4>1, KeptReflexive
      <4>3. QED
        BY <2>3, <4>2
    <3>4. QED
      BY <3>2, <3>3
  <2>7. QED
    BY <1>1, <2>4, <2>5, <2>6, StepKinds
<1>2. IInv /\ [Next]_vars => [Grows]_vars
  BY <1>1
<1>3. QED
  BY <1>2, InvHolds, PTL DEF Spec, AppendOnly

-----------------------------------------------------------------------------
(* What one call may do to a row nobody reports on.                        *)

\* The names a call may come under.
Callers == Agents \cup {Operator}

\* A row nobody reports on stays as it is, or it was nobody's: without a claim, or
\* with one whose lease has run out.  Then nobody holds it afterwards.
Drifts(row, new) ==
    \/ new = row
    \/ /\ row.state \in {"absent", "pending"} \/ Lapsed(row)
       /\ new.state # "claimed"

\* expireClaims drops the lapsed claims and touches nothing else.
LEMMA RevivedState ==
    ASSUME NEW row \in Row, RowInv(row), now \in Nat
    PROVE  IF Lapsed(row) THEN Revived(row).state = "pending" ELSE Revived(row) = row
<1>1. CASE Lapsed(row)
  <2> DEFINE m == Moved(row, "pending", Dropper(row))
  <2>1. Dropper(row) \in Actors /\ "pending" \in States
    BY <1>1, HolderNamed, OutboxAssumption DEF Dropper, Lapsed, States
  <2>2. m \in Row /\ m.state = "pending"
    BY <2>1, MovedRow
  <2>3. Revived(row) = Unclaimed(m)
    BY <1>1 DEF Revived
  <2> HIDE DEF m
  <2>4. Revived(row).state = "pending"
    BY <2>2, <2>3, UnclaimedRow
  <2>5. QED
    BY <1>1, <2>4
<1>2. QED
  BY <1>1 DEF Revived

\* So nobody's claim is dropped in time.
LEMMA RevivedDrifts ==
    ASSUME NEW row \in Row, RowInv(row), now \in Nat
    PROVE  /\ Drifts(row, Revived(row))
           /\ Revived(row).state = "pending" => row.state = "pending" \/ Lapsed(row)
  BY RevivedState DEF Drifts

\* The operator, the process and the clock take no claim and end none in time.
LEMMA OthersDrift ==
    ASSUME IInv, OperatorStep \/ ProcessStep, NEW x \in Ids
    PROVE  Drifts(rows[x], rows'[x])
<1>1. now \in Nat /\ rows \in [Ids -> Row] /\ rows[x] \in Row /\ RowInv(rows[x])
  BY DEF IInv, TypeOK
<1>2. CASE rows' = rows
  BY <1>2 DEF Drifts
<1>3. ASSUME NEW t \in Tokens, NEW r \in Requests, NEW id \in Ids, Enqueue(t, r, id)
      PROVE  Drifts(rows[x], rows'[x])
  <2>1. rows[id].state = "absent" /\ rows' = [rows EXCEPT ![id] = Inserted(r)]
    BY <1>3 DEF Enqueue
  <2>2. Inserted(r).state = "pending"
    BY <1>1, InsertedRow
  <2>3. QED
    BY <1>1, <2>1, <2>2 DEF Drifts
<1>4. ASSUME NEW id \in Ids, Cancel(id)
      PROVE  Drifts(rows[x], rows'[x])
  <2>1. rows[id].state = "pending"
        /\ rows' = [rows EXCEPT ![id] = Moved(rows[id], "cancelled", Operator)]
    BY <1>4 DEF Cancel
  <2>2. rows[id] \in Row /\ "cancelled" \in States /\ Operator \in Actors
    BY <1>1 DEF States, Actors
  <2>3. Moved(rows[id], "cancelled", Operator).state = "cancelled"
    BY <1>1, <2>2, MovedRow
  <2>4. QED
    BY <1>1, <2>1, <2>3 DEF Drifts
<1>5. CASE Sweep
  <2> DEFINE v == Revived(rows[x])
  <2>1. rows'[x] = IF Overdue(v) THEN Moved(v, "expired", System) ELSE v
    BY <1>5 DEF Sweep, SweptRow
  <2>2. v \in Row /\ Drifts(rows[x], v)
        /\ (v.state = "pending" => rows[x].state = "pending" \/ Lapsed(rows[x]))
    BY <1>1, RevivedKept, RevivedDrifts DEF RowKept
  <2> HIDE DEF v
  <2>3. CASE Overdue(v)
    <3>1. "expired" \in States /\ System \in Actors
      BY DEF States, Actors
    <3>2. Moved(v, "expired", System).state = "expired"
      BY <1>1, <2>2, <3>1, MovedRow
    <3>3. QED
      BY <2>1, <2>2, <2>3, <3>2 DEF Drifts, Overdue
  <2>4. QED
    BY <2>1, <2>2, <2>3
<1>6. QED
  BY <1>2, <1>3, <1>4, <1>5
     DEF OperatorStep, ProcessStep, Mint, EnqueueRefused, EnqueueFailed, Restart, Tick

\* A claim that wins takes a row nobody had, and lets the others drift.
LEMMA ClaimWonRows ==
    ASSUME IInv, NEW who \in Callers, NEW id \in Ids, ClaimWon(who, id)
    PROVE  /\ rows[id].state = "pending" \/ Lapsed(rows[id])
           /\ rows'[id].state = "claimed" /\ rows'[id].claimedBy = who
           /\ rows'[id].leaseEnd = now + Lease
           /\ \A x \in Ids \ {id} : Drifts(rows[x], rows'[x])
           /\ now' = now
<1>1. now \in Nat /\ \A x \in Ids : rows[x] \in Row /\ RowInv(rows[x])
  BY DEF IInv, TypeOK
<1>2. /\ ExpireClaims[id].state = "pending" /\ now' = now
      /\ rows' = [ExpireClaims EXCEPT ![id] = Claimed(ExpireClaims[id], who)]
  BY DEF ClaimWon
<1>3. \A x \in Ids : ExpireClaims[x] = Revived(rows[x])
  BY DEF ExpireClaims
<1>4. ExpireClaims[id] \in Row /\ who \in Actors
  BY <1>1, <1>3, RevivedKept DEF RowKept, Actors, Callers
<1>5. /\ Claimed(ExpireClaims[id], who).state = "claimed"
      /\ Claimed(ExpireClaims[id], who).claimedBy = who
      /\ Claimed(ExpireClaims[id], who).leaseEnd = now + Lease
  BY <1>1, <1>4, ClaimedRow
<1>6. rows'[id] = Claimed(ExpireClaims[id], who)
      /\ \A x \in Ids \ {id} : rows'[x] = Revived(rows[x])
  BY <1>2, <1>3 DEF ExpireClaims
<1>7. QED
  BY <1>1, <1>2, <1>3, <1>5, <1>6, RevivedDrifts

\* A claim that is lost lets every row drift.
LEMMA ClaimLostRows ==
    ASSUME IInv, NEW id \in Ids, ClaimLost(id)
    PROVE  now' = now /\ \A x \in Ids : Drifts(rows[x], rows'[x])
<1>1. now \in Nat /\ \A x \in Ids : rows[x] \in Row /\ RowInv(rows[x])
  BY DEF IInv, TypeOK
<1>2. now' = now /\ \A x \in Ids : rows'[x] = Revived(rows[x])
  BY DEF ClaimLost, ExpireClaims
<1>3. QED
  BY <1>1, <1>2, RevivedDrifts

\* A report ends the row it is about and touches no other.
LEMMA ReportRows ==
    ASSUME IInv, NEW who \in Callers, NEW id \in Ids, Complete(who, id) \/ Fail(who, id)
    PROVE  /\ rows[id].state = "claimed" /\ rows[id].claimedBy = who
           /\ rows'[id].state \in {"complete", "failed"}
           /\ \A x \in Ids \ {id} : rows'[x] = rows[x]
           /\ now' = now
<1>1. now \in Nat /\ rows \in [Ids -> Row] /\ rows[id] \in Row /\ who \in Actors
      /\ "complete" \in States /\ "failed" \in States
  BY DEF IInv, TypeOK, Actors, States, Callers
<1>2. /\ Moved(rows[id], "complete", who).state = "complete"
      /\ Moved(rows[id], "failed", who) \in Row
      /\ Moved(rows[id], "failed", who).state = "failed"
  BY <1>1, MovedRow
<1>3. Unclaimed(Moved(rows[id], "failed", who)).state = "failed"
  BY <1>2, UnclaimedRow
<1>4. /\ rows[id].state = "claimed" /\ rows[id].claimedBy = who /\ now' = now
      /\ \/ rows' = [rows EXCEPT ![id] = Moved(rows[id], "complete", who)]
         \/ rows' = [rows EXCEPT ![id] = Unclaimed(Moved(rows[id], "failed", who))]
  BY DEF Complete, Fail, HoldsClaim
<1>5. QED
  BY <1>1, <1>2, <1>3, <1>4

-----------------------------------------------------------------------------
(* The refinement of Dispatch.                                             *)

\* Nobody but a caller holds a claim.
HoldersKnown == \A id \in Ids : rows[id].state = "claimed" => rows[id].claimedBy \in Callers

\* A row that drifts has the holder it had, or none.
LEMMA HoldersStayKnown ==
    ASSUME IInv, HoldersKnown, [Next]_vars
    PROVE  HoldersKnown'
<1>1. ASSUME \A x \in Ids : Drifts(rows[x], rows'[x])
      PROVE  HoldersKnown'
  BY <1>1 DEF HoldersKnown, Drifts
<1>2. ASSUME NEW who \in Callers, NEW id \in Ids, ClaimWon(who, id)
      PROVE  HoldersKnown'
  BY <1>2, ClaimWonRows DEF HoldersKnown, Drifts
<1>3. ASSUME NEW who \in Callers, NEW id \in Ids, Complete(who, id) \/ Fail(who, id)
      PROVE  HoldersKnown'
  BY <1>3, ReportRows DEF HoldersKnown
<1>4. CASE UNCHANGED vars
  BY <1>4 DEF HoldersKnown, vars
<1>5. QED
  BY <1>1, <1>2, <1>3, <1>4, OthersDrift, ClaimLostRows DEF Next, CallerStep, Claim, Callers

\* As Dispatch sees them: who holds a row, and the ways in which one may move.
HolderOf(row) == IF row.state = "claimed" THEN row.claimedBy ELSE None
Still(row, new) == new.state = row.state /\ HolderOf(new) = HolderOf(row)
Released(row, new) == row.state = "claimed" /\ new.state = "pending"
Withdrawn(row, new) ==
    row.state \in {"pending", "claimed"} /\ new.state \in {"expired", "cancelled"}
Taken(row, new) ==
    row.state \in {"pending", "claimed"} /\ new.state = "claimed" /\ new.claimedBy \in Callers

\* A step that takes at most one action and otherwise keeps, releases or withdraws is
\* work as Dispatch has it.
LEMMA WorkMapped ==
    ASSUME rows' \in [Ids -> Row], HoldersKnown', UNCHANGED <<bound, issued, origin>>,
           NEW x \in Ids,
           \/ Still(rows[x], rows'[x]) \/ Taken(rows[x], rows'[x])
           \/ Released(rows[x], rows'[x]) \/ Withdrawn(rows[x], rows'[x]),
           \A y \in Ids \ {x} :
                \/ Still(rows[y], rows'[y]) \/ Released(rows[y], rows'[y])
                \/ Withdrawn(rows[y], rows'[y])
    PROVE  Abstract!Work
<1> DEFINE phase == [id \in Ids |-> PhaseOf(rows[id].state)]
           holder == [id \in Ids |-> HolderOf(rows[id])]
           phaseNext == [id \in Ids |-> PhaseOf(rows'[id].state)]
           holderNext == [id \in Ids |-> HolderOf(rows'[id])]
<1>1. \A id \in Ids : rows'[id].state \in States
  BY DEF Row
<1>2. phaseNext \in [Ids -> {"none", "waiting", "taken", "done", "withdrawn"}]
  BY <1>1 DEF PhaseOf, States
<1>3. holderNext \in [Ids -> Callers \cup {None}]
  BY DEF HolderOf, HoldersKnown
<1>4. ASSUME NEW y \in Ids, Still(rows[y], rows'[y])
      PROVE  Abstract!Stay(y)
  BY <1>4 DEF Still, HolderOf, Abstract!Stay
<1>5. ASSUME NEW y \in Ids, Released(rows[y], rows'[y])
      PROVE  Abstract!Release(y)
  BY <1>5 DEF Released, PhaseOf, Abstract!Release
<1>6. ASSUME NEW y \in Ids, Withdrawn(rows[y], rows'[y])
      PROVE  Abstract!Lapse(y)
  BY <1>6 DEF Withdrawn, PhaseOf, Abstract!Lapse
<1>7. ASSUME NEW y \in Ids, Taken(rows[y], rows'[y])
      PROVE  Abstract!Take(y)
  BY <1>7 DEF Taken, PhaseOf, Callers, Abstract!Take
<1>8. QED
  BY <1>2, <1>3, <1>4, <1>5, <1>6, <1>7 DEF Abstract!Work, HolderOf, Callers

\* sweep withdraws what nobody took, among the rows it has just released too.
LEMMA SweptMoves ==
    ASSUME NEW row \in Row, RowInv(row), now \in Nat
    PROVE  \/ Still(row, SweptRow(row)) \/ Released(row, SweptRow(row))
           \/ Withdrawn(row, SweptRow(row))
<1> DEFINE v == Revived(row)
<1>1. v \in Row /\ (v = row \/ Released(row, v))
  BY RevivedKept, RevivedState DEF RowKept, Released, Lapsed
<1>2. SweptRow(row) = IF Overdue(v) THEN Moved(v, "expired", System) ELSE v
  BY DEF SweptRow
<1> HIDE DEF v
<1>3. CASE Overdue(v)
  <2>1. "expired" \in States /\ System \in Actors
    BY DEF States, Actors
  <2>2. Moved(v, "expired", System).state = "expired"
    BY <1>1, <2>1, MovedRow
  <2>3. QED
    BY <1>1, <1>2, <1>3, <2>2 DEF Withdrawn, Released, Overdue
<1>4. CASE ~Overdue(v)
  BY <1>1, <1>2, <1>4 DEF Still
<1>5. QED
  BY <1>3, <1>4

\* Minting agrees to something; a refusal, a failed insertion and a restart forget.
LEMMA TokensMapped ==
    ASSUME IInv, IdleStep
    PROVE  Abstract!Next \/ UNCHANGED Abstract!vars
<1>1. UNCHANGED <<rows, origin>>
  BY DEF IdleStep, Mint, EnqueueRefused, EnqueueFailed, Restart, Tick, vars
<1>2. ASSUME NEW t \in Tokens, NEW r \in Requests, Mint(t, r)
      PROVE  Abstract!Next
  <2>1. Abstract!Agree(t, r)
    BY <1>1, <1>2 DEF Mint, Unexpired, Abstract!Agree
  <2>2. QED
    BY <2>1 DEF Abstract!Next
<1>3. CASE issued' \subseteq issued /\ bound' = bound
  BY <1>1, <1>3 DEF Abstract!Next, Abstract!Forget
<1>4. QED
  BY <1>2, <1>3 DEF IdleStep, EnqueueRefused, EnqueueFailed, Consume, Restart, Tick, vars,
     tokenVars, Unexpired

\* The token that enqueue spends becomes the row it inserts.
LEMMA EnqueueMapped ==
    ASSUME IInv, NEW t \in Tokens, NEW r \in Requests, NEW x \in Ids, Enqueue(t, r, x)
    PROVE  Abstract!Raise(t, x)
<1>1. /\ t \in issued /\ issued' \subseteq issued \ {t} /\ bound' = bound
      /\ rows[x].state = "absent"
      /\ rows' = [rows EXCEPT ![x] = Inserted(r)]
      /\ origin' = [origin EXCEPT ![x] = t]
  BY DEF Enqueue, Accepts, Unexpired, Consume
<1>2. Inserted(r).state = "pending"
  BY InsertedRow DEF IInv, TypeOK
<1>3. rows \in [Ids -> Row] /\ origin \in [Ids -> Tokens \cup {None}]
  BY DEF IInv, TypeOK
<1>4. \A id \in Ids : rows'[id] = IF id = x THEN Inserted(r) ELSE rows[id]
  BY <1>1, <1>3
<1> DEFINE phase == [id \in Ids |-> PhaseOf(rows[id].state)]
<1>5. phase[x] = "none"
  BY <1>1 DEF PhaseOf
<1>6. [id \in Ids |-> PhaseOf(rows'[id].state)] = [phase EXCEPT ![x] = "waiting"]
  <2>1. PhaseOf("pending") = "waiting"
    BY DEF PhaseOf
  <2>2. \A id \in Ids : PhaseOf(rows'[id].state) = IF id = x THEN "waiting" ELSE phase[id]
    BY <1>2, <1>4, <2>1
  <2>3. QED
    BY <2>2
<1>7. [id \in Ids |-> HolderOf(rows'[id])] = [id \in Ids |-> HolderOf(rows[id])]
  BY <1>1, <1>2, <1>4 DEF HolderOf
<1>8. QED
  BY <1>1, <1>5, <1>6, <1>7 DEF Abstract!Raise, HolderOf

\* complete and fail are the holder's.
LEMMA ReportMapped ==
    ASSUME IInv, NEW who \in Callers, NEW x \in Ids, Complete(who, x) \/ Fail(who, x)
    PROVE  Abstract!Finish(x, who)
<1>1. /\ rows[x].state = "claimed" /\ rows[x].claimedBy = who
      /\ rows'[x].state \in {"complete", "failed"}
      /\ \A id \in Ids \ {x} : rows'[id] = rows[id]
  BY ReportRows
<1>2. UNCHANGED <<bound, issued, origin>>
  BY DEF Complete, Fail, tokenVars
<1> DEFINE phase == [id \in Ids |-> PhaseOf(rows[id].state)]
           holder == [id \in Ids |-> HolderOf(rows[id])]
<1>3. phase[x] = "taken" /\ holder[x] = who
  BY <1>1 DEF PhaseOf, HolderOf
<1>4. [id \in Ids |-> PhaseOf(rows'[id].state)] = [phase EXCEPT ![x] = "done"]
  <2>1. PhaseOf("complete") = "done" /\ PhaseOf("failed") = "done"
    BY DEF PhaseOf
  <2>2. \A id \in Ids : PhaseOf(rows'[id].state) = IF id = x THEN "done" ELSE phase[id]
    BY <1>1, <2>1
  <2>3. QED
    BY <2>2
<1>5. [id \in Ids |-> HolderOf(rows'[id])] = [holder EXCEPT ![x] = None]
  <2>1. \A id \in Ids : HolderOf(rows'[id]) = IF id = x THEN None ELSE holder[id]
    BY <1>1 DEF HolderOf
  <2>2. QED
    BY <2>1
<1>6. QED
  BY <1>2, <1>3, <1>4, <1>5 DEF Abstract!Finish, HolderOf

\* claim, cancel and sweep are work; a sweep of no rows is nothing.
LEMMA CallsMapped ==
    ASSUME IInv, IInv', HoldersKnown',
           \/ \E who \in Callers, id \in Ids : Claim(who, id)
           \/ \E id \in Ids : Cancel(id)
           \/ Sweep
    PROVE  Abstract!Work \/ UNCHANGED Abstract!vars
<1>1. /\ now \in Nat /\ rows \in [Ids -> Row] /\ rows' \in [Ids -> Row]
      /\ \A id \in Ids : rows[id] \in Row /\ RowInv(rows[id])
  BY DEF IInv, TypeOK
<1>2. UNCHANGED <<bound, issued, origin>>
  BY DEF Claim, ClaimWon, ClaimLost, Cancel, Sweep, tokenVars
<1>3. \A id \in Ids : Still(rows[id], rows[id])
  BY DEF Still
<1>4. \A id \in Ids : \/ Still(rows[id], Revived(rows[id]))
                        \/ Released(rows[id], Revived(rows[id]))
  BY <1>1, <1>3, RevivedState DEF Released, Lapsed
<1>5. ASSUME NEW who \in Callers, NEW x \in Ids, ClaimWon(who, x)
      PROVE  Abstract!Work
  <2>1. \A y \in Ids \ {x} : rows'[y] = Revived(rows[y])
    BY <1>5 DEF ClaimWon, ExpireClaims
  <2>2. Taken(rows[x], rows'[x])
    BY <1>5, ClaimWonRows DEF Taken, Lapsed
  <2>3. QED
    BY <1>1, <1>2, <1>4, <2>1, <2>2, WorkMapped
<1>6. ASSUME NEW x \in Ids, ClaimLost(x)
      PROVE  Abstract!Work
  <2>1. \A y \in Ids : rows'[y] = Revived(rows[y])
    BY <1>6 DEF ClaimLost, ExpireClaims
  <2>2. QED
    BY <1>1, <1>2, <1>4, <2>1, WorkMapped
<1>7. ASSUME NEW x \in Ids, Cancel(x)
      PROVE  Abstract!Work
  <2>1. rows[x].state = "pending"
        /\ rows' = [rows EXCEPT ![x] = Moved(rows[x], "cancelled", Operator)]
    BY <1>7 DEF Cancel
  <2>2. "cancelled" \in States /\ Operator \in Actors
    BY DEF States, Actors
  <2>3. Moved(rows[x], "cancelled", Operator).state = "cancelled"
    BY <1>1, <2>2, MovedRow
  <2>4. Withdrawn(rows[x], rows'[x])
    BY <1>1, <2>1, <2>3 DEF Withdrawn
  <2>5. QED
    BY <1>1, <1>2, <1>3, <2>1, <2>4, WorkMapped
<1>8. ASSUME Sweep, NEW x \in Ids
      PROVE  Abstract!Work
  <2>1. \A y \in Ids : rows'[y] = SweptRow(rows[y])
    BY <1>8 DEF Sweep
  <2>2. QED
    BY <1>1, <1>2, <2>1, SweptMoves, WorkMapped
<1>9. CASE Ids = {}
  <2>1. rows' = rows
    BY <1>1, <1>9
  <2>2. QED
    BY <1>2, <2>1 DEF Abstract!vars
<1>10. QED
  BY <1>5, <1>6, <1>7, <1>8, <1>9 DEF Claim

\* The outbox does nothing that Dispatch does not allow: one action per confirmation,
\* one holder at a time, ended once and by that holder.
THEOREM DispatchTheorem == Spec => ImplementsDispatch
<1>1. Init => HoldersKnown
  BY DEF Init, NoRow, HoldersKnown
<1>2. Init => Abstract!Init
  BY DEF Init, NoRow, PhaseOf, Abstract!Init
<1>3. IInv /\ HoldersKnown /\ [Next]_vars => HoldersKnown'
  BY HoldersStayKnown
<1>4. IInv /\ HoldersKnown /\ [Next]_vars => [Abstract!Next]_Abstract!vars
  <2> SUFFICES ASSUME IInv, HoldersKnown, [Next]_vars
               PROVE  Abstract!Next \/ UNCHANGED Abstract!vars
    OBVIOUS
  <2>1. IInv' /\ HoldersKnown'
    BY InvInductive, HoldersStayKnown
  <2>2. CASE IdleStep
    BY <2>2, TokensMapped
  <2>3. ASSUME NEW t \in Tokens, NEW r \in Requests, NEW x \in Ids, Enqueue(t, r, x)
        PROVE  Abstract!Next
    BY <2>3, EnqueueMapped DEF Abstract!Next
  <2>4. ASSUME NEW who \in Callers, NEW x \in Ids, Complete(who, x) \/ Fail(who, x)
        PROVE  Abstract!Next
    BY <2>4, ReportMapped DEF Abstract!Next, Callers
  <2>5. CASE \/ \E who \in Callers, id \in Ids : Claim(who, id)
             \/ \E id \in Ids : Cancel(id)
             \/ Sweep
    BY <2>1, <2>5, CallsMapped DEF Abstract!Next
  <2>6. QED
    BY <2>2, <2>3, <2>4, <2>5, StepKinds DEF WorkStep, CallerStep, Callers
<1>5. QED
  BY <1>1, <1>2, <1>3, <1>4, InvHolds, PTL DEF Spec, ImplementsDispatch, Abstract!Spec

-----------------------------------------------------------------------------
(* The agents.                                                             *)

\* What the claimant check rests on: it compares names (services/outbox.ts,
\* requireClaimant), and the header is configured by hand.
NamesDiffer == \A c, d \in Clients : NameOf[c] = NameOf[d] => c = d

TaskType == task \in [Clients -> Task \cup {Idle}]

-----------------------------------------------------------------------------
(* The agents' steps are steps of the outbox.                              *)

\* Whatever agents do, the outbox sees its own operations or nothing.
LEMMA AgentsDriveOutbox ==
    ASSUME TaskType, [AgentsNext]_allVars
    PROVE  [Next]_vars
<1> SUFFICES ASSUME AgentsNext PROVE [Next]_vars
  BY DEF allVars
<1>1. CASE OperatorStep \/ ProcessStep
  BY <1>1 DEF Next
<1>2. ASSUME NEW c \in Clients, Poll(c) \/ Killed(c)
      PROVE  UNCHANGED vars
  BY <1>2 DEF Poll, Killed
<1>3. ASSUME NEW c \in Clients, TryAny(c)
      PROVE  Next
  <2>1. NameOf[c] \in Agents
    BY AgentsAssumption
  <2>2. PICK id \in Ids : Claim(NameOf[c], id)
    BY <1>3 DEF TryAny, TryClaim, Claim
  <2>3. QED
    BY <2>1, <2>2 DEF Next, CallerStep
<1>4. ASSUME NEW c \in Clients, Report(c)
      PROVE  [Next]_vars
  <2>1. NameOf[c] \in Agents /\ task[c].id \in Ids
    BY <1>4, AgentsAssumption DEF TaskType, Report, Task
  <2>2. CASE Complete(NameOf[c], task[c].id) \/ Fail(NameOf[c], task[c].id)
    BY <2>1, <2>2 DEF Next, CallerStep
  <2>3. CASE UNCHANGED vars
    BY <2>3
  <2>4. QED
    BY <1>4, <2>2, <2>3 DEF Report
<1>5. QED
  BY <1>1, <1>2, <1>3, <1>4 DEF AgentsNext

-----------------------------------------------------------------------------
(* The inductive invariant.                                                *)

\* A report ends the row it is about.
ReportsEnd ==
    \A id \in Ids : reporter[id] # None => rows[id].state \in {"complete", "failed"}

\* The name in the row is that of the process that claimed it.
ClaimsKnown ==
    \A id \in Ids : rows[id].state = "claimed" =>
        claimant[id] \in Clients /\ rows[id].claimedBy = NameOf[claimant[id]]

\* What an agent knows of its claim is true of the row until the lease it read has
\* run out, unless the agent itself has reported since and lost the answer.
TaskBacked(c) ==
    task[c] # Idle =>
        LET id == task[c].id IN
        \/ task[c].leaseEnd <= now
        \/ reporter[id] = c
        \/ /\ claimant[id] = c /\ HoldsClaim(NameOf[c], id)
           /\ rows[id].leaseEnd = task[c].leaseEnd

GhostType ==
    /\ seen \in [Clients -> SUBSET Ids]
    /\ claimant \in [Ids -> Clients \cup {None}]
    /\ reporter \in [Ids -> Clients \cup {None}]
    /\ deaths \in 0..MaxDeaths

AInv ==
    /\ IInv
    /\ TaskType /\ GhostType
    /\ ReportsEnd /\ ClaimsKnown /\ ReportedByClaimant
    /\ \A c \in Clients : TaskBacked(c)

\* Rows that drift keep what is known of claims, reports and tasks, while the clock
\* does not go back and the ghosts stay.
LEMMA DriftKeeps ==
    ASSUME AInv, NEW x \in Ids, Drifts(rows[x], rows'[x]), now' \in Nat, now <= now'
    PROVE  /\ reporter[x] # None => rows'[x].state \in {"complete", "failed"}
           /\ rows'[x].state = "claimed" =>
                claimant[x] \in Clients /\ rows'[x].claimedBy = NameOf[claimant[x]]
           /\ \A c \in Clients : task[c] # Idle /\ task[c].id = x =>
                \/ task[c].leaseEnd <= now'
                \/ reporter[x] = c
                \/ /\ claimant[x] = c
                   /\ rows'[x].state = "claimed" /\ rows'[x].claimedBy = NameOf[c]
                   /\ rows'[x].leaseEnd = task[c].leaseEnd
<1>1. now \in Nat /\ rows[x] \in Row
  BY DEF AInv, IInv, TypeOK
<1>2. reporter[x] # None => rows[x].state \in {"complete", "failed"}
  BY DEF AInv, ReportsEnd
<1>3. rows[x].state = "claimed" =>
        claimant[x] \in Clients /\ rows[x].claimedBy = NameOf[claimant[x]]
  BY DEF AInv, ClaimsKnown
<1>4. Drifts(rows[x], rows'[x])
  OBVIOUS
<1>5. ASSUME NEW c \in Clients, task[c] # Idle, task[c].id = x
      PROVE  \/ task[c].leaseEnd <= now'
             \/ reporter[x] = c
             \/ /\ claimant[x] = c
                /\ rows'[x].state = "claimed" /\ rows'[x].claimedBy = NameOf[c]
                /\ rows'[x].leaseEnd = task[c].leaseEnd
  <2>1. task[c].leaseEnd \in Nat
    BY <1>5 DEF AInv, TaskType, Task
  <2>2. \/ task[c].leaseEnd <= now
        \/ reporter[x] = c
        \/ /\ claimant[x] = c /\ rows[x].state = "claimed" /\ rows[x].claimedBy = NameOf[c]
           /\ rows[x].leaseEnd = task[c].leaseEnd
    BY <1>5 DEF AInv, TaskBacked, HoldsClaim
  <2>3. CASE task[c].leaseEnd <= now
    BY <1>1, <2>1, <2>3
  <2>4. CASE rows'[x] = rows[x]
    BY <1>1, <2>1, <2>2, <2>4
  <2>5. CASE Lapsed(rows[x])
    BY <1>1, <2>1, <2>2, <2>5 DEF Lapsed
  <2>6. CASE rows[x].state \in {"absent", "pending"}
    BY <1>1, <2>1, <2>2, <2>6
  <2>7. QED
    BY <2>4, <2>5, <2>6, <1>4 DEF Drifts
<1>6. QED
  BY <1>2, <1>3, <1>4, <1>5 DEF Drifts, Lapsed

\* Where rows drift and the agents know no more than before, nothing is lost.
LEMMA DriftingPreserves ==
    ASSUME AInv, IInv', now <= now', \A x \in Ids : Drifts(rows[x], rows'[x]),
           \A c \in Clients : task'[c] \in {task[c], Idle},
           TaskType', GhostType', UNCHANGED <<claimant, reporter>>
    PROVE  AInv'
<1>1. now' \in Nat
  BY DEF IInv, TypeOK
<1>2. ReportsEnd' /\ ClaimsKnown'
  BY <1>1, DriftKeeps DEF ReportsEnd, ClaimsKnown
<1>3. ReportedByClaimant'
  BY DEF AInv, ReportedByClaimant
<1>4. ASSUME NEW c \in Clients, task'[c] # Idle
      PROVE  TaskBacked(c)'
  <2>1. task'[c] = task[c] /\ task[c].id \in Ids
    BY <1>4 DEF AInv, TaskType, Task
  <2>2. QED
    BY <1>1, <1>4, <2>1, DriftKeeps DEF TaskBacked, HoldsClaim
<1>5. \A c \in Clients : TaskBacked(c)'
  BY <1>4 DEF TaskBacked
<1>6. QED
  BY <1>2, <1>3, <1>5 DEF AInv

-----------------------------------------------------------------------------
(* The steps of the agents, one lemma for each.                            *)

\* What an agent forgets or looks up touches no row.
LEMMA PollPreserves ==
    ASSUME AInv, NEW c \in Clients, Poll(c) \/ Killed(c)
    PROVE  AInv'
<1>1. UNCHANGED vars /\ UNCHANGED <<claimant, reporter>>
  BY DEF Poll, Killed
<1>2. IInv' /\ now <= now' /\ \A x \in Ids : Drifts(rows[x], rows'[x])
  BY <1>1, InvInductive DEF AInv, IInv, TypeOK, Drifts, vars
<1>3. seen' \in [Clients -> SUBSET Ids]
  BY DEF Poll, Killed, AInv, GhostType, PendingIds
<1>4. TaskType' /\ \A d \in Clients : task'[d] \in {task[d], Idle}
  BY DEF Poll, Killed, AInv, TaskType
<1>5. deaths' \in 0..MaxDeaths
  BY AgentsAssumption DEF Poll, Killed, AInv, GhostType
<1>6. GhostType'
  BY <1>1, <1>3, <1>5 DEF AInv, GhostType
<1>7. QED
  BY <1>1, <1>2, <1>4, <1>6, DriftingPreserves

\* Nobody's step but an agent's moves a claim.
LEMMA OthersPreserve ==
    ASSUME AInv, OperatorStep \/ ProcessStep, UNCHANGED agentVars
    PROVE  AInv'
<1>1. IInv'
  BY InvInductive DEF AInv, Next
<1>2. now <= now'
  BY DEF OperatorStep, ProcessStep, Mint, EnqueueRefused, EnqueueFailed, Enqueue, Cancel,
         Sweep, Restart, Tick, AInv, IInv, TypeOK
<1>3. \A x \in Ids : Drifts(rows[x], rows'[x])
  BY OthersDrift DEF AInv
<1>4. TaskType' /\ GhostType' /\ UNCHANGED <<claimant, reporter>> /\ task' = task
  BY DEF agentVars, AInv, TaskType, GhostType
<1>5. QED
  BY <1>1, <1>2, <1>3, <1>4, DriftingPreserves

\* A claim that is lost is a sweep.
LEMMA LosingPreserves ==
    ASSUME AInv, NEW c \in Clients, NEW id \in Ids, TryClaim(c, id), ClaimLost(id),
           UNCHANGED <<claimant, task>>
    PROVE  AInv'
<1>1. IInv'
  BY InvInductive, AgentsDriveOutbox DEF AInv, AgentsNext, TryAny
<1>2. now' = now /\ \A x \in Ids : Drifts(rows[x], rows'[x])
  BY ClaimLostRows DEF AInv
<1>3. TaskType' /\ GhostType' /\ reporter' = reporter
  BY DEF TryClaim, AInv, TaskType, GhostType
<1>4. now <= now'
  BY <1>2 DEF AInv, IInv, TypeOK
<1>5. QED
  BY <1>1, <1>2, <1>3, <1>4, DriftingPreserves

\* A claim that wins takes a row no one has reported on; its agent may learn of it.
LEMMA WinningPreserves ==
    ASSUME AInv, NEW c \in Clients, NEW id \in Ids, TryClaim(c, id), ClaimWon(NameOf[c], id),
           claimant' = [claimant EXCEPT ![id] = c],
           \/ task' = [task EXCEPT ![c] = [id |-> id, leaseEnd |-> now + Lease]]
           \/ task' = task
    PROVE  AInv'
<1>1. IInv'
  BY InvInductive, AgentsDriveOutbox DEF AInv, AgentsNext, TryAny
<1>2. /\ rows[id].state = "pending" \/ Lapsed(rows[id])
      /\ rows'[id].state = "claimed" /\ rows'[id].claimedBy = NameOf[c]
      /\ rows'[id].leaseEnd = now + Lease
      /\ \A x \in Ids \ {id} : Drifts(rows[x], rows'[x])
      /\ now' = now
  BY ClaimWonRows, AgentsAssumption DEF AInv, Callers
<1>3. now \in Nat /\ now' \in Nat /\ now <= now' /\ now + Lease \in Nat
  BY <1>2, OutboxAssumption DEF AInv, IInv, TypeOK
<1>4. TaskType'
  BY <1>3 DEF AInv, TaskType, Task
<1>5. GhostType' /\ reporter' = reporter
  BY DEF TryClaim, AInv, GhostType
<1>6. reporter[id] = None
  BY <1>2 DEF AInv, ReportsEnd, Lapsed
<1>7. claimant'[id] = c /\ \A x \in Ids \ {id} : claimant'[x] = claimant[x]
  BY DEF AInv, GhostType
<1>8. ReportsEnd' /\ ReportedByClaimant'
  BY <1>2, <1>3, <1>5, <1>6, <1>7, DriftKeeps DEF AInv, ReportsEnd, ReportedByClaimant
<1>9. ClaimsKnown'
  BY <1>2, <1>3, <1>7, DriftKeeps DEF ClaimsKnown
<1>10. ASSUME NEW d \in Clients, task'[d] # Idle
       PROVE  TaskBacked(d)'
  <2>1. CASE task'[d] = task[d]
    <3>1. task[d].id \in Ids /\ task[d].leaseEnd \in Nat
      BY <1>10, <2>1 DEF AInv, TaskType, Task
    <3>2. CASE task[d].id = id
      <4>1. task[d].leaseEnd <= now
        BY <1>2, <1>3, <1>6, <1>10, <2>1, <3>1, <3>2, AgentsAssumption
           DEF AInv, TaskBacked, HoldsClaim, Lapsed
      <4>2. QED
        BY <1>2, <2>1, <4>1 DEF TaskBacked
    <3>3. CASE task[d].id # id
      BY <1>2, <1>3, <1>5, <1>7, <1>10, <2>1, <3>1, <3>3, DriftKeeps DEF TaskBacked, HoldsClaim
    <3>4. QED
      BY <3>2, <3>3
  <2>2. CASE d = c /\ task'[d] = [id |-> id, leaseEnd |-> now + Lease]
    BY <1>2, <1>7, <2>2 DEF TaskBacked, HoldsClaim
  <2>3. QED
    BY <2>1, <2>2 DEF AInv, TaskType
<1>11. \A d \in Clients : TaskBacked(d)'
  BY <1>10 DEF TaskBacked
<1>12. QED
  BY <1>1, <1>4, <1>5, <1>8, <1>9, <1>11 DEF AInv

\* A report is believed from the process that claimed, and from no other: this is
\* where the names have to differ.
LEMMA ReportingPreserves ==
    ASSUME AInv, NamesDiffer, NEW c \in Clients, Report(c),
           Complete(NameOf[c], task[c].id) \/ Fail(NameOf[c], task[c].id),
           reporter' = [reporter EXCEPT ![task[c].id] = c],
           task' = [task EXCEPT ![c] = Idle] \/ task' = task
    PROVE  AInv'
<1> DEFINE id == task[c].id
<1>1. id \in Ids
  BY DEF Report, AInv, TaskType, Task
<1>2. IInv'
  BY InvInductive, AgentsDriveOutbox DEF AInv, AgentsNext
<1>3. /\ rows[id].state = "claimed" /\ rows[id].claimedBy = NameOf[c]
      /\ rows'[id].state \in {"complete", "failed"}
      /\ \A x \in Ids \ {id} : rows'[x] = rows[x]
      /\ now' = now
  BY <1>1, ReportRows, AgentsAssumption DEF AInv, Callers
<1>4. TaskType' /\ \A d \in Clients : task'[d] \in {task[d], Idle}
  BY DEF AInv, TaskType
<1>5. GhostType' /\ claimant' = claimant
  BY DEF Report, AInv, GhostType
<1>6. reporter'[id] = c /\ \A x \in Ids \ {id} : reporter'[x] = reporter[x]
  BY <1>1 DEF AInv, GhostType
<1>7. claimant[id] = c
  BY <1>1, <1>3 DEF AInv, ClaimsKnown, NamesDiffer
<1> HIDE DEF id
<1>8. ReportsEnd' /\ ReportedByClaimant'
  BY <1>1, <1>3, <1>5, <1>6, <1>7 DEF AInv, ReportsEnd, ReportedByClaimant
<1>9. ClaimsKnown'
  BY <1>1, <1>3, <1>5 DEF AInv, ClaimsKnown
<1>10. ASSUME NEW d \in Clients, task'[d] # Idle
       PROVE  TaskBacked(d)'
  <2>1. task'[d] = task[d] /\ task[d].id \in Ids
    BY <1>4, <1>10 DEF AInv, TaskType, Task
  <2>2. TaskBacked(d)
    BY DEF AInv
  <2>3. CASE task[d].id = id
    <3>1. reporter[id] = None
      BY <1>1, <1>3 DEF AInv, ReportsEnd
    <3>2. QED
      BY <1>3, <1>5, <1>6, <1>7, <1>10, <2>1, <2>2, <2>3, <3>1, AgentsAssumption
         DEF TaskBacked
  <2>4. CASE task[d].id # id
    BY <1>3, <1>5, <1>6, <1>10, <2>1, <2>2, <2>4 DEF TaskBacked, HoldsClaim
  <2>5. QED
    BY <2>3, <2>4
<1>11. \A d \in Clients : TaskBacked(d)'
  BY <1>10 DEF TaskBacked
<1>12. QED
  BY <1>2, <1>4, <1>5, <1>8, <1>9, <1>11 DEF AInv

\* A report that comes too late ends the task only.
LEMMA LateReportPreserves ==
    ASSUME AInv, NEW c \in Clients, Report(c), task' = [task EXCEPT ![c] = Idle],
           UNCHANGED <<vars, reporter>>
    PROVE  AInv'
<1>1. IInv' /\ now <= now' /\ \A x \in Ids : Drifts(rows[x], rows'[x])
  BY InvInductive DEF AInv, IInv, TypeOK, Drifts, vars
<1>2. TaskType' /\ \A d \in Clients : task'[d] \in {task[d], Idle}
  BY DEF AInv, TaskType
<1>3. GhostType' /\ claimant' = claimant
  BY DEF Report, AInv, GhostType
<1>4. QED
  BY <1>1, <1>2, <1>3, DriftingPreserves

\* No step of agents, operator, process or clock breaks the invariant.
LEMMA AInvInductive ==
    ASSUME AInv, NamesDiffer, [AgentsNext]_allVars
    PROVE  AInv'
<1>1. CASE UNCHANGED allVars
  <2>1. IInv' /\ now <= now' /\ \A x \in Ids : Drifts(rows[x], rows'[x])
    BY <1>1, InvInductive DEF AInv, IInv, TypeOK, Drifts, vars, allVars
  <2>2. TaskType' /\ GhostType' /\ UNCHANGED <<claimant, reporter>> /\ task' = task
    BY <1>1 DEF allVars, agentVars, AInv, TaskType, GhostType
  <2>3. QED
    BY <2>1, <2>2, DriftingPreserves
<1>2. ASSUME NEW c \in Clients, TryAny(c)
      PROVE  AInv'
  <2>1. PICK id \in Ids : TryClaim(c, id)
    BY <1>2 DEF TryAny
  <2>2. QED
    BY <2>1, WinningPreserves, LosingPreserves DEF TryClaim
<1>3. ASSUME NEW c \in Clients, Report(c)
      PROVE  AInv'
  BY <1>3, ReportingPreserves, LateReportPreserves DEF Report
<1>4. QED
  BY <1>1, <1>2, <1>3, PollPreserves, OthersPreserve DEF AgentsNext

\* So it holds throughout.
LEMMA AInvHolds == ASSUME NamesDiffer PROVE AgentsSpec => []AInv
<1>1. AgentsInit => AInv
  <2> SUFFICES ASSUME AgentsInit PROVE AInv
    OBVIOUS
  <2>1. IInv
    BY InvStart DEF AgentsInit
  <2>2. \A id \in Ids : rows[id].state = "absent"
    BY DEF AgentsInit, Init, NoRow
  <2>3. QED
    BY <2>1, <2>2, AgentsAssumption
       DEF AgentsInit, AInv, TaskType, GhostType, ReportsEnd, ClaimsKnown,
           ReportedByClaimant, TaskBacked
<1>2. AInv /\ [AgentsNext]_allVars => AInv'
  BY AInvInductive
<1>3. QED
  BY <1>1, <1>2, PTL DEF AgentsSpec

-----------------------------------------------------------------------------
(* The theorems.                                                           *)

KnownTypes == now \in Nat /\ TaskType /\ GhostType

\* The agents' variables keep their types, whatever names they go by.
LEMMA AgentsTypesHold == AgentsSpec => []KnownTypes
<1>1. AgentsInit => KnownTypes
  BY AgentsAssumption DEF AgentsInit, Init, KnownTypes, TaskType, GhostType
<1>2. ASSUME TaskType, GhostType, now \in Nat, [AgentsNext]_allVars
      PROVE  (TaskType /\ GhostType)'
  <2>1. CASE UNCHANGED agentVars
    BY <1>2, <2>1 DEF agentVars, TaskType, GhostType
  <2>2. ASSUME NEW c \in Clients, Poll(c) \/ Killed(c)
        PROVE  (TaskType /\ GhostType)'
    BY <1>2, <2>2, AgentsAssumption DEF Poll, Killed, PendingIds, TaskType, GhostType
  <2>3. ASSUME NEW c \in Clients, NEW id \in Ids, TryClaim(c, id)
        PROVE  (TaskType /\ GhostType)'
    <3>1. [id |-> id, leaseEnd |-> now + Lease] \in Task
      BY <1>2, OutboxAssumption DEF Task
    <3>2. QED
      BY <1>2, <2>3, <3>1 DEF TryClaim, TaskType, GhostType
  <2>4. ASSUME NEW c \in Clients, Report(c)
        PROVE  (TaskType /\ GhostType)'
    <3>1. task[c].id \in Ids
      BY <1>2, <2>4 DEF Report, TaskType, Task
    <3>2. QED
      BY <1>2, <2>4, <3>1 DEF Report, TaskType, GhostType
  <2>5. QED
    BY <1>2, <2>1, <2>2, <2>3, <2>4 DEF AgentsNext, TryAny, allVars
<1>3. ASSUME now \in Nat, TaskType, [AgentsNext]_allVars
      PROVE  now' \in Nat
  <2>1. [Next]_vars
    BY <1>3, AgentsDriveOutbox
  <2>2. QED
    BY <1>3, <2>1 DEF Next, OperatorStep, CallerStep, ProcessStep, Mint, EnqueueRefused,
       EnqueueFailed, Enqueue, Cancel, Claim, ClaimWon, ClaimLost, Complete, Fail, Sweep,
       Restart, Tick, vars
<1>4. KnownTypes /\ [AgentsNext]_allVars => KnownTypes'
  BY <1>2, <1>3 DEF KnownTypes
<1>5. QED
  BY <1>1, <1>4, PTL DEF AgentsSpec

\* The outbox with its agents is the outbox: what is proved of it for any callers
\* (OutboxProofs) holds under these.
THEOREM AgentsUseOutbox == AgentsSpec => Spec
<1>1. AgentsInit => Init
  BY DEF AgentsInit
<1>2. KnownTypes /\ [AgentsNext]_allVars => [Next]_vars
  BY AgentsDriveOutbox DEF KnownTypes
<1>3. QED
  BY <1>1, <1>2, AgentsTypesHold, PTL DEF AgentsSpec, Spec

\* The variables of the agents and of the outbox keep their types.
THEOREM AgentsTypeTheorem == AgentsSpec => []AgentsTypeOK
<1>1. TypeOK /\ KnownTypes => AgentsTypeOK
  BY DEF KnownTypes, TaskType, GhostType, AgentsTypeOK
<1>2. QED
  BY <1>1, AgentsTypesHold, AgentsUseOutbox, TypeCorrect, PTL

\* A report is believed from the process whose claim it ends, whatever answers are
\* lost, however late it comes and whoever claims in between.
THEOREM ClaimantTheorem == ASSUME NamesDiffer PROVE AgentsSpec => []ReportedByClaimant
<1>1. AInv => ReportedByClaimant
  BY DEF AInv
<1>2. QED
  BY <1>1, AInvHolds, PTL

\* Two agents never both know the same action to be theirs now.
THEOREM ExclusiveTheorem == ASSUME NamesDiffer PROVE AgentsSpec => []LeaseExclusive
<1>1. AInv => LeaseExclusive
  <2> SUFFICES ASSUME AInv, NEW c \in Clients, NEW d \in Clients, c # d, Owns(c), Owns(d),
                      task[c].id = task[d].id
               PROVE  FALSE
    BY DEF LeaseExclusive
  <2> DEFINE id == task[c].id
  <2>1. /\ task[c].leaseEnd \in Nat /\ task[d].leaseEnd \in Nat /\ now \in Nat
        /\ id \in Ids
    BY DEF AInv, TaskType, Task, IInv, TypeOK, Owns
  <2>2. reporter[id] = c \/ (claimant[id] = c /\ rows[id].state = "claimed")
    BY <2>1 DEF AInv, TaskBacked, HoldsClaim, Owns
  <2>3. reporter[id] = d \/ (claimant[id] = d /\ rows[id].state = "claimed")
    BY <2>1 DEF AInv, TaskBacked, HoldsClaim, Owns
  <2>4. reporter[id] # None => rows[id].state # "claimed"
    BY <2>1 DEF AInv, ReportsEnd
  <2>5. QED
    BY <2>2, <2>3, <2>4, AgentsAssumption
<1>2. QED
  BY <1>1, AInvHolds, PTL

\* An agent whose lease has not run out has the claim, or has reported, and no
\* other agent thinks that the action is its own.
THEOREM HonouredTheorem == ASSUME NamesDiffer PROVE AgentsSpec => []LeaseHonoured
<1>1. AInv => LeaseLasts
  <2> SUFFICES ASSUME AInv, NEW c \in Clients, task[c] # Idle, task[c].leaseEnd > now
               PROVE  \/ claimant[task[c].id] = c /\ HoldsClaim(NameOf[c], task[c].id)
                      \/ reporter[task[c].id] = c
    BY DEF LeaseLasts, Owns
  <2>1. task[c].leaseEnd \in Nat /\ now \in Nat
    BY DEF AInv, TaskType, Task, IInv, TypeOK
  <2>2. QED
    BY <2>1 DEF AInv, TaskBacked
<1>2. LeaseLasts /\ LeaseExclusive => LeaseHonoured
  BY DEF LeaseHonoured
<1>3. QED
  BY <1>1, <1>2, AInvHolds, ExclusiveTheorem, PTL

=============================================================================
