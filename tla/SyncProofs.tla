----------------------------- MODULE SyncProofs -----------------------------
(***************************************************************************)
(* What holds of refreshing the mirror for every list of connections,      *)
(* every number of runs at once and every poll interval.                   *)
(***************************************************************************)
EXTENDS Sync, SequenceTheorems, TLAPS

-----------------------------------------------------------------------------
(* The inductive invariant.                                                *)

\* A run under way started in the past, waits for the provider of the first
\* element of one of its loops, and has read nothing before it started.
RunInv(run) ==
    /\ run.start <= now
    /\ run.viewers # << >> => run.viewers[1].account # None /\ ~run.whole /\ run.read = 0
    /\ run.viewers = << >> => run.fetches # << >> /\ run.fetches[1].account # None
    /\ run.read # 0 => run.start <= run.read
    /\ run.whole => run.read # 0

IInv ==
    /\ SyncTypeOK
    /\ \A s \in Slots : runs[s] # Idle => RunInv(runs[s])
    /\ HonestAge

\* A record of a run is not the idle one: it has more fields.
LEMMA RunIsNotIdle == ASSUME NEW run \in Run PROVE run # Idle
  BY DEF Run, Idle

\* The ids are what stands in the list of connections.
LEMMA IdsOfConns ==
    /\ Conns \in Seq(Ids) /\ Len(Conns) \in Nat
    /\ \A k \in 1..Len(Conns) : Conns[k] \in Ids
  BY SyncAssumption

\* The viewer loop of a new run.
LEMMA ViewersType ==
    ASSUME SyncTypeOK, NEW scope, NEW reachable \in BOOLEAN
    PROVE  Viewers(scope, reachable) \in Seq(Viewer)
<1>1. ASSUME NEW c \in Ids
      PROVE  LET a == IF Wanted(scope, c) THEN Provider(c, reachable) ELSE None
             IN  [id |-> c, account |-> a, row |-> IF a = None THEN NoRow ELSE rows[c]] \in Viewer
  <2>1. CASE Wanted(scope, c) /\ Provider(c, reachable) # None
    <3>1. Provider(c, reachable) \in Accounts
      BY <2>1 DEF Provider, SyncTypeOK
    <3>2. rows[c] \in RowOf
      BY <2>1 DEF Provider, Listed, SyncTypeOK
    <3>3. QED
      BY <2>1, <3>1, <3>2 DEF Viewer
  <2>2. CASE ~(Wanted(scope, c) /\ Provider(c, reachable) # None)
    BY <2>2 DEF Viewer
  <2>3. QED
    BY <2>1, <2>2
<1>2. \A k \in 1..Len(Conns) : Viewers(scope, reachable)[k] \in Viewer
  BY <1>1, IdsOfConns DEF Viewers
<1>3. QED
  BY <1>2, IdsOfConns, IsASeq DEF Viewers

\* The ticket loop of a new run.
LEMMA FetchesType ==
    ASSUME SyncTypeOK, NEW scope, NEW reachable \in BOOLEAN
    PROVE  Fetches(scope, reachable) \in Seq(Fetch)
<1>1. \A c \in Ids : Provider(c, reachable) \in Accounts \cup {None}
  BY DEF Provider, SyncTypeOK
<1>2. \A k \in 1..Len(Conns) : Fetches(scope, reachable)[k] \in Fetch
  BY <1>1, IdsOfConns DEF Fetches, Fetch, Wanted
<1>3. QED
  BY <1>2, IdsOfConns, IsASeq DEF Fetches

\* What is left of a loop after the elements it passes over: nothing, or a loop
\* whose first element has a provider.
LEMMA SkippedLoop ==
    ASSUME NEW S, NEW loop \in Seq(S), NEW n \in 0..Len(loop), Skips(loop, n)
    PROVE  LET left == SubSeq(loop, n + 1, Len(loop))
           IN  /\ left \in Seq(S)
               /\ left = << >> <=> n = Len(loop)
               /\ left # << >> => left[1].account # None
<1> DEFINE left == SubSeq(loop, n + 1, Len(loop))
<1>1. Len(loop) \in Nat /\ n \in Nat /\ n <= Len(loop)
  OBVIOUS
<1>2. left \in Seq(S) /\ Len(left) = Len(loop) - n
  BY <1>1
<1>3. n < Len(loop) => left[1] = loop[n + 1]
  BY <1>1
<1>4. left = << >> <=> Len(left) = 0
  BY <1>2
<1>5. QED
  BY <1>1, <1>2, <1>3, <1>4 DEF Skips

-----------------------------------------------------------------------------
(* The steps.                                                              *)

\* A run that has read nothing yet for what it does next goes on correctly: it
\* is idle, or waits for a provider, and its failures have been written down.
LEMMA ResumeKeeps ==
    ASSUME IInv, NEW s \in Slots, NEW run \in Run, NEW failed,
           run.start <= now, run.whole = FALSE, run.read = 0,
           Resume(s, run, failed)
    PROVE  /\ runs' \in [Slots -> Run \cup {Idle}]
           /\ \A t \in Slots : runs'[t] # Idle => RunInv(runs'[t])
           /\ lastFailure' \in [Ids -> Nat]
<1>1. runs \in [Slots -> Run \cup {Idle}] /\ \A t \in Slots : runs[t] # Idle => RunInv(runs[t])
  BY DEF IInv, SyncTypeOK
<1>2. run.viewers \in Seq(Viewer) /\ run.fetches \in Seq(Fetch) /\ run.start \in Nat
  BY DEF Run
<1>3. PICK i \in 0..Len(run.viewers), j \in 0..Len(run.fetches) :
        /\ Skips(run.viewers, i)
        /\ IF i < Len(run.viewers) THEN j = 0 ELSE Skips(run.fetches, j)
        /\ runs' = [runs EXCEPT ![s] =
                      IF i = Len(run.viewers) /\ j = Len(run.fetches) THEN Idle
                      ELSE [run EXCEPT !.viewers = SubSeq(@, i + 1, Len(@)),
                                       !.fetches = SubSeq(@, j + 1, Len(@))]]
        /\ \E all : RecordFailures(run.start, all)
  BY DEF Resume
<1>4. lastFailure' \in [Ids -> Nat]
  BY <1>2, <1>3 DEF RecordFailures, IInv, SyncTypeOK
<1> DEFINE vs == SubSeq(run.viewers, i + 1, Len(run.viewers))
           fs == SubSeq(run.fetches, j + 1, Len(run.fetches))
           next == [run EXCEPT !.viewers = vs, !.fetches = fs]
<1>5. /\ vs \in Seq(Viewer)
      /\ vs = << >> <=> i = Len(run.viewers)
      /\ vs # << >> => vs[1].account # None
  BY <1>2, <1>3, SkippedLoop
<1>6. /\ fs \in Seq(Fetch)
      /\ vs = << >> => (fs = << >> <=> j = Len(run.fetches))
      /\ vs = << >> /\ fs # << >> => fs[1].account # None
  <2>1. CASE i < Len(run.viewers)
    <3>1. j = 0
      BY <1>3, <2>1
    <3>2. fs \in Seq(Fetch)
      BY <1>2, <3>1
    <3>3. vs # << >>
      BY <1>5, <2>1, <1>2
    <3>4. QED
      BY <3>2, <3>3
  <2>2. CASE ~(i < Len(run.viewers))
    BY <1>2, <1>3, <2>2, SkippedLoop
  <2>3. QED
    BY <2>1, <2>2
<1> HIDE DEF vs, fs
<1>7. /\ next \in Run /\ next.viewers = vs /\ next.fetches = fs
      /\ next.start = run.start /\ next.whole = FALSE /\ next.read = 0
  BY <1>5, <1>6 DEF Run
<1>8. CASE i = Len(run.viewers) /\ j = Len(run.fetches)
  BY <1>1, <1>3, <1>4, <1>8
<1>9. CASE ~(i = Len(run.viewers) /\ j = Len(run.fetches))
  <2>1. runs' = [runs EXCEPT ![s] = next]
    BY <1>3, <1>9 DEF vs, fs
  <2>2. vs # << >> \/ fs # << >>
    BY <1>5, <1>6, <1>9
  <2>3. RunInv(next)
    BY <1>5, <1>6, <1>7, <2>2 DEF RunInv
  <2>4. QED
    BY <1>1, <1>4, <1>7, <2>1, <2>3
<1>10. QED
  BY <1>8, <1>9

\* What is left of a loop that is not empty is a loop.
LEMMA TailOfLoop ==
    ASSUME NEW S, NEW loop \in Seq(S), loop # << >>
    PROVE  Tail(loop) \in Seq(S) /\ Head(loop) = loop[1] /\ loop[1] \in S
  BY HeadTailProperties

\* Nothing is mirrored, and no run is under way.
LEMMA InvStart == Init => IInv
<1> SUFFICES ASSUME Init PROVE IInv
  OBVIOUS
<1>1. SyncTypeOK
  BY SyncAssumption DEF Init, SyncTypeOK
<1>2. HonestAge
  BY DEF Init, HonestAge
<1>3. QED
  BY <1>1, <1>2 DEF Init, IInv

\* The operator's edits touch neither the runs nor the mirror.
LEMMA EditsPreserve == ASSUME IInv, OperatorEdits PROVE IInv'
<1>1. UNCHANGED <<now, runs, mirrorVars>>
  BY DEF OperatorEdits, AddConnection, AddInterrupted, RemoveConnection, RemoveInterrupted
<1>2. edits < MaxEdits /\ edits' = edits + 1
  BY DEF OperatorEdits, AddConnection, AddInterrupted, RemoveConnection, RemoveInterrupted
<1>3. ASSUME NEW label \in Labels, NEW account \in Accounts, AddConnection(label, account)
      PROVE  /\ rows' \in [Ids -> RowOf \cup {NoRow}] /\ secrets' \in [Ids -> Accounts \cup {None}]
             /\ wanted' \in [Ids -> Labels \cup {None}]
  <2>1. PICK c \in IdFor(label) :
          /\ secrets' = [secrets EXCEPT ![c] = account]
          /\ rows' = [rows EXCEPT ![c] = [label |-> label, identity |-> rows[c].identity]]
          /\ wanted' = [wanted EXCEPT ![c] = label]
    BY <1>3 DEF AddConnection
  <2>2. c \in Ids
    BY DEF IdFor
  <2>3. rows[c].identity \in Accounts \cup {None}
    BY <2>2 DEF IInv, SyncTypeOK, RowOf, NoRow
  <2>4. QED
    BY <2>1, <2>2, <2>3 DEF IInv, SyncTypeOK, RowOf
<1>4. ASSUME NEW label \in Labels, NEW account \in Accounts, AddInterrupted(label, account)
      PROVE  /\ rows' \in [Ids -> RowOf \cup {NoRow}] /\ secrets' \in [Ids -> Accounts \cup {None}]
             /\ wanted' \in [Ids -> Labels \cup {None}]
  BY <1>4 DEF AddInterrupted, IdFor, IInv, SyncTypeOK
<1>5. ASSUME NEW c \in Ids, RemoveConnection(c) \/ RemoveInterrupted(c)
      PROVE  /\ rows' \in [Ids -> RowOf \cup {NoRow}] /\ secrets' \in [Ids -> Accounts \cup {None}]
             /\ wanted' \in [Ids -> Labels \cup {None}]
  BY <1>5 DEF RemoveConnection, RemoveInterrupted, IInv, SyncTypeOK
<1>6. /\ rows' \in [Ids -> RowOf \cup {NoRow}] /\ secrets' \in [Ids -> Accounts \cup {None}]
      /\ wanted' \in [Ids -> Labels \cup {None}]
  BY <1>3, <1>4, <1>5 DEF OperatorEdits
<1>7. edits' \in 0..MaxEdits
  BY <1>2, SyncAssumption DEF IInv, SyncTypeOK
<1>8. SyncTypeOK'
  BY <1>1, <1>6, <1>7 DEF IInv, SyncTypeOK, mirrorVars
<1>9. QED
  BY <1>1, <1>8 DEF IInv, HonestAge, RunInv, mirrorVars

\* A run starts now, with nothing read.
LEMMA StartPreserves ==
    ASSUME IInv, NEW s \in Slots, NEW scope, NEW reachable \in BOOLEAN,
           Start(s, scope, reachable)
    PROVE  IInv'
<1> DEFINE run == [start |-> now, viewers |-> Viewers(scope, reachable),
                   fetches |-> Fetches(scope, reachable),
                   pages |-> 0, read |-> 0, whole |-> FALSE]
<1>1. now \in Nat \ {0} /\ SyncTypeOK
  BY DEF IInv, SyncTypeOK
<1>2. run \in Run
  BY <1>1, ViewersType, FetchesType DEF Run
<1>3. Resume(s, run, {}) /\ UNCHANGED <<now, rows, operatorVars, tickets, lastSuccess>>
  BY DEF Start
<1>4. run.start <= now /\ run.whole = FALSE /\ run.read = 0
  BY <1>1
<1> HIDE DEF run
<1>5. /\ runs' \in [Slots -> Run \cup {Idle}]
      /\ \A t \in Slots : runs'[t] # Idle => RunInv(runs'[t])
      /\ lastFailure' \in [Ids -> Nat]
  BY <1>2, <1>3, <1>4, ResumeKeeps
<1>6. QED
  BY <1>3, <1>5 DEF IInv, SyncTypeOK, HonestAge, RunInv, operatorVars

\* The viewer answered, or did not: at most the row of the connection changes.
LEMMA ViewerPreserves ==
    ASSUME IInv, NEW s \in Slots, ViewerAnswers(s) \/ ViewerFails(s)
    PROVE  IInv'
<1>1. /\ runs[s] \in Run /\ runs[s] # Idle /\ runs[s].viewers # << >>
      /\ RunInv(runs[s]) /\ SyncTypeOK
  BY DEF ViewerAnswers, ViewerFails, AtViewer, IInv, SyncTypeOK
<1> DEFINE run == PastViewer(s)
<1>2. Tail(runs[s].viewers) \in Seq(Viewer) /\ Head(runs[s].viewers) = runs[s].viewers[1]
      /\ runs[s].viewers[1] \in Viewer
  BY <1>1, TailOfLoop DEF Run
<1>3. run \in Run /\ run.start <= now /\ run.whole = FALSE /\ run.read = 0
  BY <1>1, <1>2 DEF PastViewer, Run, RunInv
<1>4. Resume(s, run, {}) /\ UNCHANGED <<now, operatorVars, tickets, lastSuccess>>
  BY DEF ViewerAnswers, ViewerFails
<1> HIDE DEF run
<1>5. /\ runs' \in [Slots -> Run \cup {Idle}]
      /\ \A t \in Slots : runs'[t] # Idle => RunInv(runs'[t])
      /\ lastFailure' \in [Ids -> Nat]
  BY <1>3, <1>4, ResumeKeeps
<1>6. rows' \in [Ids -> RowOf \cup {NoRow}]
  <2>1. CASE ViewerFails(s)
    BY <1>1, <2>1 DEF ViewerFails, SyncTypeOK
  <2>2. CASE ViewerAnswers(s)
    <3> DEFINE v == runs[s].viewers[1]
    <3>1. v.id \in Ids /\ v.account \in Accounts /\ v.row \in RowOf
      BY <1>1, <1>2 DEF Viewer, RunInv
    <3>2. [v.row EXCEPT !.identity = v.account] \in RowOf
      BY <3>1 DEF RowOf
    <3>3. \/ rows' = rows
          \/ rows' = [rows EXCEPT ![v.id] = [v.row EXCEPT !.identity = v.account]]
      BY <1>2, <2>2 DEF ViewerAnswers
    <3>4. QED
      BY <1>1, <3>1, <3>2, <3>3 DEF SyncTypeOK
  <2>3. QED
    BY <2>1, <2>2
<1>7. QED
  BY <1>1, <1>4, <1>5, <1>6 DEF IInv, SyncTypeOK, HonestAge, RunInv, operatorVars

\* A page is read now, which is not before the run started.
LEMMA PagePreserves ==
    ASSUME IInv, NEW s \in Slots, NEW more \in BOOLEAN, PageAnswers(s, more)
    PROVE  IInv'
<1>1. /\ runs[s] \in Run /\ runs[s] # Idle /\ runs[s].viewers = << >>
      /\ RunInv(runs[s]) /\ SyncTypeOK /\ now \in Nat \ {0}
  BY DEF PageAnswers, AtFetch, IInv, SyncTypeOK
<1> DEFINE read == IF runs[s].read = 0 THEN now ELSE runs[s].read
           whole == ~more \/ runs[s].pages + 1 >= MaxPages
           pages == runs[s].pages + 1
           run == [runs[s] EXCEPT !.pages = pages, !.read = read, !.whole = whole]
<1>2. read \in Nat /\ read # 0 /\ runs[s].start <= read
  BY <1>1 DEF Run, RunInv
<1>3. whole \in BOOLEAN /\ pages \in Nat
  BY <1>1 DEF Run
<1>4. runs' = [runs EXCEPT ![s] = run] /\ UNCHANGED <<now, rows, operatorVars, mirrorVars>>
  BY DEF PageAnswers
<1> HIDE DEF read, whole, pages
<1>5. /\ run \in Run /\ run.viewers = << >> /\ run.fetches = runs[s].fetches
      /\ run.start = runs[s].start /\ run.read = read
  BY <1>1, <1>2, <1>3 DEF Run
<1>6. RunInv(run)
  BY <1>1, <1>2, <1>5 DEF RunInv
<1> HIDE DEF run
<1>7. runs' \in [Slots -> Run \cup {Idle}]
      /\ \A t \in Slots : runs'[t] # Idle => RunInv(runs'[t])
  BY <1>1, <1>4, <1>5, <1>6 DEF IInv, SyncTypeOK
<1>8. QED
  BY <1>4, <1>7 DEF IInv, SyncTypeOK, HonestAge, RunInv, operatorVars, mirrorVars

\* The run as it leaves the first element of its ticket loop.
LEMMA PastFetchRun ==
    ASSUME IInv, NEW s \in Slots, AtFetch(s)
    PROVE  /\ PastFetch(s) \in Run /\ PastFetch(s).start <= now
           /\ PastFetch(s).whole = FALSE /\ PastFetch(s).read = 0
           /\ runs[s] \in Run /\ RunInv(runs[s])
           /\ Head(runs[s].fetches) \in Fetch /\ Head(runs[s].fetches).account \in Accounts
<1>1. runs[s] \in Run /\ runs[s].viewers = << >> /\ RunInv(runs[s])
  BY DEF AtFetch, IInv, SyncTypeOK
<1>2. /\ Tail(runs[s].fetches) \in Seq(Fetch)
      /\ Head(runs[s].fetches) = runs[s].fetches[1] /\ runs[s].fetches[1] \in Fetch
  BY <1>1, TailOfLoop DEF Run, RunInv
<1>3. QED
  BY <1>1, <1>2 DEF PastFetch, Run, RunInv, Fetch

\* The fetch failed: the tickets stay and the failure is written down.
LEMMA FailurePreserves ==
    ASSUME IInv, NEW s \in Slots, FetchFails(s)
    PROVE  IInv'
<1>1. /\ runs' \in [Slots -> Run \cup {Idle}]
      /\ \A t \in Slots : runs'[t] # Idle => RunInv(runs'[t])
      /\ lastFailure' \in [Ids -> Nat]
  BY PastFetchRun, ResumeKeeps DEF FetchFails
<1>2. UNCHANGED <<now, rows, operatorVars, tickets, lastSuccess>>
  BY DEF FetchFails
<1>3. QED
  BY <1>1, <1>2 DEF IInv, SyncTypeOK, HonestAge, RunInv, operatorVars

\* A run that is rejected, or all that die with the process: the others go on.
LEMMA RunsEnd ==
    ASSUME IInv, NEW s \in Slots, Rejected(s) \/ Died
    PROVE  /\ runs' \in [Slots -> Run \cup {Idle}]
           /\ \A t \in Slots : runs'[t] # Idle => RunInv(runs'[t])
           /\ lastFailure' \in [Ids -> Nat]
<1>1. \A t \in Slots : runs'[t] # Idle => runs'[t] = runs[t]
  BY DEF Rejected, Died, IInv, SyncTypeOK
<1>2. QED
  BY <1>1 DEF Rejected, Died, IInv, SyncTypeOK

\* The failure could not be written down: nothing else changes.
LEMMA RejectionPreserves ==
    ASSUME IInv, NEW s \in Slots, FetchRejected(s)
    PROVE  IInv'
<1>1. /\ runs' \in [Slots -> Run \cup {Idle}]
      /\ \A t \in Slots : runs'[t] # Idle => RunInv(runs'[t])
      /\ lastFailure' \in [Ids -> Nat]
  BY RunsEnd DEF FetchRejected
<1>2. UNCHANGED <<now, rows, operatorVars, tickets, lastSuccess>>
  BY DEF FetchRejected
<1>3. QED
  BY <1>1, <1>2 DEF IInv, SyncTypeOK, HonestAge, RunInv, operatorVars

\* What a run writes of the element it is at.
LEMMA NewTickets ==
    ASSUME IInv, NEW s \in Slots, AtFetch(s), runs[s].whole, NEW overtaken \in BOOLEAN,
           ReplaceTickets(Head(runs[s].fetches), runs[s].read, overtaken)
    PROVE  LET id == Head(runs[s].fetches).id IN
           /\ id \in Ids
           /\ runs[s].start \in Nat \ {0} /\ runs[s].start <= runs[s].read
           /\ tickets' \in [Ids -> Tickets \cup {NoTickets}]
           /\ tickets'[id] # NoTickets
           /\ tickets'[id].read = runs[s].read /\ tickets'[id].overtaken = overtaken
           /\ \A c \in Ids : c # id => tickets'[c] = tickets[c]
<1> DEFINE f == Head(runs[s].fetches)
           new == [account |-> f.account, read |-> runs[s].read, overtaken |-> overtaken]
<1>1. tickets' = [tickets EXCEPT ![f.id] = new]
  BY DEF ReplaceTickets
<1>2. /\ f.id \in Ids /\ f.account \in Accounts
      /\ runs[s].read \in Nat /\ runs[s].read # 0 /\ runs[s].start \in Nat \ {0}
      /\ runs[s].start <= runs[s].read
  BY PastFetchRun DEF Fetch, Run, RunInv
<1>3. /\ new \in Tickets /\ new # NoTickets
      /\ new.read = runs[s].read /\ new.overtaken = overtaken
  BY <1>2 DEF NoTickets, Tickets
<1> HIDE DEF f, new
<1>4. tickets \in [Ids -> Tickets \cup {NoTickets}]
  BY DEF IInv, SyncTypeOK
<1>5. /\ tickets' \in [Ids -> Tickets \cup {NoTickets}] /\ tickets'[f.id] = new
      /\ \A c \in Ids : c # f.id => tickets'[c] = tickets[c]
  BY <1>1, <1>2, <1>3, <1>4
<1>6. QED
  BY <1>2, <1>3, <1>5 DEF f

\* The tickets are written first and the success afterwards, and they were read
\* after the time the success is dated with.
LEMMA SuccessPreserves ==
    ASSUME IInv, NEW s \in Slots, HistoryAnswers(s)
    PROVE  IInv'
<1> DEFINE id == Head(runs[s].fetches).id
<1>1. /\ runs' \in [Slots -> Run \cup {Idle}]
      /\ \A t \in Slots : runs'[t] # Idle => RunInv(runs'[t])
      /\ lastFailure' \in [Ids -> Nat]
  BY PastFetchRun, ResumeKeeps DEF HistoryAnswers
<1>2. /\ UNCHANGED <<now, rows, operatorVars>>
      /\ lastSuccess' = [lastSuccess EXCEPT ![id] = runs[s].start]
      /\ lastSuccess \in [Ids -> Nat]
  BY DEF HistoryAnswers, RecordSuccess, IInv, SyncTypeOK
<1>3. /\ id \in Ids
      /\ runs[s].start \in Nat \ {0} /\ runs[s].start <= runs[s].read
      /\ tickets' \in [Ids -> Tickets \cup {NoTickets}]
      /\ tickets'[id] # NoTickets /\ tickets'[id].read = runs[s].read
      /\ \A c \in Ids : c # id => tickets'[c] = tickets[c]
  BY NewTickets DEF HistoryAnswers
<1> HIDE DEF id
<1>4. HonestAge'
  <2> SUFFICES ASSUME NEW c \in Ids, lastSuccess'[c] # 0
               PROVE  /\ tickets'[c] # NoTickets
                      /\ tickets'[c].overtaken \/ lastSuccess'[c] <= tickets'[c].read
    BY DEF HonestAge
  <2>1. CASE c = id
    BY <1>2, <1>3, <2>1
  <2>2. CASE c # id
    BY <1>2, <1>3, <2>2 DEF IInv, HonestAge
  <2>3. QED
    BY <2>1, <2>2
<1>5. QED
  BY <1>1, <1>2, <1>3, <1>4 DEF IInv, SyncTypeOK, RunInv, operatorVars

\* Between the two commits the date on record is that of a run that started no
\* later than this one, or this one has been overtaken.
LEMMA UndatedPreserves ==
    ASSUME IInv, NEW s \in Slots, HistoryUndated(s)
    PROVE  IInv'
<1> DEFINE id == Head(runs[s].fetches).id
           late == runs[s].start < lastSuccess[id]
<1>1. /\ runs' \in [Slots -> Run \cup {Idle}]
      /\ \A t \in Slots : runs'[t] # Idle => RunInv(runs'[t])
      /\ lastFailure' \in [Ids -> Nat]
  BY PastFetchRun, ResumeKeeps, RunsEnd DEF HistoryUndated
<1>2. UNCHANGED <<now, rows, operatorVars, lastSuccess>> /\ lastSuccess \in [Ids -> Nat]
  BY DEF HistoryUndated, IInv, SyncTypeOK
<1>3. /\ AtFetch(s) /\ runs[s].whole /\ late \in BOOLEAN
      /\ ReplaceTickets(Head(runs[s].fetches), runs[s].read, late)
  BY DEF HistoryUndated
<1>4. /\ id \in Ids
      /\ runs[s].start \in Nat \ {0} /\ runs[s].start <= runs[s].read
      /\ tickets' \in [Ids -> Tickets \cup {NoTickets}]
      /\ tickets'[id] # NoTickets
      /\ tickets'[id].read = runs[s].read /\ tickets'[id].overtaken = late
      /\ \A c \in Ids : c # id => tickets'[c] = tickets[c]
  <2> HIDE DEF late
  <2>1. QED
    BY <1>3, NewTickets
<1>5. runs[s].read \in Nat
  BY <1>3, PastFetchRun DEF Run
<1> HIDE DEF id
<1>6. HonestAge'
  <2> SUFFICES ASSUME NEW c \in Ids, lastSuccess[c] # 0
               PROVE  /\ tickets'[c] # NoTickets
                      /\ tickets'[c].overtaken \/ lastSuccess[c] <= tickets'[c].read
    BY <1>2 DEF HonestAge
  <2>1. CASE c = id
    <3>1. CASE late
      <4>1. tickets'[id].overtaken
        <5> HIDE DEF late
        <5>1. QED
          BY <1>4, <3>1
      <4>2. QED
        BY <1>4, <2>1, <4>1
    <3>2. CASE ~late
      BY <1>2, <1>4, <1>5, <2>1, <3>2
    <3>3. QED
      BY <3>1, <3>2
  <2>2. CASE c # id
    BY <1>4, <2>2 DEF IInv, HonestAge
  <2>3. QED
    BY <2>1, <2>2
<1>7. QED
  BY <1>1, <1>2, <1>4, <1>6 DEF IInv, SyncTypeOK, RunInv, operatorVars

\* Restarting forgets the runs; the clock only makes the past longer.
LEMMA ProcessPreserves == ASSUME IInv, Restart \/ Tick \/ UNCHANGED vars PROVE IInv'
<1>1. CASE Restart
  BY <1>1 DEF Restart, Died, IInv, SyncTypeOK, HonestAge, operatorVars, mirrorVars
<1>2. CASE Tick
  <2>1. now' = now + 1 /\ now \in Nat \ {0} /\ UNCHANGED <<rows, runs, operatorVars, mirrorVars>>
    BY <1>2 DEF Tick, IInv, SyncTypeOK
  <2>2. ASSUME NEW s \in Slots, runs[s] # Idle PROVE RunInv(runs[s])'
    <3>1. RunInv(runs[s]) /\ runs[s].start \in Nat
      BY <2>2 DEF IInv, SyncTypeOK, Run
    <3>2. QED
      BY <2>1, <3>1 DEF RunInv
  <2>3. QED
    BY <2>1, <2>2 DEF IInv, SyncTypeOK, HonestAge, operatorVars, mirrorVars
<1>3. CASE UNCHANGED vars
  BY <1>3 DEF vars, IInv, SyncTypeOK, HonestAge, RunInv
<1>4. QED
  BY <1>1, <1>2, <1>3

\* Whatever answers, fails, is edited or restarted, the invariant survives.
LEMMA InvInductive == IInv /\ [Next]_vars => IInv'
<1> SUFFICES ASSUME IInv, [Next]_vars PROVE IInv'
  OBVIOUS
<1>1. CASE OperatorEdits
  BY <1>1, EditsPreserve
<1>2. CASE \E s \in Slots, scope \in Ids \cup {Everything}, reachable \in BOOLEAN :
             Start(s, scope, reachable)
  BY <1>2, StartPreserves
<1>3. ASSUME NEW s \in Slots, RunSteps(s) PROVE IInv'
  BY <1>3, ViewerPreserves, PagePreserves, FailurePreserves, SuccessPreserves,
     UndatedPreserves, RejectionPreserves DEF RunSteps
<1>4. CASE Restart \/ Tick \/ UNCHANGED vars
  BY <1>4, ProcessPreserves
<1>5. QED
  BY <1>1, <1>2, <1>3, <1>4 DEF Next

\* So it holds in every reachable state.
LEMMA InvHolds == Spec => []IInv
<1>1. QED
  BY InvStart, InvInductive, PTL DEF Spec

-----------------------------------------------------------------------------
(* The theorems.                                                           *)

\* Every variable keeps its type, however the runs overlap.
THEOREM SyncTypeCorrect == Spec => []SyncTypeOK
<1>1. IInv => SyncTypeOK
  BY DEF IInv
<1>2. QED
  BY <1>1, InvHolds, PTL

\* What the board says of its age is never younger than what it shows.
THEOREM HonestAgeTheorem == Spec => []HonestAge
<1>1. IInv => HonestAge
  BY DEF IInv
<1>2. QED
  BY <1>1, InvHolds, PTL

\* A lane that says fresh shows nothing older than the window, whichever
\* connections it shows.
THEOREM FreshTheorem == Spec => []FreshMeansFresh
<1>1. ASSUME IInv PROVE FreshMeansFresh
  <2> SUFFICES ASSUME LaneFresh, NEW c \in Recorded, ~tickets[c].overtaken
               PROVE  now - tickets[c].read <= StaleAfter
    BY DEF FreshMeansFresh
  <2>0. c \in Ids /\ View(c) = "fresh"
    BY DEF LaneFresh, Recorded
  <2>1. /\ now \in Nat /\ lastSuccess[c] \in Nat /\ lastFailure[c] \in Nat
        /\ tickets[c].read \in Nat /\ StaleAfter \in Nat
    BY <1>1, <2>0, SyncAssumption DEF IInv, SyncTypeOK, Tickets, NoTickets
  <2>2. lastSuccess[c] # 0
    BY <2>0 DEF View
  <2>3. lastSuccess[c] <= tickets[c].read
    BY <1>1, <2>0, <2>2 DEF IInv, HonestAge
  <2>4. now - lastSuccess[c] <= StaleAfter
    <3>1. ~(lastSuccess[c] = 0)
      BY <2>2
    <3>2. ~(lastFailure[c] > lastSuccess[c])
      BY <2>0, <2>1, <2>2 DEF View
    <3>3. View(c) = IF now - lastSuccess[c] > StaleAfter THEN "stale" ELSE "fresh"
      BY <3>1, <3>2, <2>1 DEF View
    <3>4. QED
      BY <2>0, <2>1, <3>3
  <2>5. QED
    BY <2>1, <2>3, <2>4
<1>2. QED
  BY <1>1, InvHolds, PTL

\* No step, interrupted or overtaken, leaves a secret without the row that
\* refers to it.
THEOREM NoSecretStrandedTheorem == Spec => NoSecretStranded
<1> DEFINE Kept == \A c \in Ids :
        secrets[c] # None /\ Listed(c) /\ secrets'[c] # None => Listed(c)'
<1>1. ASSUME IInv, [Next]_vars PROVE Kept
  <2>0. rows \in [Ids -> RowOf \cup {NoRow}] /\ secrets \in [Ids -> Accounts \cup {None}]
    BY <1>1 DEF IInv, SyncTypeOK
  <2>1. ASSUME NEW label \in Labels, NEW account \in Accounts,
               AddConnection(label, account) \/ AddInterrupted(label, account)
        PROVE  Kept
    <3>1. PICK c \in IdFor(label) :
            \/ rows' = [rows EXCEPT ![c] = [label |-> label, identity |-> rows[c].identity]]
            \/ rows' = rows
      BY <2>1 DEF AddConnection, AddInterrupted
    <3>2. [label |-> label, identity |-> rows[c].identity] # NoRow
      BY SyncAssumption DEF NoRow
    <3>3. QED
      BY <2>0, <3>1, <3>2 DEF Listed
  <2>2. ASSUME NEW c \in Ids, RemoveConnection(c) \/ RemoveInterrupted(c) PROVE Kept
    BY <2>0, <2>2 DEF RemoveConnection, RemoveInterrupted, Listed
  <2>3. ASSUME NEW s \in Slots, ViewerAnswers(s) PROVE Kept
    <3> DEFINE v == Head(runs[s].viewers)
               new == [v.row EXCEPT !.identity = v.account]
    <3>1. /\ runs[s] \in Run /\ runs[s] # Idle /\ runs[s].viewers # << >>
          /\ RunInv(runs[s])
      BY <1>1, <2>3 DEF ViewerAnswers, AtViewer, IInv, SyncTypeOK
    <3>2. v \in Viewer /\ v.account # None
      BY <3>1, TailOfLoop DEF Run, RunInv
    <3>3. v.row \in RowOf /\ v.account \in Accounts
      BY <3>2 DEF Viewer
    <3>4. rows' = rows \/ rows' = [rows EXCEPT ![v.id] = new]
      BY <2>3 DEF ViewerAnswers
    <3>5. new \in RowOf /\ new # NoRow
      BY <3>3, SyncAssumption DEF RowOf, NoRow
    <3> HIDE DEF v, new
    <3>6. QED
      BY <2>0, <3>4, <3>5 DEF Listed
  <2>4. CASE rows' = rows
    BY <2>4 DEF Listed
  <2>5. ASSUME NEW s \in Slots, RunSteps(s) PROVE rows' = rows \/ ViewerAnswers(s)
    BY <2>5 DEF RunSteps, ViewerFails, PageAnswers, FetchFails, HistoryAnswers,
                HistoryUndated, FetchRejected
  <2>6. ASSUME NEW s \in Slots, NEW scope \in Ids \cup {Everything}, NEW reachable \in BOOLEAN,
               Start(s, scope, reachable)
        PROVE  rows' = rows
    BY <2>6 DEF Start
  <2>7. Restart \/ Tick \/ UNCHANGED vars => rows' = rows
    BY DEF Restart, Tick, vars
  <2>8. QED
    BY <1>1, <2>1, <2>2, <2>3, <2>4, <2>5, <2>6, <2>7 DEF Next, OperatorEdits
<1>2. IInv /\ [Next]_vars => [Kept]_vars
  BY <1>1
<1>3. QED
  BY <1>2, InvHolds, PTL DEF Spec, NoSecretStranded

=============================================================================
