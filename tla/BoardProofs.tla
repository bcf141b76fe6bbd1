------------------------------ MODULE BoardProofs ------------------------------
(***************************************************************************)
(* What the board says of an agent is backed by what was heard of it, for  *)
(* any number of sessions and tickets, any intervals and any clock: the    *)
(* times that reports name are stored, not the times at which they came,   *)
(* and the theorems rest on the stored ones never passing the others.      *)
(* Then the tickets of a sync say what Jira holds, for any site, any size  *)
(* of page, any number of workers and any failures.  And the types of the  *)
(* console as a whole, which puts these parts and others side by side.     *)
(***************************************************************************)
EXTENDS MCConsole, RecordsProofs, StartProofs, SequenceTheorems, FiniteSetTheorems,
        WellFoundedInduction, TLAPS

\* A set of numbers that is not empty has a least.
LEMMA HasLeast ==
    ASSUME NEW T \in SUBSET Nat, T # {}
    PROVE  \E m \in T : \A n \in T : m <= n
<1> DEFINE Upto(m) == {n \in Nat : n <= m}
           heads == {Upto(m) : m \in T}
<1>1. heads \subseteq FiniteSubsetsOf(Nat) /\ heads # {}
  <2>1. ASSUME NEW m \in T
        PROVE  IsFiniteSet(Upto(m))
    <3>1. Upto(m) = 0..m
      OBVIOUS
    <3> HIDE DEF Upto
    <3>2. QED
      BY <3>1, FS_Interval
  <2>2. QED
    BY <2>1 DEF FiniteSubsetsOf
<1>2. PICK head \in heads : \A early \in heads : ~(<<early, head>> \in StrictSubsetOrdering(Nat))
  <2> HIDE DEF heads
  <2>1. QED
    BY <1>1, FS_StrictSubsetOrderingWellFounded, WFMin
<1>3. PICK m \in T : head = Upto(m)
  BY <1>2
<1>4. ASSUME NEW n \in T, n < m
      PROVE  FALSE
  <2>1. m \in Upto(m) /\ m \notin Upto(n)
    BY <1>4
  <2>2. Upto(n) \subseteq Upto(m)
    BY <1>4
  <2>3. Upto(n) \in heads /\ Upto(n) \subseteq Nat /\ Upto(m) \subseteq Nat
    OBVIOUS
  <2> HIDE DEF Upto, heads
  <2>4. QED
    BY <1>2, <1>3, <2>1, <2>2, <2>3 DEF StrictSubsetOrdering
<1>5. QED
  BY <1>4

\* One that is finite has a greatest.
LEMMA HasGreatest ==
    ASSUME NEW T \in SUBSET Nat, T # {}, IsFiniteSet(T)
    PROVE  \E m \in T : \A n \in T : n <= m
<1> DEFINE From(m) == {n \in T : m <= n}
           counts == {Cardinality(From(m)) : m \in T}
<1>1. ASSUME NEW m \in T
      PROVE  IsFiniteSet(From(m)) /\ Cardinality(From(m)) \in Nat
  <2>1. From(m) \in SUBSET T
    OBVIOUS
  <2> HIDE DEF From
  <2>2. QED
    BY <2>1, FS_Subset, FS_CardinalityType
<1>2. PICK least \in counts : \A n \in counts : least <= n
  <2>1. counts \in SUBSET Nat /\ counts # {}
    BY <1>1
  <2> HIDE DEF counts
  <2>2. QED
    BY <2>1, HasLeast
<1>3. PICK m \in T : least = Cardinality(From(m))
  BY <1>2
<1>4. ASSUME NEW n \in T, n > m
      PROVE  FALSE
  <2>1. m \in From(m) /\ m \notin From(n)
    BY <1>4
  <2>2. From(n) \subseteq From(m) \ {m}
    <3>1. \A x \in T : n <= x => m <= x /\ x # m
      BY <1>4
    <3>2. QED
      BY <3>1
  <2>3. IsFiniteSet(From(m) \ {m}) /\ Cardinality(From(m) \ {m}) = Cardinality(From(m)) - 1
    <3> HIDE DEF From
    <3>1. QED
      BY <1>1, <2>1, FS_RemoveElement
  <2>4. Cardinality(From(n)) <= Cardinality(From(m)) - 1
    <3> HIDE DEF From
    <3>1. QED
      BY <2>2, <2>3, FS_Subset
  <2>5. Cardinality(From(m)) <= Cardinality(From(n))
    BY <1>2, <1>3
  <2>6. QED
    BY <1>1, <2>4, <2>5
<1>5. QED
  BY <1>4

-----------------------------------------------------------------------------
\* What is stored of a session is not younger than what was received.
Backed(k) ==
    /\ heard[k] <= now
    /\ worked[k] # None => worked[k] <= now
    /\ Begun(k) => sessions[k].heartbeat <= heard[k]
    /\ Begun(k) /\ sessions[k].activity # None
       => worked[k] # None /\ sessions[k].activity <= worked[k]

IInv == SessionsTypeOK /\ \A k \in Keys : Backed(k)

\* A row that an operation may store now, `at` being the last report of work.
Storable(row, at) ==
    /\ row \in Row
    /\ (row.ended = None) = (row.outcome = None)
    /\ row.heartbeat <= now
    /\ row.activity # None => at # None /\ row.activity <= at

USE SessionsAssumption

\* stamp: between the floor and the clock.
LEMMA StampBounds ==
    ASSUME now \in Times, NEW at \in Named, NEW floor \in Times, floor <= now
    PROVE  /\ Stamp(at, floor) \in Times
           /\ Stamp(at, floor) <= now
           /\ floor <= Stamp(at, floor)
  BY DEF Stamp, Times, Named

\* The floor of an activity is a time, and it is past.
LEMMA ActivityFloorPast ==
    ASSUME IInv, NEW k \in Keys, Begun(k)
    PROVE  ActivityFloor(sessions[k]) \in Times /\ ActivityFloor(sessions[k]) <= now
<1>1. sessions[k] \in Row /\ now \in Times /\ worked[k] \in Times \cup {None}
  BY DEF IInv, SessionsTypeOK, Begun
<1>2. CASE sessions[k].activity = None
  BY <1>1, <1>2 DEF ActivityFloor, NoFloor, Times
<1>3. CASE sessions[k].activity # None
  <2>1. sessions[k].activity \in Times /\ worked[k] # None
        /\ sessions[k].activity <= worked[k] /\ worked[k] <= now
    BY <1>1, <1>3 DEF IInv, Backed, Row
  <2>2. QED
    BY <1>1, <1>3, <2>1 DEF ActivityFloor, Times
<1>4. QED
  BY <1>2, <1>3

\* Storing such a row for one session keeps the invariant.
LEMMA StoreKeeps ==
    ASSUME IInv, NEW k \in Keys, NEW row, Storable(row, worked'[k]),
           sessions' = [sessions EXCEPT ![k] = row],
           heard' = [heard EXCEPT ![k] = now],
           worked' = worked \/ worked' = [worked EXCEPT ![k] = now],
           UNCHANGED <<now, questions>>
    PROVE  IInv'
<1>1. now \in Times /\ sessions \in [Keys -> Row \cup {NoRow}] /\ heard \in [Keys -> Times]
      /\ worked \in [Keys -> Times \cup {None}]
  BY DEF IInv, SessionsTypeOK
<1>2. SessionsTypeOK'
  <2>1. sessions' \in [Keys -> Row \cup {NoRow}] /\ heard' \in [Keys -> Times]
        /\ worked' \in [Keys -> Times \cup {None}]
    BY <1>1 DEF Storable
  <2>2. ASSUME NEW j \in Keys, Begun(j)'
        PROVE  (sessions'[j].ended = None) = (sessions'[j].outcome = None)
    <3>1. CASE j = k
      BY <3>1, <1>1 DEF Storable
    <3>2. CASE j # k
      BY <2>2, <3>2, <1>1 DEF IInv, SessionsTypeOK, Begun
    <3>3. QED
      BY <3>1, <3>2
  <2>3. QED
    BY <2>1, <2>2 DEF IInv, SessionsTypeOK, Times
<1>3. ASSUME NEW j \in Keys
      PROVE  Backed(j)'
  <2>1. CASE j = k
    <3>1. sessions'[j] = row /\ heard'[j] = now /\ now <= now
      BY <2>1, <1>1 DEF Times
    <3>2. worked'[j] # None => worked'[j] <= now
      BY <2>1, <1>1, <3>1 DEF IInv, Backed
    <3>3. QED
      BY <2>1, <3>1, <3>2 DEF Backed, Begun, Storable
  <2>2. CASE j # k
    <3>1. sessions'[j] = sessions[j] /\ heard'[j] = heard[j] /\ worked'[j] = worked[j]
      BY <2>2, <1>1
    <3>2. QED
      BY <3>1 DEF IInv, Backed, Begun
  <2>3. QED
    BY <2>1, <2>2
<1>4. QED
  BY <1>2, <1>3 DEF IInv

\* What is known of a session that has begun.
LEMMA BegunFacts ==
    ASSUME IInv, NEW k \in Keys, Begun(k)
    PROVE  /\ sessions[k] \in Row /\ now \in Times
           /\ sessions[k].heartbeat \in Times /\ sessions[k].heartbeat <= now
           /\ (sessions[k].ended = None) = (sessions[k].outcome = None)
           /\ sessions[k].activity # None
              => worked[k] # None /\ sessions[k].activity <= worked[k]
<1>1. sessions[k] \in Row /\ now \in Times /\ heard[k] \in Times
  BY DEF IInv, SessionsTypeOK, Begun
<1>2. sessions[k].heartbeat <= heard[k] /\ heard[k] <= now
  BY DEF IInv, Backed
<1>3. sessions[k].heartbeat \in Times
  BY <1>1 DEF Row
<1>4. sessions[k].heartbeat <= now
  BY <1>1, <1>2, <1>3 DEF Times
<1>5. QED
  BY <1>1, <1>3, <1>4 DEF IInv, SessionsTypeOK, Backed

\* A start stores a row that its report backs, begun before or not.
LEMMA StartKeeps ==
    ASSUME IInv, NEW k \in Keys, NEW item \in Tickets \cup {None}, NEW interval \in Intervals,
           NEW at \in Named, Start(k, item, interval, at)
    PROVE  IInv'
<1> DEFINE stamp == Stamp(at, NoFloor)
           row == Started(k, item, interval, stamp)
<1>1. now \in Times /\ worked \in [Keys -> Times \cup {None}]
  BY DEF IInv, SessionsTypeOK
<1>2. stamp \in Times /\ stamp <= now
  BY <1>1, StampBounds DEF NoFloor, Times
<1>3. Storable(row, worked[k])
  <2>1. CASE Begun(k)
    <3>1. row = [sessions[k] EXCEPT !.item = item, !.interval = interval,
                                    !.heartbeat = stamp, !.ended = None, !.outcome = None]
      BY <2>1 DEF Started
    <3>2. row \in Row /\ row.heartbeat = stamp /\ row.ended = None /\ row.outcome = None
          /\ row.activity = sessions[k].activity
      BY <2>1, <3>1, <1>2, BegunFacts DEF Row
    <3>3. QED
      BY <2>1, <3>2, <1>2, BegunFacts DEF Storable
  <2>2. CASE ~Begun(k)
    <3>1. row = [item |-> item, interval |-> interval, started |-> stamp, heartbeat |-> stamp,
                 activity |-> None, ended |-> None, outcome |-> None]
      BY <2>2 DEF Started
    <3>2. QED
      BY <3>1, <1>2 DEF Storable, Row
  <2>3. QED
    BY <2>1, <2>2
<1>4. QED
  <2>1. sessions' = [sessions EXCEPT ![k] = row] /\ heard' = [heard EXCEPT ![k] = now]
        /\ UNCHANGED <<now, questions>> /\ worked' = worked
    BY DEF Start
  <2>2. QED
    BY <2>1, <1>3, StoreKeeps

\* A beat moves the beat alone.
LEMMA HeartbeatKeeps ==
    ASSUME IInv, NEW k \in Keys, NEW at \in Named, Heartbeat(k, at)
    PROVE  IInv'
<1> DEFINE stamp == Stamp(at, sessions[k].heartbeat)
           row == [sessions[k] EXCEPT !.heartbeat = stamp]
<1>1. Begun(k) /\ sessions' = [sessions EXCEPT ![k] = row]
      /\ heard' = [heard EXCEPT ![k] = now] /\ UNCHANGED <<now, questions>> /\ worked' = worked
  BY DEF Heartbeat, Touch
<1>2. stamp \in Times /\ stamp <= now
  BY <1>1, BegunFacts, StampBounds
<1>3. row \in Row /\ row.heartbeat = stamp /\ row.ended = sessions[k].ended
      /\ row.outcome = sessions[k].outcome /\ row.activity = sessions[k].activity
  BY <1>1, <1>2, BegunFacts DEF Row
<1>4. Storable(row, worked[k])
  BY <1>1, <1>2, <1>3, BegunFacts DEF Storable
<1>5. QED
  BY <1>1, <1>4, StoreKeeps

\* A report of work is work, and is dated no later than it came.
LEMMA ActivityKeeps ==
    ASSUME IInv, NEW k \in Keys, NEW item \in Tickets \cup {None}, NEW at \in Named,
           Activity(k, item, at)
    PROVE  IInv'
<1> DEFINE beat == Stamp(at, sessions[k].heartbeat)
           work == Stamp(at, ActivityFloor(sessions[k]))
           row == [sessions[k] EXCEPT !.heartbeat = beat, !.activity = work, !.item = item]
<1>1. Begun(k) /\ sessions' = [sessions EXCEPT ![k] = row]
      /\ heard' = [heard EXCEPT ![k] = now] /\ UNCHANGED <<now, questions>>
      /\ worked' = [worked EXCEPT ![k] = now]
  BY DEF Activity, Touch
<1>2. beat \in Times /\ beat <= now
  BY <1>1, BegunFacts, StampBounds
<1>3. work \in Times /\ work <= now
  BY <1>1, BegunFacts, ActivityFloorPast, StampBounds
<1>4. row \in Row /\ row.heartbeat = beat /\ row.ended = sessions[k].ended
      /\ row.outcome = sessions[k].outcome /\ row.activity = work
  <2>1. sessions[k] \in Row
    BY <1>1, BegunFacts
  <2>2. \A r \in Row : LET touched == [r EXCEPT !.heartbeat = beat, !.activity = work, !.item = item]
                        IN  touched \in Row /\ touched.heartbeat = beat /\ touched.ended = r.ended
                            /\ touched.outcome = r.outcome /\ touched.activity = work
    <3> HIDE DEF beat, work
    <3>1. QED
      BY <1>2, <1>3 DEF Row
  <2>3. QED
    BY <2>1, <2>2
<1>5. worked'[k] = now /\ now # None
  BY <1>1, BegunFacts DEF IInv, SessionsTypeOK, Times
<1>6. Storable(row, worked'[k])
  BY <1>1, <1>2, <1>3, <1>4, <1>5, BegunFacts DEF Storable
<1>7. QED
  BY <1>1, <1>6, StoreKeeps

\* An end says how.
LEMMA EndKeeps ==
    ASSUME IInv, NEW k \in Keys, NEW outcome \in {"done", "failed"}, NEW at \in Named,
           End(k, outcome, at)
    PROVE  IInv'
<1> DEFINE stamp == Stamp(at, sessions[k].heartbeat)
           row == [sessions[k] EXCEPT !.heartbeat = stamp, !.ended = stamp, !.outcome = outcome]
<1>1. Begun(k) /\ sessions' = [sessions EXCEPT ![k] = row]
      /\ heard' = [heard EXCEPT ![k] = now] /\ UNCHANGED <<now, questions>> /\ worked' = worked
  BY DEF End, Touch
<1>2. stamp \in Times /\ stamp <= now
  BY <1>1, BegunFacts, StampBounds
<1>3. row \in Row /\ row.heartbeat = stamp /\ row.ended = stamp
      /\ row.outcome = outcome /\ row.activity = sessions[k].activity
  <2>1. sessions[k] \in Row
    BY <1>1, BegunFacts
  <2>2. \A r \in Row : LET touched == [r EXCEPT !.heartbeat = stamp, !.ended = stamp,
                                                   !.outcome = outcome]
                        IN  touched \in Row /\ touched.heartbeat = stamp /\ touched.ended = stamp
                            /\ touched.outcome = outcome /\ touched.activity = r.activity
    <3> HIDE DEF stamp
    <3>1. QED
      BY <1>2 DEF Row
  <2>3. QED
    BY <2>1, <2>2
<1>4. stamp # None /\ outcome # None
  BY <1>2 DEF Times
<1>5. Storable(row, worked[k])
  BY <1>1, <1>2, <1>3, <1>4, BegunFacts DEF Storable
<1>6. QED
  BY <1>1, <1>5, StoreKeeps

\* Time only adds to the distance of what is stored.
LEMMA TickKeeps ==
    ASSUME IInv, Tick
    PROVE  IInv'
<1>1. now \in Times /\ now' = now + 1 /\ now' \in Times
      /\ UNCHANGED <<sessions, questions, heard, worked>>
  BY DEF IInv, SessionsTypeOK, Tick, Times
<1>2. SessionsTypeOK'
  BY <1>1 DEF IInv, SessionsTypeOK, Begun
<1>3. ASSUME NEW k \in Keys
      PROVE  Backed(k)'
  <2>1. heard[k] \in Times /\ worked[k] \in Times \cup {None}
    BY DEF IInv, SessionsTypeOK
  <2>2. heard[k] <= now + 1 /\ (worked[k] # None => worked[k] <= now + 1)
    BY <1>1, <2>1 DEF IInv, Backed, Times
  <2>3. QED
    BY <1>1, <2>2 DEF IInv, Backed, Begun
<1>4. QED
  BY <1>2, <1>3 DEF IInv

\* Questions are no report.
LEMMA QuestionsKeep ==
    ASSUME IInv, NEW subject \in Keys \cup Tickets, QuestionsMove(subject)
    PROVE  IInv'
  BY DEF IInv, SessionsTypeOK, QuestionsMove, Backed, Begun

\* The invariant is inductive.
LEMMA IInvHolds == SessionsSpec => []IInv
<1>1. Init => IInv
  BY DEF Init, IInv, SessionsTypeOK, Backed, Begun, NoRow, Times
<1>2. IInv /\ [SessionsNext]_vars => IInv'
  <2> SUFFICES ASSUME IInv, [SessionsNext]_vars
               PROVE  IInv'
    OBVIOUS
  <2>1. CASE Tick
    BY <2>1, TickKeeps
  <2>2. CASE \E subject \in Keys \cup Tickets : QuestionsMove(subject)
    BY <2>2, QuestionsKeep
  <2>3. ASSUME NEW k \in Keys, Starts(k)
        PROVE  IInv'
    BY <2>3, StartKeeps DEF Starts
  <2>4. ASSUME NEW k \in Keys, \E at \in Named : Heartbeat(k, at)
        PROVE  IInv'
    BY <2>4, HeartbeatKeeps
  <2>5. ASSUME NEW k \in Keys, \E item \in Tickets \cup {None}, at \in Named :
                  Begun(k) /\ Activity(k, item, at)
        PROVE  IInv'
    BY <2>5, ActivityKeeps
  <2>6. ASSUME NEW k \in Keys, \E outcome \in {"done", "failed"}, at \in Named :
                  End(k, outcome, at)
        PROVE  IInv'
    BY <2>6, EndKeeps
  <2>7. CASE UNCHANGED vars
    BY <2>7 DEF vars, IInv, SessionsTypeOK, Backed, Begun
  <2>8. QED
    BY <2>1, <2>2, <2>3, <2>4, <2>5, <2>6, <2>7 DEF SessionsNext
<1>3. QED
  BY <1>1, <1>2, PTL DEF SessionsSpec

\* The tables and the clock have their types, and an end always says how.
THEOREM SessionsTypeTheorem == SessionsSpec => []SessionsTypeOK
<1>1. IInv => SessionsTypeOK
  BY DEF IInv
<1>2. QED
  BY <1>1, IInvHolds, PTL

\* The last activity shown is not younger than the last report of work.
THEOREM IdleTheorem == SessionsSpec => []IdleIsHonest
<1>1. IInv => IdleIsHonest
  BY DEF IInv, Backed, IdleIsHonest
<1>2. QED
  BY <1>1, IInvHolds, PTL

\* Within the window by the stored beat is within the window by the last report.
LEMMA LiveIsHeard ==
    ASSUME IInv, NEW k \in Keys, Begun(k), Live(k)
    PROVE  sessions[k].ended = None /\ ~Unheard(k)
<1>1. sessions[k] \in Row /\ now \in Times /\ heard[k] \in Times
  BY DEF IInv, SessionsTypeOK, Begun
<1>2. sessions[k].heartbeat \in Times /\ sessions[k].interval \in Nat
  BY <1>1 DEF Row
<1>3. sessions[k].heartbeat <= heard[k]
  BY DEF IInv, Backed
<1>4. sessions[k].interval * Multiplier \in Int
  BY <1>2
<1>5. now - sessions[k].heartbeat <= sessions[k].interval * Multiplier
  BY DEF Live
<1>6. now - heard[k] <= sessions[k].interval * Multiplier
  <2> DEFINE window == sessions[k].interval * Multiplier
  <2>1. window \in Int /\ now - sessions[k].heartbeat <= window
    BY <1>4, <1>5
  <2> HIDE DEF window
  <2>2. now - heard[k] <= window
    BY <1>1, <1>2, <1>3, <2>1 DEF Times
  <2>3. QED
    BY <2>2 DEF window
<1>7. QED
  <2> DEFINE window == sessions[k].interval * Multiplier
  <2>1. window \in Int /\ now - heard[k] <= window /\ now - heard[k] \in Int
    BY <1>1, <1>4, <1>6 DEF Times
  <2>2. Unheard(k) <=> now - heard[k] > window
    BY DEF Unheard
  <2> HIDE DEF window
  <2>3. QED
    BY <2>1, <2>2 DEF Live

\* The ball is with an agent only while one has been heard from within its window and
\* nobody waits for the operator's answer: for every row the mirror may hold, and any
\* times that reports may name.
THEOREM BallTheorem == SessionsSpec => []BallIsWithTheLiving
<1>1. IInv => BallIsWithTheLiving
  <2> SUFFICES ASSUME IInv, NEW t \in Tickets, NEW row \in TicketRow,
                      BallInCourt(t, row) = "agent"
               PROVE  /\ ~OpenQuestion(t)
                      /\ \E k \in Keys : Begun(k) /\ sessions[k].item = t
                            /\ sessions[k].ended = None /\ ~Unheard(k)
    BY DEF BallIsWithTheLiving
  <2>1. ~OpenQuestion(t) /\ \E k \in On(t) : Live(k)
    BY DEF BallInCourt
  <2>2. PICK k \in On(t) : Live(k)
    BY <2>1
  <2>3. k \in Keys /\ Begun(k) /\ sessions[k].item = t
    BY <2>2 DEF On
  <2>4. QED
    BY <2>1, <2>2, <2>3, LiveIsHeard
<1>2. QED
  BY <1>1, IInvHolds, PTL

-----------------------------------------------------------------------------
\* A step on one session leaves the stored beat of every other one alone, and every
\* report but a start leaves its own no earlier than it was.
LEMMA BeatsAreFloored ==
    ASSUME IInv, NEW j \in Keys, NEW k \in Keys, Begun(k),
           NEW at \in Named, NEW row,
           sessions' = [sessions EXCEPT ![j] = row],
           row.heartbeat = Stamp(at, sessions[j].heartbeat)
    PROVE  ~(sessions'[k].heartbeat < sessions[k].heartbeat)
<1>1. sessions[k].heartbeat \in Times /\ sessions[k].heartbeat <= now /\ now \in Times
  BY BegunFacts
<1>2. sessions \in [Keys -> Row \cup {NoRow}]
  BY DEF IInv, SessionsTypeOK
<1>3. CASE j = k
  <2> DEFINE stamp == Stamp(at, sessions[k].heartbeat)
  <2>1. stamp \in Times /\ sessions[k].heartbeat <= stamp
    BY <1>1, StampBounds
  <2>2. sessions'[k].heartbeat = stamp
    BY <1>2, <1>3
  <2> HIDE DEF stamp
  <2>3. QED
    BY <1>1, <2>1, <2>2 DEF Times
<1>4. CASE j # k
  BY <1>1, <1>2, <1>4 DEF Times
<1>5. QED
  BY <1>3, <1>4

\* Only a new start sets a running session back: a beat, a report of work or an end
\* that comes late does not, whatever time it names.
THEOREM LateBeatsTheorem == SessionsSpec => LateBeatsDoNotDrag
<1>1. ASSUME IInv, [SessionsNext]_vars, NEW k \in Keys, Silenced(k)
      PROVE  Starts(k)
  <2>1. /\ Begun(k) /\ now' = now
        /\ sessions'[k].ended = None /\ sessions'[k].heartbeat < sessions[k].heartbeat
    BY <1>1 DEF Silenced
  <2>2. sessions[k].heartbeat \in Times /\ now \in Times
        /\ sessions \in [Keys -> Row \cup {NoRow}]
    BY <1>1, <2>1, BegunFacts DEF IInv, SessionsTypeOK
  <2>3. sessions' # sessions
    BY <2>1, <2>2 DEF Times
  <2>4. ASSUME NEW j \in Keys, Starts(j)
        PROVE  Starts(k)
    <3>1. CASE j = k
      BY <2>4, <3>1
    <3>2. CASE j # k
      <4>1. sessions'[k] = sessions[k]
        BY <2>2, <2>4, <3>2 DEF Starts, Start
      <4>2. QED
        BY <2>1, <2>2, <4>1 DEF Times
    <3>3. QED
      BY <3>1, <3>2
  <2>5. ASSUME NEW j \in Keys, NEW at \in Named, Heartbeat(j, at)
        PROVE  FALSE
    <3> DEFINE row == [sessions[j] EXCEPT !.heartbeat = Stamp(at, sessions[j].heartbeat)]
    <3>1. Begun(j) /\ sessions' = [sessions EXCEPT ![j] = row]
      BY <2>5 DEF Heartbeat, Touch
    <3>2. row.heartbeat = Stamp(at, sessions[j].heartbeat)
      BY <1>1, <3>1, BegunFacts DEF Row
    <3>3. QED
      BY <1>1, <2>1, <3>1, <3>2, BeatsAreFloored
  <2>6. ASSUME NEW j \in Keys, NEW item \in Tickets \cup {None}, NEW at \in Named,
               Activity(j, item, at)
        PROVE  FALSE
    <3> DEFINE beat == Stamp(at, sessions[j].heartbeat)
               work == Stamp(at, ActivityFloor(sessions[j]))
               row == [sessions[j] EXCEPT !.heartbeat = beat, !.activity = work, !.item = item]
    <3>1. Begun(j) /\ sessions' = [sessions EXCEPT ![j] = row]
      BY <2>6 DEF Activity, Touch
    <3>2. row.heartbeat = beat
      <4> HIDE DEF beat, work
      <4>1. QED
        BY <1>1, <3>1, BegunFacts DEF Row
    <3>3. QED
      BY <1>1, <2>1, <3>1, <3>2, BeatsAreFloored
  <2>7. ASSUME NEW j \in Keys, NEW outcome \in {"done", "failed"}, NEW at \in Named,
               End(j, outcome, at)
        PROVE  FALSE
    <3> DEFINE stamp == Stamp(at, sessions[j].heartbeat)
               row == [sessions[j] EXCEPT !.heartbeat = stamp, !.ended = stamp, !.outcome = outcome]
    <3>1. Begun(j) /\ sessions' = [sessions EXCEPT ![j] = row]
      BY <2>7 DEF End, Touch
    <3>2. row.heartbeat = stamp
      <4> HIDE DEF stamp
      <4>1. QED
        BY <1>1, <3>1, BegunFacts DEF Row
    <3>3. QED
      BY <1>1, <2>1, <3>1, <3>2, BeatsAreFloored
  <2>8. ~Tick /\ ~(\E subject \in Keys \cup Tickets : QuestionsMove(subject))
        /\ ~UNCHANGED vars
    BY <2>3 DEF Tick, QuestionsMove, vars
  <2>9. QED
    BY <1>1, <2>4, <2>5, <2>6, <2>7, <2>8 DEF SessionsNext
<1>2. IInv /\ [SessionsNext]_vars => [\A k \in Keys : Silenced(k) => Starts(k)]_vars
  BY <1>1
<1>3. QED
  BY <1>2, IInvHolds, PTL DEF SessionsSpec, LateBeatsDoNotDrag

-----------------------------------------------------------------------------
\* Times that are known have a latest: of the sets of those from some time on, one has
\* none below it.
LEMMA HasLatest ==
    ASSUME NEW T \in SUBSET Times, T # {}
    PROVE  \E m \in T : \A n \in T : n <= m
<1>1. IsFiniteSet(Times)
  BY FS_Interval DEF Times
<1>2. T \in SUBSET Nat
  BY DEF Times
<1>3. IsFiniteSet(T)
  BY <1>1, FS_Subset
<1>4. QED
  BY <1>2, <1>3, HasGreatest

\* latestOf: one of the times, and none is later.
LEMMA LatestIsLast ==
    ASSUME NEW times \in SUBSET (Times \cup {None}), NEW known \in times, known # None
    PROVE  /\ LatestOf(times) \in times \ {None}
           /\ \A at \in times \ {None} : at <= LatestOf(times)
<1> DEFINE those == times \ {None}
<1>1. those \in SUBSET Times /\ those # {}
  OBVIOUS
<1>2. \E at \in those : \A another \in those : another <= at
  BY <1>1, HasLatest
<1>3. LatestOf(times) = CHOOSE at \in those : \A another \in those : another <= at
  BY <1>1 DEF LatestOf
<1> HIDE DEF those
<1>4. LatestOf(times) \in those /\ \A another \in those : another <= LatestOf(times)
  BY <1>2, <1>3
<1>5. QED
  BY <1>4 DEF those

\* Nothing is known, and nothing is latest; or something is.
LEMMA LatestOfNothing ==
    ASSUME NEW times \in SUBSET (Times \cup {None}), LatestOf(times) # None
    PROVE  \E known \in times : known # None
  BY DEF LatestOf

-----------------------------------------------------------------------------
\* The ranks.
LEMMA RankOf ==
    /\ Rank("good") = 1 /\ Rank("warning") = 2
    /\ Rank("serious") = 3 /\ Rank("critical") = 4
<1>1. /\ Severities[1] = "good" /\ Severities[2] = "warning"
      /\ Severities[3] = "serious" /\ Severities[4] = "critical"
  BY DEF Severities
<1>2. \A i \in 1..4 : i = 1 \/ i = 2 \/ i = 3 \/ i = 4
  OBVIOUS
<1>3. QED
  BY <1>1, <1>2 DEF Rank

\* Among ranks there is a worst.
LEMMA HasWorst ==
    ASSUME NEW ranks \in SUBSET (1..4), ranks # {}
    PROVE  \E i \in ranks : \A j \in ranks : j <= i
<1>1. \A i \in ranks : i = 1 \/ i = 2 \/ i = 3 \/ i = 4
  OBVIOUS
<1>2. CASE 4 \in ranks
  BY <1>1, <1>2
<1>3. CASE 4 \notin ranks /\ 3 \in ranks
  BY <1>1, <1>3
<1>4. CASE 4 \notin ranks /\ 3 \notin ranks /\ 2 \in ranks
  BY <1>1, <1>4
<1>5. CASE 4 \notin ranks /\ 3 \notin ranks /\ 2 \notin ranks
  <2>1. \A j \in ranks : j = 1
    BY <1>1, <1>5
  <2>2. PICK i \in ranks : TRUE
    OBVIOUS
  <2>3. i = 1
    BY <2>1
  <2>4. QED
    BY <2>1, <2>3
<1>6. QED
  BY <1>2, <1>3, <1>4, <1>5

\* A row is good when the worst of it is.
LEMMA GoodIsWorst ==
    ASSUME NEW ranks \in SUBSET (1..4), ranks # {},
           Severities[CHOOSE i \in ranks : \A j \in ranks : j <= i] = "good"
    PROVE  \A j \in ranks : j = 1
<1> DEFINE worst == CHOOSE i \in ranks : \A j \in ranks : j <= i
<1>1. worst \in ranks /\ \A j \in ranks : j <= worst
  BY HasWorst
<1>2. Severities[worst] = "good"
  OBVIOUS
<1> HIDE DEF worst
<1>3. worst = 1
  <2>1. worst \in 1..4 => worst = 1 \/ worst = 2 \/ worst = 3 \/ worst = 4
    OBVIOUS
  <2>2. QED
    BY <1>1, <1>2, <2>1 DEF Severities
<1>4. QED
  BY <1>1, <1>3

\* An age below the threshold is no multiple of it.
LEMMA NoMultiple ==
    ASSUME NEW age \in Nat, NEW limit \in Nat \ {0}, age \div limit = 0
    PROVE  age < limit
  OBVIOUS

\* What is known of an item: the times of its sessions' activities, and the ticket's.
LEMMA ItemTimes ==
    ASSUME IInv, NEW t, NEW row \in TicketRow
    PROVE  /\ {row.changed} \cup {sessions[k].activity : k \in On(t)} \in SUBSET (Times \cup {None})
           /\ {row.changed} \cup {worked[k] : k \in On(t)} \in SUBSET (Times \cup {None})
<1>1. row.changed \in Times \cup {None}
  BY DEF TicketRow
<1>2. ASSUME NEW k \in On(t)
      PROVE  sessions[k].activity \in Times \cup {None} /\ worked[k] \in Times \cup {None}
  <2>1. k \in Keys /\ Begun(k)
    BY DEF On
  <2>2. sessions[k] \in Row
    BY <2>1, BegunFacts
  <2>3. QED
    BY <2>1, <2>2 DEF Row, IInv, SessionsTypeOK
<1>3. QED
  BY <1>1, <1>2

\* Nothing known, no latest; otherwise a time, and no age is negative.
LEMMA ItemActivity ==
    ASSUME IInv, NEW t, NEW row \in TicketRow
    PROVE  /\ WorkItemActivity(t, row) \in Times \cup {None}
           /\ ThresholdMultiple(WorkItemActivity(t, row)) \in Nat
<1> DEFINE times == {row.changed} \cup {sessions[k].activity : k \in On(t)}
           at == WorkItemActivity(t, row)
<1>1. at = LatestOf(times)
  BY DEF WorkItemActivity
<1>2. times \in SUBSET (Times \cup {None})
  BY ItemTimes
<1> HIDE DEF times, at
<1>3. at \in Times \cup {None}
  <2>1. CASE LatestOf(times) = None
    BY <1>1, <2>1
  <2>2. CASE LatestOf(times) # None
    <3>1. PICK known \in times : known # None
      BY <1>2, <2>2, LatestOfNothing
    <3>2. QED
      BY <1>1, <1>2, <3>1, LatestIsLast
  <2>3. QED
    BY <2>1, <2>2
<1>4. at # None => HoursSince(at) \in Nat
  BY <1>3 DEF HoursSince, Times, IInv, SessionsTypeOK
<1>5. at # None /\ Threshold # 0 => HoursSince(at) \div Threshold \in Nat
  BY <1>4, BoardAssumption
<1>6. ThresholdMultiple(at) \in Nat
  BY <1>5 DEF ThresholdMultiple
<1>7. QED
  BY <1>3, <1>6 DEF at

\* What a row without a mark says of the sessions on it and of its age.
LEMMA GoodSays ==
    ASSUME IInv, NEW t, NEW row \in TicketRow, SeverityOf(t, row) = "good"
    PROVE  /\ \A k \in On(t) : OfSession(StateOnItem(t, k)) = "good"
           /\ ThresholdMultiple(WorkItemActivity(t, row)) = 0
<1> DEFINE multiple == ThresholdMultiple(WorkItemActivity(t, row))
           overdue == StalenessSeverity(multiple)
           ofTicket == Rank(OfTicket(row))
           ofSessions == {Rank(OfSession(StateOnItem(t, k))) : k \in On(t)}
           ranks == {ofTicket, overdue} \cup ofSessions
<1>1. Severities[CHOOSE i \in ranks : \A j \in ranks : j <= i] = "good"
  BY DEF SeverityOf
<1>2. ofTicket \in 1..4
  BY RankOf DEF OfTicket
<1>3. \A k \in On(t) : /\ Rank(OfSession(StateOnItem(t, k))) \in 1..4
                       /\ Rank(OfSession(StateOnItem(t, k))) = 1
                          => OfSession(StateOnItem(t, k)) = "good"
  BY RankOf DEF OfSession
<1>4. overdue \in 1..4 /\ (overdue = 1 => multiple = 0)
  <2>1. multiple \in Nat
    BY ItemActivity
  <2> HIDE DEF multiple
  <2>2. QED
    BY <2>1 DEF StalenessSeverity
<1>5. \A j \in ranks : j = 1
  <2>1. ranks \in SUBSET (1..4) /\ ranks # {}
    BY <1>2, <1>3, <1>4
  <2> HIDE DEF ranks
  <2>2. QED
    BY <1>1, <2>1, GoodIsWorst
<1>6. QED
  BY <1>3, <1>4, <1>5

\* A session that is no mark on its item is within its window, or has ended.
LEMMA GoodIsHeard ==
    ASSUME IInv, NEW t, NEW k \in On(t), OfSession(StateOnItem(t, k)) = "good",
           sessions[k].ended = None
    PROVE  ~Unheard(k)
<1>1. k \in Keys /\ Begun(k) /\ sessions[k].item = t
  BY DEF On
<1>2. StateOnItem(t, k) \notin {"needs-you", "silent"}
  BY DEF OfSession
<1>3. State(k) \notin {"needs-you", "silent"}
  BY <1>2 DEF StateOnItem
<1>4. ~(now - sessions[k].heartbeat > sessions[k].interval * Multiplier)
  BY <1>3 DEF State
<1>5. now - sessions[k].heartbeat <= sessions[k].interval * Multiplier
  <2>1. sessions[k] \in Row /\ now \in Times /\ sessions[k].heartbeat \in Times
    BY <1>1, BegunFacts
  <2>2. now - sessions[k].heartbeat \in Int
    BY <2>1 DEF Times
  <2>3. sessions[k].interval \in Nat
    BY <2>1 DEF Row
  <2> DEFINE window == sessions[k].interval * Multiplier
             silence == now - sessions[k].heartbeat
  <2>4. window \in Int /\ silence \in Int /\ ~(silence > window)
    BY <1>4, <2>2, <2>3
  <2> HIDE DEF window, silence
  <2>5. silence <= window
    BY <2>4
  <2>6. QED
    BY <2>5 DEF window, silence
<1>6. QED
  BY <1>1, <1>5, LiveIsHeard DEF Live

\* What is known of the work on an item is at least as young as what it shows.
LEMMA WorkIsYounger ==
    ASSUME IInv, NEW t, NEW row \in TicketRow, WorkItemActivity(t, row) # None
    PROVE  LET done == LatestOf({row.changed} \cup {worked[k] : k \in On(t)})
           IN  done \in Times /\ WorkItemActivity(t, row) <= done
<1> DEFINE shown == {row.changed} \cup {sessions[k].activity : k \in On(t)}
           times == {row.changed} \cup {worked[k] : k \in On(t)}
           at == WorkItemActivity(t, row)
           done == LatestOf(times)
<1>1. at \in shown \ {None} /\ at \in Times
  <2>1. shown \in SUBSET (Times \cup {None}) /\ at = LatestOf(shown)
    BY ItemTimes DEF WorkItemActivity
  <2> HIDE DEF shown, at
  <2>2. QED
    BY <2>1, LatestOfNothing, LatestIsLast DEF at
<1>2. PICK another \in times : another # None /\ at <= another
  <2>1. CASE at = row.changed
    BY <1>1, <2>1 DEF Times
  <2>2. ASSUME NEW k \in On(t), at = sessions[k].activity
        PROVE  worked[k] # None /\ at <= worked[k]
    BY <1>1, <2>2, BegunFacts DEF On
  <2>3. QED
    BY <1>1, <2>1, <2>2
<1>3. times \in SUBSET (Times \cup {None})
  BY ItemTimes
<1> HIDE DEF times, at
<1>4. done \in times \ {None} /\ another <= done
  BY <1>2, <1>3, LatestIsLast
<1>5. done \in Times /\ another \in Times
  BY <1>2, <1>3, <1>4
<1>6. at <= done
  <2> HIDE DEF done
  <2>1. QED
    BY <1>1, <1>2, <1>4, <1>5 DEF Times
<1>7. QED
  BY <1>5, <1>6 DEF times, at

\* A row without a mark has no silent session on it, and no ticket that nobody has worked
\* on for a threshold: for any number of sessions and any times they name.
THEOREM GoodTheorem == SessionsSpec => []GoodMeansWell
<1>1. IInv => GoodMeansWell
  <2> SUFFICES ASSUME IInv, NEW t, NEW row \in TicketRow, SeverityOf(t, row) = "good"
               PROVE  LET done == LatestOf({row.changed} \cup {worked[k] : k \in On(t)})
                      IN  /\ \A k \in On(t) : sessions[k].ended = None => ~Unheard(k)
                          /\ Threshold > 0 /\ WorkItemActivity(t, row) # None
                             => done # None /\ HoursSince(done) < Threshold
    BY DEF GoodMeansWell
  <2> DEFINE done == LatestOf({row.changed} \cup {worked[k] : k \in On(t)})
             at == WorkItemActivity(t, row)
  <2>1. \A k \in On(t) : sessions[k].ended = None => ~Unheard(k)
    BY GoodSays, GoodIsHeard
  <2>2. ASSUME Threshold > 0, at # None
        PROVE  done # None /\ HoursSince(done) < Threshold
    <3>1. done \in Times /\ at \in Times /\ at <= done
      BY <2>2, WorkIsYounger, ItemActivity
    <3>2. ThresholdMultiple(at) = 0
      BY GoodSays
    <3> HIDE DEF done, at
    <3>3. HoursSince(at) \in Nat /\ HoursSince(done) \in Nat /\ HoursSince(done) <= HoursSince(at)
      BY <3>1 DEF HoursSince, Times, IInv, SessionsTypeOK
    <3>4. HoursSince(at) \div Threshold = 0
      BY <2>2, <3>2, BoardAssumption DEF ThresholdMultiple
    <3>5. HoursSince(at) < Threshold
      BY <2>2, <3>3, <3>4, NoMultiple, BoardAssumption
    <3>6. QED
      BY <3>1, <3>3, <3>5, BoardAssumption DEF Times
  <2>3. QED
    BY <2>1, <2>2
<1>2. QED
  BY <1>1, IInvHolds, PTL

-----------------------------------------------------------------------------
HIDE SessionsAssumption
USE JiraAssumption

\* The entry of the best rank that comes last, where there is one.
LEMMA RankIs ==
    /\ SprintRank("active") = 0 /\ SprintRank("closed") = 3
    /\ \A state : SprintRank(state) \in 0..3
    /\ \A state : (SprintRank(state) = 0 => state = "active") /\ (SprintRank(state) = 3 => state = "closed")
  BY DEF SprintRank

LEMMA CurrentSprintIs ==
    ASSUME NEW value, value \in Seq(Range(value)), Entries(value) # {}
    PROVE  \E i \in Winning(value) :
             /\ \A j \in Winning(value) : j <= i
             /\ CurrentSprint(value) = value[i].name
<1>1. Entries(value) \in SUBSET (1..Len(value)) /\ Len(value) \in Nat
  BY DEF Entries
<1> DEFINE ranks == {SprintRank(value[i].state) : i \in Entries(value)}
<1>2. PICK least \in ranks : \A r \in ranks : least <= r
  <2>1. ranks \in SUBSET Nat /\ ranks # {}
    BY RankIs
  <2> HIDE DEF ranks
  <2>2. QED
    BY <2>1, HasLeast
<1>3. PICK i \in Entries(value) : least = SprintRank(value[i].state)
  BY <1>2
<1>4. i \in Winning(value)
  BY <1>2, <1>3 DEF Winning
<1>5. Winning(value) \in SUBSET (1..Len(value)) /\ Winning(value) \in SUBSET Nat /\ IsFiniteSet(Winning(value))
  <2>1. Winning(value) \in SUBSET (1..Len(value)) /\ Winning(value) \in SUBSET Nat
    BY <1>1 DEF Winning
  <2>2. IsFiniteSet(1..Len(value))
    <3>1. PICK n \in Nat : n = Len(value)
      BY <1>1
    <3>2. 1 \in Int /\ n \in Int
      BY <3>1
    <3>3. IsFiniteSet(1..n)
      BY <3>2, FS_Interval, Zenon
    <3>4. QED
      BY <3>1, <3>3
  <2>3. QED
    BY <2>1, <2>2, FS_Subset
<1>6. \E n \in Winning(value) : \A j \in Winning(value) : j <= n
  BY <1>4, <1>5, HasGreatest
<1>7. QED
  BY <1>6 DEF CurrentSprint

\* A ticket shows the sprint that runs, and where all are over the last.
SprintIsTold(value, shown) ==
    LET named == {n \in DOMAIN value : value[n] # Nil}
    IN  /\ (\E n \in named : value[n].state = "active")
           => \E n \in named : value[n].state = "active" /\ value[n].name = shown
        /\ (\A n \in named : value[n].state = "closed")
           => \A n \in named : (\A m \in named : m <= n) => shown = value[n].name

LEMMA SprintTold ==
    ASSUME NEW value, value \in Seq(Range(value))
    PROVE  SprintIsTold(value, CurrentSprint(value))
<1>1. Entries(value) = {n \in DOMAIN value : value[n] # Nil}
  BY DEF Entries
<1>2. CASE Entries(value) = {}
  BY <1>1, <1>2 DEF SprintIsTold
<1>3. CASE Entries(value) # {}
  <2>1. PICK i \in Winning(value) : /\ \A j \in Winning(value) : j <= i
                                    /\ CurrentSprint(value) = value[i].name
    BY <1>3, CurrentSprintIs
  <2>2. i \in Entries(value) /\ Entries(value) \subseteq Nat
    BY DEF Winning, Entries
  <2>3. ASSUME NEW n \in Entries(value), value[n].state = "active"
        PROVE  value[i].state = "active"
    <3>1. SprintRank(value[i].state) <= 0
      BY <2>3, RankIs DEF Winning
    <3>2. QED
      BY <3>1, RankIs
  <2>4. ASSUME \A n \in Entries(value) : value[n].state = "closed",
               NEW n \in Entries(value), \A m \in Entries(value) : m <= n
        PROVE  i = n
    <3>1. n \in Winning(value)
      BY <2>4, RankIs DEF Winning
    <3>2. QED
      BY <2>1, <2>2, <2>4, <3>1
  <2>5. QED
    BY <1>1, <2>1, <2>2, <2>3, <2>4 DEF SprintIsTold
<1>4. QED
  BY <1>2, <1>3

-----------------------------------------------------------------------------
\* One pull request is ahead of another or behind it.
LEMMA PullRankIs ==
    /\ \A state : PullRank(state) \in Nat
    /\ \A state : PullRank(state) = 0 <=> state = "open"
  BY DEF PullRank

LEMMA AheadIsAnOrder ==
    ASSUME NEW found \in Seq(Pulls), NEW i \in DOMAIN found, NEW j \in DOMAIN found
    PROVE  /\ ~Ahead(found, i, i)
           /\ i # j => (Ahead(found, i, j) \/ Ahead(found, j, i))
           /\ Ahead(found, i, j) => ~Ahead(found, j, i)
           /\ \A k \in DOMAIN found : Ahead(found, i, j) /\ Ahead(found, j, k) => Ahead(found, i, k)
<1>1. \A k \in DOMAIN found : /\ k \in Nat /\ found[k].updated \in Nat
                              /\ PullRank(found[k].state) \in Nat
  BY PullRankIs
<1>2. /\ ~Ahead(found, i, i)
      /\ i # j => (Ahead(found, i, j) \/ Ahead(found, j, i))
      /\ Ahead(found, i, j) => ~Ahead(found, j, i)
  BY <1>1 DEF Ahead, Before
<1>3. ASSUME NEW k \in DOMAIN found, Ahead(found, i, j), Ahead(found, j, k)
      PROVE  Ahead(found, i, k)
  <2> DEFINE a == PullRank(found[i].state)
             b == PullRank(found[j].state)
             c == PullRank(found[k].state)
  <2>1. /\ i \in Nat /\ j \in Nat /\ k \in Nat
        /\ found[i].updated \in Nat /\ found[j].updated \in Nat /\ found[k].updated \in Nat
        /\ a \in Nat /\ b \in Nat /\ c \in Nat
    BY <1>1
  <2>2. /\ a < b \/ (a = b /\ found[i].updated > found[j].updated)
           \/ (a = b /\ found[i].updated = found[j].updated /\ i < j)
        /\ b < c \/ (b = c /\ found[j].updated > found[k].updated)
           \/ (b = c /\ found[j].updated = found[k].updated /\ j < k)
    BY <1>3, <2>1 DEF Ahead, Before
  <2>3. a < c \/ (a = c /\ found[i].updated > found[k].updated)
        \/ (a = c /\ found[i].updated = found[k].updated /\ i < k)
    <3> HIDE DEF a, b, c
    <3>1. QED
      BY <2>1, <2>2
  <2>4. QED
    BY <2>1, <2>3 DEF Ahead, Before
<1>4. QED
  BY <1>2, <1>3

\* The place of one of some: how many of them are ahead of it.
PlaceAmong(found, some, j) == Cardinality({i \in some : Ahead(found, i, j)})

LEMMA PlaceIs ==
    ASSUME NEW found \in Seq(Pulls), NEW some \in SUBSET DOMAIN found
    PROVE  /\ IsFiniteSet(some)
           /\ \A j \in some : /\ PlaceAmong(found, some, j) \in Nat
                              /\ PlaceAmong(found, some, j) + 1 \in 1..Cardinality(some)
           /\ \A i, j \in some : Ahead(found, i, j) => PlaceAmong(found, some, i) < PlaceAmong(found, some, j)
<1> DEFINE Those(j) == {i \in some : Ahead(found, i, j)}
<1>1. IsFiniteSet(some) /\ Cardinality(some) \in Nat
  <2>1. IsFiniteSet(DOMAIN found)
    <3>1. DOMAIN found = 1..Len(found) /\ Len(found) \in Nat
      OBVIOUS
    <3>2. QED
      BY <3>1, FS_Interval
  <2>2. QED
    BY <2>1, FS_Subset, FS_CardinalityType
<1>2. ASSUME NEW j \in some
      PROVE  /\ IsFiniteSet(Those(j)) /\ Cardinality(Those(j)) \in Nat
             /\ Cardinality(Those(j)) + 1 \in 1..Cardinality(some)
  <2>1. Those(j) \in SUBSET (some \ {j})
    BY AheadIsAnOrder
  <2>2. IsFiniteSet(some \ {j}) /\ Cardinality(some \ {j}) = Cardinality(some) - 1
    BY <1>1, FS_RemoveElement
  <2> HIDE DEF Those
  <2>3. IsFiniteSet(Those(j)) /\ Cardinality(Those(j)) <= Cardinality(some) - 1
    BY <2>1, <2>2, FS_Subset
  <2>4. QED
    BY <1>1, <2>3, FS_CardinalityType
<1>3. ASSUME NEW i \in some, NEW j \in some, Ahead(found, i, j)
      PROVE  Cardinality(Those(i)) < Cardinality(Those(j))
  <2>1. i \in Those(j) /\ Those(i) \in SUBSET (Those(j) \ {i})
    BY <1>3, AheadIsAnOrder
  <2> HIDE DEF Those
  <2>2. IsFiniteSet(Those(j) \ {i}) /\ Cardinality(Those(j) \ {i}) = Cardinality(Those(j)) - 1
    BY <1>2, <2>1, FS_RemoveElement
  <2>3. Cardinality(Those(i)) <= Cardinality(Those(j)) - 1
    BY <2>1, <2>2, FS_Subset
  <2>4. QED
    BY <1>2, <2>3
<1>4. QED
  BY <1>1, <1>2, <1>3 DEF PlaceAmong

\* Every number below theirs is the place of one of them.
LEMMA PlacesAreTaken ==
    ASSUME NEW found \in Seq(Pulls), NEW some \in SUBSET DOMAIN found, NEW n \in 1..Cardinality(some)
    PROVE  \E j \in some : PlaceAmong(found, some, j) = n - 1
<1> DEFINE N == Cardinality(some)
           place == [j \in some |-> PlaceAmong(found, some, j) + 1]
<1>1. IsFiniteSet(some) /\ N \in Nat
  BY PlaceIs, FS_CardinalityType
<1>2. place \in Injection(some, 1..N)
  <2>1. place \in [some -> 1..N]
    BY <1>1, PlaceIs
  <2>2. \A a, b \in some : place[a] = place[b] => a = b
    BY PlaceIs, AheadIsAnOrder
  <2> HIDE DEF place
  <2>3. QED
    BY <2>1, <2>2 DEF Injection, IsInjective
<1>3. place \in Surjection(some, 1..N)
  <2>1. IsFiniteSet(1..N) /\ Cardinality(1..N) = N
    BY <1>1, FS_Interval
  <2> HIDE DEF place
  <2>2. QED
    BY <1>1, <1>2, <2>1, FS_Injection
<1>4. \E j \in some : place[j] = n
  <2> HIDE DEF place
  <2>1. QED
    BY <1>3 DEF Surjection
<1>5. PICK j \in some : PlaceAmong(found, some, j) + 1 = n
  BY <1>4
<1>6. QED
  BY <1>1, <1>5, PlaceIs

\* One of those that are not none is ahead of the others.
LEMMA HasFirst ==
    ASSUME NEW found \in Seq(Pulls), NEW some \in SUBSET DOMAIN found, some # {}
    PROVE  \E j \in some : \A i \in some : ~Ahead(found, i, j)
<1> DEFINE places == {PlaceAmong(found, some, j) : j \in some}
<1>1. PICK least \in places : \A n \in places : least <= n
  <2>1. places \in SUBSET Nat /\ places # {}
    BY PlaceIs
  <2> HIDE DEF places
  <2>2. QED
    BY <2>1, HasLeast
<1>2. PICK j \in some : least = PlaceAmong(found, some, j)
  BY <1>1
<1>3. ASSUME NEW i \in some, Ahead(found, i, j)
      PROVE  FALSE
  <2>1. PlaceAmong(found, some, i) \in Nat /\ PlaceAmong(found, some, j) \in Nat
        /\ PlaceAmong(found, some, i) < PlaceAmong(found, some, j)
    BY <1>3, PlaceIs
  <2>2. PlaceAmong(found, some, i) \in places
    OBVIOUS
  <2>3. PlaceAmong(found, some, j) <= PlaceAmong(found, some, i)
    <3> HIDE DEF places
    <3>1. QED
      BY <1>1, <1>2, <2>2
  <2>4. QED
    BY <2>1, <2>3
<1>4. QED
  BY <1>3

\* orderPullRequests: all that have a URL, each URL once, in order.
InOrder(links) ==
    \A n, m \in DOMAIN links : n < m =>
        /\ links[n].url # links[m].url
        /\ links[m].state = "open" => links[n].state = "open"
        /\ links[n].state = links[m].state => links[n].updated >= links[m].updated

LEMMA OrderedOnce ==
    ASSUME NEW found \in Seq(Pulls)
    PROVE  /\ OrderPullRequests(found) \in Seq(Pulls)
           /\ {OrderPullRequests(found)[n].url : n \in DOMAIN OrderPullRequests(found)}
                = {pr.url : pr \in Range(found)} \ {Nil}
           /\ InOrder(OrderPullRequests(found))
<1> DEFINE kept == OfUrl(found)
           N == Cardinality(kept)
           At(n) == CHOOSE j \in kept : PlaceAmong(found, kept, j) = n - 1
           links == [n \in 1..N |-> found[At(n)]]
<1>1. /\ kept \in SUBSET DOMAIN found /\ N \in Nat
      /\ \A i, j \in kept : Ahead(found, i, j) => PlaceAmong(found, kept, i) < PlaceAmong(found, kept, j)
  <2>1. kept \in SUBSET DOMAIN found
    BY DEF OfUrl, Openable
  <2>2. QED
    BY <2>1, PlaceIs, FS_CardinalityType
<1>2. OrderPullRequests(found) = links
  BY DEF OrderPullRequests, PlaceAmong
<1> HIDE DEF kept, N
<1>3. ASSUME NEW n \in 1..N
      PROVE  At(n) \in kept /\ PlaceAmong(found, kept, At(n)) = n - 1
  BY <1>1, PlacesAreTaken DEF N
<1> HIDE DEF At
<1>4. links \in Seq(Pulls) /\ DOMAIN links = 1..N
  BY <1>1, <1>3
<1>5. ASSUME NEW j \in kept
      PROVE  \E n \in 1..N : At(n) = j
  <2>1. PICK before \in Nat : PlaceAmong(found, kept, j) = before /\ before + 1 \in 1..N
    BY <1>1, PlaceIs DEF N
  <2>2. At(before + 1) \in kept /\ PlaceAmong(found, kept, At(before + 1)) = before
    BY <1>1, <1>3, <2>1
  <2>3. ~Ahead(found, At(before + 1), j) /\ ~Ahead(found, j, At(before + 1))
    BY <1>1, <2>1, <2>2
  <2>4. At(before + 1) = j
    BY <1>1, <2>2, <2>3, AheadIsAnOrder
  <2>5. QED
    BY <2>1, <2>4
<1>6. ASSUME NEW i \in DOMAIN found, found[i].url # Nil
      PROVE  \E j \in kept : found[j].url = found[i].url
  <2> DEFINE same == {k \in Openable(found) : found[k].url = found[i].url}
  <2>1. i \in same /\ same \in SUBSET DOMAIN found
    BY <1>6 DEF Openable
  <2>2. PICK j \in same : \A k \in same : ~Ahead(found, k, j)
    <3> HIDE DEF same
    <3>1. QED
      BY <2>1, HasFirst
  <2>3. j \in kept
    BY <2>2 DEF kept, OfUrl
  <2>4. QED
    BY <2>2, <2>3
<1>7. {links[n].url : n \in DOMAIN links} = {pr.url : pr \in Range(found)} \ {Nil}
  <2>1. ASSUME NEW n \in 1..N
        PROVE  links[n].url \in {pr.url : pr \in Range(found)} \ {Nil}
    <3>1. links[n] = found[At(n)] /\ At(n) \in DOMAIN found /\ found[At(n)].url # Nil
      BY <1>1, <1>3 DEF kept, OfUrl, Openable
    <3>2. QED
      BY <3>1 DEF Range
  <2>2. ASSUME NEW url \in {pr.url : pr \in Range(found)} \ {Nil}
        PROVE  \E n \in 1..N : links[n].url = url
    <3>1. PICK i \in DOMAIN found : found[i].url = url
      BY DEF Range
    <3>2. PICK j \in kept : found[j].url = url
      BY <1>6, <3>1
    <3>3. PICK n \in 1..N : At(n) = j
      BY <1>5
    <3>4. QED
      BY <3>2, <3>3
  <2>3. DOMAIN links = 1..N
    BY <1>4
  <2> HIDE DEF links
  <2>4. PICK urls, held : /\ urls = {links[n].url : n \in DOMAIN links}
                          /\ held = {pr.url : pr \in Range(found)} \ {Nil}
    OBVIOUS
  <2>5. urls \subseteq held
    BY <2>1, <2>3, <2>4
  <2>6. held \subseteq urls
    BY <2>2, <2>3, <2>4
  <2>7. QED
    BY <2>4, <2>5, <2>6
<1>8. ASSUME NEW n \in 1..N, NEW m \in 1..N, n < m
      PROVE  /\ links[n].url # links[m].url
             /\ links[m].state = "open" => links[n].state = "open"
             /\ links[n].state = links[m].state => links[n].updated >= links[m].updated
  <2>1. /\ At(n) \in kept /\ At(m) \in kept /\ At(n) \in DOMAIN found /\ At(m) \in DOMAIN found
        /\ PlaceAmong(found, kept, At(n)) = n - 1 /\ PlaceAmong(found, kept, At(m)) = m - 1
    BY <1>1, <1>3
  <2>2. Ahead(found, At(n), At(m))
    <3>1. ~Ahead(found, At(m), At(n)) /\ At(n) # At(m)
      BY <1>1, <1>8, <2>1
    <3>2. QED
      BY <2>1, <3>1, AheadIsAnOrder
  <2>3. found[At(n)].url # found[At(m)].url
    BY <2>1, <2>2 DEF kept, OfUrl
  <2>4. PICK a \in Pulls, b \in Pulls : a = found[At(n)] /\ b = found[At(m)]
    BY <2>1
  <2>5. /\ PullRank(a.state) \in Nat /\ PullRank(b.state) \in Nat
        /\ Before(a, b) \/ ~Before(b, a)
    BY <2>2, <2>4, PullRankIs DEF Ahead
  <2>6. PullRank(a.state) <= PullRank(b.state)
        /\ (PullRank(a.state) = PullRank(b.state) => a.updated >= b.updated)
    BY <2>5 DEF Before
  <2>7. /\ b.state = "open" => a.state = "open"
        /\ a.state = b.state => a.updated >= b.updated
    BY <2>5, <2>6, PullRankIs
  <2>8. QED
    BY <2>3, <2>4, <2>7
<1>9. QED
  <2>1. InOrder(links)
    <3> HIDE DEF links
    <3>1. QED
      BY <1>4, <1>8 DEF InOrder
  <2> HIDE DEF links
  <2>2. QED
    BY <1>2, <1>4, <1>7, <2>1

-----------------------------------------------------------------------------
\* What the lookup finds on a site, and the types its issues have.
IdsOf(s) == [points |-> StoryPointFieldId(s.fields), sprint |-> SprintFieldId(s.fields),
             development |-> DevelopmentFieldId(s.fields)]
Types == UNION {DOMAIN issue.pulls : issue \in Issues}
Summary == [at : {"summary"}, i : Nat]
Detail == [at : {"detail"}, i : Nat, types : Seq(Types), found : Seq(Pulls)]

\* The links of an issue are its own and all of them, unless an answer left some out, or
\* a request for them failed.
Lists(issue, links, some) ==
    /\ links \in Seq(Pulls) /\ InOrder(links)
    /\ LET urls == {links[n].url : n \in DOMAIN links}
           held == {pr.url : pr \in Held(issue)} \ {Nil}
       IN  urls \subseteq held /\ (issue.key \notin some => urls = held)
Right(issue, links, failed, some) ==
    IF links = Nil THEN issue.key \in failed ELSE Lists(issue, links, some)

\* A worker has found what an issue has of the types it has asked for, unless an answer
\* left some out.
Detailed(issue, worker, some) ==
    /\ worker.types # << >> /\ Range(worker.types) \subseteq DOMAIN issue.pulls
    /\ Range(worker.types) \subseteq Range(issue.types)
    /\ Range(worker.found) \subseteq Held(issue)
    /\ issue.key \notin some => \A t \in Range(issue.types) :
        t \in Range(worker.types) \/ Range(issue.pulls[t]) \subseteq Range(worker.found)

\* A time is one at which a person did something, and the last where that can be told.
Dated(issue, at, datable) ==
    /\ at # Nil => \E c \in PersonsChanges(issue) : c.at = at
    /\ datable /\ PersonsChanges(issue) # {}
       => \E c \in PersonsChanges(issue) :
            c.at = at /\ \A d \in PersonsChanges(issue) : d.instant <= c.instant

\* A ticket is of the issue at its place, and says what that says.
Told(i) ==
    LET t == tickets[i]
        issue == site.issues[i]
    IN  /\ t = [key |-> issue.key, category |-> t.category, points |-> t.points,
                sprint |-> CurrentSprint(SprintField(issue, custom)),
                versions |-> t.versions, pullRequests |-> t.pullRequests,
                active |-> t.active, moved |-> t.moved]
        /\ Right(issue, t.pullRequests, broken, partial)

SyncInv ==
    /\ site \in Sites /\ custom \in {NoIds, IdsOf(site)}
    /\ phase \in {"fields", "search", "pulls", "logs", "done", "failed"}
    /\ error \in {Nil} \cup [by : {"search", "logs"}, status : Nat, kind : Failures]
    /\ (phase = "failed") = (error # Nil /\ error.by = "search")
    /\ phase = "failed" => error.status # 400

TicketsInv ==
    /\ tickets \in Seq(Range(tickets)) /\ Len(tickets) <= Len(site.issues)
    /\ phase = "fields" => tickets = << >>
    /\ \A i \in DOMAIN tickets : Told(i)

PageInv ==
    /\ page \in Seq(Issues) /\ DOMAIN results = DOMAIN page /\ next \in 1..(Len(page) + 1)
    /\ phase # "pulls" => page = << >> /\ next = 1
    /\ Len(tickets) + Len(page) <= Len(site.issues)
    /\ \A i \in DOMAIN page :
        /\ page[i] = site.issues[Len(tickets) + i]
        /\ \/ results[i] = Unset
           \/ results[i] = Known(results[i].links) /\ Right(page[i], results[i].links, broken, partial)
        /\ i < next /\ results[i] = Unset
           => \E w \in Workers : workers[w].at # "idle" /\ workers[w].i = i

WorkersInv ==
    /\ workers \in [Workers -> {Idle} \cup Summary \cup Detail]
    /\ \A w \in Workers : workers[w].at # "idle" =>
        /\ phase = "pulls" /\ workers[w].i \in DOMAIN page /\ workers[w].i < next
        /\ workers[w].at = "detail" => Detailed(page[workers[w].i], workers[w], partial)

LogsInv ==
    /\ asked \in Nat
    /\ phase \notin {"logs", "done"} => asked = 0 /\ logs = {}
    /\ phase = "logs" =>
        /\ Len(tickets) = Len(site.issues)
        /\ \A c \in logs : \E i \in DOMAIN site.issues : \E e \in site.issues[i].changes :
            c = [key |-> LogName(site.issues[i]), entry |-> e]
        /\ \A i \in DOMAIN site.issues : i <= asked =>
            \A e \in site.issues[i].changes :
                \/ [key |-> LogName(site.issues[i]), entry |-> e] \in logs
                \/ site.issues[i].key \in shortened
    /\ phase = "done" /\ error = Nil
       => \A i \in DOMAIN tickets :
            Dated(site.issues[i], tickets[i].active, Datable(site.issues[i]))

JiraInv == SyncInv /\ TicketsInv /\ PageInv /\ WorkersInv /\ LogsInv

\* What is assumed of an issue.
LEMMA IssueIs ==
    ASSUME NEW issue \in Issues
    PROVE  /\ issue.types \in Seq(DOMAIN issue.pulls) /\ issue.types \in Seq(Types)
           /\ Range(issue.types) \subseteq DOMAIN issue.pulls
           /\ \A t \in Range(issue.types) : issue.pulls[t] \in Seq(Pulls)
           /\ \A t \in Range(issue.types) : Range(issue.pulls[t]) \subseteq Held(issue)
<1>1. issue.types \in Seq(DOMAIN issue.pulls) /\ DOMAIN issue.pulls \subseteq Types
  BY DEF Types
<1>2. issue.types \in Seq(Types)
  BY <1>1, SeqMonotonic
<1>3. Range(issue.types) \subseteq DOMAIN issue.pulls
  BY <1>1 DEF Range
<1>4. \A t \in Range(issue.types) : Range(issue.pulls[t]) \subseteq Held(issue)
  BY DEF Held
<1>5. QED
  BY <1>1, <1>2, <1>3, <1>4

LEMMA SiteIs ==
    ASSUME site \in Sites
    PROVE  /\ site.issues \in Seq(Issues) /\ Len(site.issues) \in Nat
           /\ DOMAIN site.issues = 1..Len(site.issues)
           /\ \A i \in DOMAIN site.issues : site.issues[i] \in Issues
           /\ \A i, j \in DOMAIN site.issues : site.issues[i].key = site.issues[j].key => i = j
           /\ \A i, j \in DOMAIN site.issues : site.issues[i].id # site.issues[j].key
<1>1. site.issues \in Seq(Issues)
  OBVIOUS
<1>2. /\ \A i, j \in DOMAIN site.issues : site.issues[i].key = site.issues[j].key => i = j
      /\ \A i, j \in DOMAIN site.issues : site.issues[i].id # site.issues[j].key
  OBVIOUS
<1>3. QED
  BY <1>1, <1>2

\* An issue without types has no links.
LEMMA NoneHeld ==
    ASSUME NEW issue \in Issues, issue.types = << >>
    PROVE  (\A some : Lists(issue, << >>, some)) /\ << >> # Nil
<1>1. Held(issue) = {}
  BY DEF Held, Range
<1>2. {<< >>[n].url : n \in DOMAIN << >>} = {}
  OBVIOUS
<1>3. << >> \in Seq(Pulls) /\ InOrder(<< >>)
  BY DEF InOrder
<1>4. QED
  BY <1>1, <1>2, <1>3 DEF Lists

\* Of one whose answer left something out, none may have been read.
LEMMA NoneRead ==
    ASSUME NEW issue \in Issues, NEW some, issue.key \in some
    PROVE  Lists(issue, << >>, some) /\ << >> # Nil
<1>1. {<< >>[n].url : n \in DOMAIN << >>} = {}
  OBVIOUS
<1>2. << >> \in Seq(Pulls) /\ InOrder(<< >>)
  BY DEF InOrder
<1>3. QED
  BY <1>1, <1>2 DEF Lists

\* What is added to the failed and the partial takes nothing from what is right.
LEMMA RightStays ==
    ASSUME NEW issue, NEW links, NEW failed, NEW more, failed \subseteq more,
           NEW some, NEW yetmore, some \subseteq yetmore, Right(issue, links, failed, some)
    PROVE  Right(issue, links, more, yetmore)
  BY DEF Right, Lists

LEMMA DetailedStays ==
    ASSUME NEW issue, NEW worker, NEW some, NEW more, some \subseteq more,
           Detailed(issue, worker, some)
    PROVE  Detailed(issue, worker, more)
  BY DEF Detailed

\* What a ticket says that has the issue at its place.
LEMMA ToldIs ==
    ASSUME NEW i, Told(i)
    PROVE  /\ tickets[i].key = site.issues[i].key
           /\ tickets[i].sprint = CurrentSprint(SprintField(site.issues[i], custom))
           /\ Right(site.issues[i], tickets[i].pullRequests, broken, partial)
<1>1. PICK t, issue, sprint :
        /\ t = tickets[i] /\ issue = site.issues[i]
        /\ sprint = CurrentSprint(SprintField(issue, custom))
  OBVIOUS
<1>2. /\ t = [key |-> issue.key, category |-> t.category, points |-> t.points, sprint |-> sprint,
              versions |-> t.versions, pullRequests |-> t.pullRequests,
              active |-> t.active, moved |-> t.moved]
      /\ Right(issue, t.pullRequests, broken, partial)
  BY <1>1 DEF Told
<1>3. t.key = issue.key /\ t.sprint = sprint
  BY <1>2
<1>4. QED
  BY <1>1, <1>2, <1>3

LEMMA TicketsStay ==
    ASSUME TicketsInv, UNCHANGED <<site, custom, tickets>>, broken \subseteq broken',
           partial \subseteq partial',
           phase' = "fields" => phase = "fields"
    PROVE  TicketsInv'
<1>1. ASSUME NEW i \in DOMAIN tickets
      PROVE  Told(i)'
  <2>1. Told(i)
    BY DEF TicketsInv
  <2>2. Right(site.issues[i], tickets[i].pullRequests, broken', partial')
    BY <2>1, RightStays DEF Told
  <2>3. QED
    BY <2>1, <2>2 DEF Told
<1>2. QED
  BY <1>1 DEF TicketsInv

-----------------------------------------------------------------------------
\* The lookup; nothing has been fetched yet.
LEMMA InitJira == JiraInit => JiraInv
<1> SUFFICES ASSUME JiraInit PROVE JiraInv
  OBVIOUS
<1>1. site \in Sites /\ phase = "fields" /\ custom = NoIds /\ tickets = << >> /\ page = << >>
      /\ next = 1 /\ results = << >> /\ logs = {} /\ asked = 0 /\ error = Nil
      /\ workers = [w \in Workers |-> Idle]
  BY DEF JiraInit
<1>2. SyncInv
  BY <1>1 DEF SyncInv
<1>3. TicketsInv
  <2>1. << >> \in Seq(Range(<< >>)) /\ Len(<< >>) = 0 /\ DOMAIN << >> = {}
    OBVIOUS
  <2>2. QED
    BY <1>1, <2>1, SiteIs DEF TicketsInv
<1>4. PageInv
  <2>1. << >> \in Seq(Issues) /\ Len(<< >>) = 0 /\ DOMAIN << >> = {} /\ 1 \in 1..1
    OBVIOUS
  <2>2. QED
    BY <1>1, <2>1, SiteIs DEF PageInv
<1>5. WorkersInv
  BY <1>1 DEF WorkersInv, Idle
<1>6. LogsInv
  BY <1>1 DEF LogsInv
<1>7. QED
  BY <1>2, <1>3, <1>4, <1>5, <1>6 DEF JiraInv

LEMMA LookupKeeps == ASSUME JiraInv, FieldsAnswered \/ FieldsFailed PROVE JiraInv'
<1>1. /\ phase = "fields" /\ phase' = "search" /\ custom' \in {NoIds, IdsOf(site)}
      /\ UNCHANGED <<site, tickets, page, next, workers, results, broken, partial, logs, asked, shortened, error>>
  BY DEF FieldsAnswered, FieldsFailed, IdsOf, WithoutIds, pagesVars, logsVars
<1>2. SyncInv'
  <2>1. /\ site \in Sites
        /\ error \in {Nil} \cup [by : {"search", "logs"}, status : Nat, kind : Failures]
        /\ (phase = "failed") = (error # Nil /\ error.by = "search")
    BY DEF JiraInv, SyncInv
  <2>2. custom' \in {NoIds, IdsOf(site')}
    BY <1>1
  <2>3. QED
    BY <1>1, <2>1, <2>2 DEF SyncInv
<1>3. TicketsInv'
  <2>1. tickets = << >> /\ DOMAIN tickets = {}
    BY <1>1 DEF JiraInv, TicketsInv
  <2>2. QED
    BY <1>1, <2>1 DEF JiraInv, TicketsInv
<1>4. PageInv'
  BY <1>1 DEF JiraInv, PageInv
<1>5. WorkersInv'
  BY <1>1 DEF JiraInv, WorkersInv
<1>6. LogsInv'
  BY <1>1 DEF JiraInv, LogsInv
<1>7. QED
  BY <1>2, <1>3, <1>4, <1>5, <1>6 DEF JiraInv

\* The ids are the site's own, so that no search is refused for one.
LEMMA FirstIdIs ==
    ASSUME NEW fields, fields \in Seq(Range(fields)), NEW chosen \in SUBSET DOMAIN fields
    PROVE  FirstId(fields, chosen) \in {Nil} \cup {fields[i].id : i \in DOMAIN fields}
<1>1. CASE chosen = {}
  BY <1>1 DEF FirstId
<1>2. CASE chosen # {}
  <2>1. chosen \in SUBSET Nat
    OBVIOUS
  <2>2. \E i \in chosen : \A j \in chosen : i <= j
    BY <1>2, <2>1, HasLeast
  <2>3. QED
    BY <1>2, <2>2 DEF FirstId
<1>3. QED
  BY <1>1, <1>2

LEMMA SearchIsAccepted ==
    ASSUME SyncInv
    PROVE  Accepted
<1>1. site \in Sites /\ site.fields \in Seq(Range(site.fields))
  BY DEF SyncInv
<1> DEFINE ids == {site.fields[i].id : i \in DOMAIN site.fields}
<1>2. StoryPointFieldId(site.fields) \in {Nil} \cup ids
  BY <1>1, FirstIdIs DEF StoryPointFieldId
<1>3. SprintFieldId(site.fields) \in {Nil} \cup ids
  BY <1>1, FirstIdIs DEF SprintFieldId
<1>4. DevelopmentFieldId(site.fields) \in {Nil} \cup ids
  BY <1>1, FirstIdIs DEF DevelopmentFieldId
<1> HIDE DEF ids
<1>5. \A c \in DOMAIN custom : custom[c] \in {Nil} \cup ids
  BY <1>2, <1>3, <1>4 DEF SyncInv, IdsOf, NoIds
<1>6. AskedFor \subseteq ids
  BY <1>5 DEF AskedFor
<1>7. QED
  BY <1>6 DEF Accepted, ids

LEMMA SearchFailedKeeps ==
    ASSUME JiraInv, NEW answer \in Answers, SearchFailed(answer)
    PROVE  JiraInv'
<1>1. /\ phase = "search" /\ phase' = "failed" /\ answer.status # 400
      /\ error' = [by |-> "search", status |-> answer.status, kind |-> Thrown(answer)]
      /\ UNCHANGED <<site, custom, tickets, page, next, workers, results, broken, partial, logs, asked, shortened>>
  BY SearchIsAccepted DEF JiraInv, SearchFailed, pagesVars, logsVars
<1>2. error' \in [by : {"search", "logs"}, status : Nat, kind : Failures] /\ error' # Nil
      /\ error'.by = "search" /\ error'.status = answer.status
  <2>1. Thrown(answer) \in Failures /\ answer.status \in Nat
    BY DEF Thrown, Failures
  <2>2. QED
    BY <1>1, <2>1
<1>3. SyncInv'
  BY <1>1, <1>2 DEF JiraInv, SyncInv
<1>4. TicketsInv'
  BY <1>1, TicketsStay DEF JiraInv
<1>5. PageInv'
  BY <1>1 DEF JiraInv, PageInv
<1>6. WorkersInv'
  BY <1>1 DEF JiraInv, WorkersInv
<1>7. LogsInv'
  BY <1>1 DEF JiraInv, LogsInv
<1>8. QED
  BY <1>3, <1>4, <1>5, <1>6, <1>7 DEF JiraInv

LEMMA LogsFailedKeeps ==
    ASSUME JiraInv, NEW answer \in Answers, LogsFailed(answer)
    PROVE  JiraInv'
<1>1. /\ phase = "logs" /\ phase' = "done"
      /\ error' = [by |-> "logs", status |-> answer.status, kind |-> Thrown(answer)]
      /\ UNCHANGED <<site, custom, tickets, page, next, workers, results, broken, partial, logs, asked, shortened>>
  BY DEF LogsFailed, pagesVars, logsVars
<1>2. error' \in [by : {"search", "logs"}, status : Nat, kind : Failures] /\ error' # Nil
      /\ error'.by = "logs"
  <2>1. Thrown(answer) \in Failures /\ answer.status \in Nat
    BY DEF Thrown, Failures
  <2>2. QED
    BY <1>1, <2>1
<1>3. SyncInv'
  BY <1>1, <1>2 DEF JiraInv, SyncInv
<1>4. TicketsInv'
  BY <1>1, TicketsStay DEF JiraInv
<1>5. PageInv'
  BY <1>1 DEF JiraInv, PageInv
<1>6. WorkersInv'
  BY <1>1 DEF JiraInv, WorkersInv
<1>7. LogsInv'
  BY <1>1, <1>2 DEF JiraInv, LogsInv
<1>8. QED
  BY <1>3, <1>4, <1>5, <1>6, <1>7 DEF JiraInv

\* The next page: the issues that follow.
LEMMA SearchKeeps == ASSUME JiraInv, SearchAnswered PROVE JiraInv'
<1> DEFINE from == Len(tickets)
           count == IF Len(Left) < PageSize THEN Len(Left) ELSE PageSize
<1>1. /\ phase = "search" /\ phase' = "pulls" /\ page' = SubSeq(Left, 1, count)
      /\ results' = [i \in DOMAIN page' |-> Unset] /\ next' = 1
      /\ UNCHANGED <<site, custom, tickets, workers, broken, partial, logs, asked, shortened, error>>
  BY DEF SearchAnswered, logsVars
<1>2. /\ site \in Sites /\ from \in Nat /\ from <= Len(site.issues)
  BY DEF JiraInv, SyncInv, TicketsInv
<1>3. /\ Left \in Seq(Issues) /\ Len(Left) = Len(site.issues) - from
      /\ \A i \in 1..Len(Left) : Left[i] = site.issues[from + i]
  <2>1. PICK m \in Int, n \in Int, issues \in Seq(Issues) :
          /\ m = from + 1 /\ n = Len(site.issues) /\ issues = site.issues
          /\ \A i \in m..n : issues[i] \in Issues
    BY <1>2, SiteIs
  <2>2. Left = SubSeq(issues, m, n)
    BY <2>1 DEF Left
  <2>3. /\ SubSeq(issues, m, n) \in Seq(Issues)
        /\ Len(SubSeq(issues, m, n)) = IF m <= n THEN n - m + 1 ELSE 0
        /\ \A i \in 1..(n - m + 1) : SubSeq(issues, m, n)[i] = issues[m + i - 1]
    BY <2>1, SubSeqProperties
  <2> HIDE DEF from
  <2>4. QED
    BY <1>2, <2>1, <2>2, <2>3, SiteIs
<1>4. count \in Nat /\ count <= Len(Left)
  BY <1>3
<1>5. /\ page' \in Seq(Issues) /\ Len(page') = count
      /\ \A i \in 1..count : page'[i] = site.issues[from + i]
  <2>1. PICK left \in Seq(Issues), n \in Int : left = Left /\ n = count /\ \A i \in 1..n : left[i] \in Issues
    <3>1. \A i \in 1..count : Left[i] \in Issues
      BY <1>3, <1>4
    <3>2. Left \in Seq(Issues) /\ count \in Int
      BY <1>3, <1>4
    <3> HIDE DEF count
    <3>3. QED
      BY <3>1, <3>2, Zenon
  <2>2. /\ SubSeq(left, 1, n) \in Seq(Issues)
        /\ Len(SubSeq(left, 1, n)) = IF 1 <= n THEN n - 1 + 1 ELSE 0
        /\ \A i \in 1..(n - 1 + 1) : SubSeq(left, 1, n)[i] = left[1 + i - 1]
    BY <2>1, SubSeqProperties
  <2>3. \A i \in 1..n : SubSeq(left, 1, n)[i] = left[i]
    BY <2>2
  <2>4. Len(SubSeq(left, 1, n)) = n
    BY <1>4, <2>1, <2>2
  <2> HIDE DEF count
  <2>5. QED
    BY <1>1, <1>3, <1>4, <2>1, <2>2, <2>3, <2>4
<1> HIDE DEF count
<1>6. SyncInv'
  BY <1>1 DEF JiraInv, SyncInv, IdsOf
<1>7. TicketsInv'
  BY <1>1, TicketsStay DEF JiraInv
<1>8. PageInv'
  <2>1. DOMAIN page' = 1..count /\ DOMAIN results' = DOMAIN page'
    BY <1>1, <1>4, <1>5
  <2>2. \A i \in DOMAIN page' : page'[i] = site'.issues[Len(tickets') + i] /\ results'[i] = Unset
    BY <1>1, <1>5, <2>1
  <2>3. next' \in 1..(Len(page') + 1) /\ Len(tickets') + Len(page') <= Len(site'.issues)
    BY <1>1, <1>2, <1>3, <1>4, <1>5, SiteIs
  <2>4. \A i \in DOMAIN page' : ~(i < next')
    BY <1>1, <2>1, <1>4
  <2>5. QED
    BY <1>1, <1>5, <2>1, <2>2, <2>3, <2>4 DEF PageInv
<1>9. WorkersInv'
  BY <1>1 DEF JiraInv, WorkersInv
<1>10. LogsInv'
  BY <1>1 DEF JiraInv, LogsInv
<1>11. QED
  BY <1>6, <1>7, <1>8, <1>9, <1>10 DEF JiraInv

-----------------------------------------------------------------------------
\* What a worker may be at, of the issue it is busy with.
LEMMA WorkerIs ==
    ASSUME JiraInv, NEW w \in Workers, workers[w].at # "idle"
    PROVE  /\ phase = "pulls" /\ workers[w].i \in DOMAIN page /\ workers[w].i < next
           /\ page[workers[w].i] \in Issues
           /\ workers[w] \in Summary \cup Detail
           /\ workers[w].at = "detail" => /\ workers[w] \in Detail
                                          /\ Detailed(page[workers[w].i], workers[w], partial)
<1>1. workers[w] \in {Idle} \cup Summary \cup Detail
  BY DEF JiraInv, WorkersInv
<1>2. workers[w] # Idle
  BY DEF Idle
<1>3. workers[w].at = "detail" => workers[w] \in Detail
  BY <1>1, <1>2 DEF Summary
<1>4. QED
  BY <1>1, <1>2, <1>3 DEF JiraInv, WorkersInv, PageInv

\* The types of one issue that the field or the summary has named are asked for.
LEMMA DetailedFirst ==
    ASSUME NEW issue \in Issues, issue.types # << >>, NEW n \in Nat
    PROVE  LET worker == [at |-> "detail", i |-> n, types |-> issue.types, found |-> << >>]
           IN  worker \in Detail /\ \A some : Detailed(issue, worker, some)
<1> DEFINE worker == [at |-> "detail", i |-> n, types |-> issue.types, found |-> << >>]
<1>1. << >> \in Seq(Pulls) /\ Range(<< >>) = {}
  BY DEF Range
<1>2. worker \in Detail
  BY <1>1, IssueIs DEF Detail
<1>3. worker.types = issue.types /\ worker.found = << >>
  OBVIOUS
<1> HIDE DEF worker
<1>4. \A some : Detailed(issue, worker, some)
  BY <1>1, <1>3, IssueIs DEF Detailed
<1>5. QED
  BY <1>2, <1>4 DEF worker

\* A worker takes the next issue, or goes on with its own.
LEMMA WorkerMoves ==
    ASSUME JiraInv, phase = "pulls", NEW w \in Workers, NEW worker \in Summary \cup Detail,
           worker.i \in DOMAIN page,
           worker.at = "detail" => Detailed(page[worker.i], worker, partial'),
           broken \subseteq broken', partial \subseteq partial',
           workers' = [workers EXCEPT ![w] = worker],
           \/ next' = next /\ workers[w].at # "idle" /\ worker.i = workers[w].i
           \/ next' = next + 1 /\ next <= Len(page) /\ workers[w].at = "idle" /\ worker.i = next,
           UNCHANGED <<site, phase, custom, tickets, page, results, logs, asked, shortened,
                       error>>
    PROVE  JiraInv'
<1>1. workers \in [Workers -> {Idle} \cup Summary \cup Detail]
  BY DEF JiraInv, WorkersInv
<1>2. /\ workers' \in [Workers -> {Idle} \cup Summary \cup Detail]
      /\ workers'[w] = worker /\ \A x \in Workers \ {w} : workers'[x] = workers[x]
  BY <1>1
<1>3. worker.at # "idle"
  BY DEF Summary, Detail
<1>4. /\ page \in Seq(Issues) /\ Len(page) \in Nat /\ DOMAIN page = 1..Len(page)
      /\ next \in 1..(Len(page) + 1) /\ next' \in 1..(Len(page) + 1) /\ next <= next'
      /\ worker.i < next'
  <2>1. page \in Seq(Issues) /\ Len(page) \in Nat /\ DOMAIN page = 1..Len(page)
        /\ next \in 1..(Len(page) + 1)
    BY DEF JiraInv, PageInv
  <2>2. workers[w].at # "idle" => workers[w].i < next
    BY DEF JiraInv, WorkersInv
  <2>3. QED
    BY <2>1, <2>2
<1>5. SyncInv'
  BY DEF JiraInv, SyncInv, IdsOf
<1>6. TicketsInv'
  BY TicketsStay DEF JiraInv
<1>7. PageInv'
  <2>1. ASSUME NEW i \in DOMAIN page, i < next', results[i] = Unset
        PROVE  \E x \in Workers : workers'[x].at # "idle" /\ workers'[x].i = i
    <3>1. CASE i < next
      <4>1. PICK x \in Workers : workers[x].at # "idle" /\ workers[x].i = i
        BY <2>1, <3>1 DEF JiraInv, PageInv
      <4>2. CASE x = w
        BY <1>2, <1>3, <4>1, <4>2
      <4>3. CASE x # w
        BY <1>2, <4>1, <4>3
      <4>4. QED
        BY <4>2, <4>3
    <3>2. CASE ~(i < next)
      <4>1. worker.i = i
        BY <1>4, <2>1, <3>2
      <4>2. QED
        BY <1>2, <1>3, <4>1
    <3>3. QED
      BY <3>1, <3>2
  <2>2. ASSUME NEW i \in DOMAIN page, results[i] # Unset
        PROVE  /\ results[i] = Known(results[i].links)
               /\ Right(page[i], results[i].links, broken', partial')
    <3>1. results[i] = Known(results[i].links) /\ Right(page[i], results[i].links, broken, partial)
      BY <2>2 DEF JiraInv, PageInv
    <3>2. QED
      BY <3>1, RightStays
  <2>3. QED
    BY <1>4, <2>1, <2>2 DEF JiraInv, PageInv
<1>8. WorkersInv'
  <2>1. ASSUME NEW x \in Workers, workers'[x].at # "idle"
        PROVE  /\ workers'[x].i \in DOMAIN page /\ workers'[x].i < next'
               /\ workers'[x].at = "detail" => Detailed(page[workers'[x].i], workers'[x], partial')
    <3>1. CASE x = w
      BY <1>2, <1>4, <3>1
    <3>2. CASE x # w
      <4>1. /\ workers'[x] = workers[x] /\ workers[x].i \in DOMAIN page /\ workers[x].i < next
            /\ workers[x].at = "detail" => Detailed(page[workers[x].i], workers[x], partial)
        BY <1>2, <2>1, <3>2 DEF JiraInv, WorkersInv
      <4>2. workers[x].i < next'
        BY <1>4, <4>1
      <4>3. QED
        BY <4>1, <4>2, DetailedStays
    <3>3. QED
      BY <3>1, <3>2
  <2>2. QED
    BY <1>2, <2>1 DEF WorkersInv
<1>9. LogsInv'
  BY DEF JiraInv, LogsInv
<1>10. QED
  BY <1>5, <1>6, <1>7, <1>8, <1>9 DEF JiraInv

\* An issue is done with: its links are right, or a request for them has failed.
LEMMA LinksSettle ==
    ASSUME JiraInv, phase = "pulls", NEW i \in DOMAIN page, NEW links,
           results' = Put(i, Known(links)), Right(page[i], links, broken', partial'),
           broken \subseteq broken', partial \subseteq partial', workers' \in [Workers -> {Idle} \cup Summary \cup Detail],
           next' \in 1..(Len(page) + 1), next <= next',
           \A n \in DOMAIN page : n < next' => n < next \/ n = i,
           \A x \in Workers : workers'[x] = workers[x] \/ (workers[x].i = i /\ workers'[x] = Idle),
           UNCHANGED <<site, phase, custom, tickets, page, logs, asked, shortened,
                       error>>
    PROVE  JiraInv'
<1>1. /\ page \in Seq(Issues) /\ DOMAIN results = DOMAIN page /\ next \in Nat /\ next' \in Nat
      /\ DOMAIN page \subseteq Nat
  BY DEF JiraInv, PageInv
<1>2. /\ DOMAIN results' = DOMAIN page /\ results'[i] = Known(links)
      /\ \A n \in DOMAIN page \ {i} : results'[n] = results[n]
  BY <1>1 DEF Put
<1>3. results'[i] # Unset /\ results'[i].links = links
  BY <1>2 DEF Known, Unset
<1>4. SyncInv'
  BY DEF JiraInv, SyncInv, IdsOf
<1>5. TicketsInv'
  BY TicketsStay DEF JiraInv
<1>6. PageInv'
  <2>1. ASSUME NEW n \in DOMAIN page
        PROVE  \/ results'[n] = Unset
               \/ /\ results'[n] = Known(results'[n].links)
                  /\ Right(page[n], results'[n].links, broken', partial')
    <3>1. CASE n = i
      BY <1>2, <1>3, <3>1
    <3>2. CASE n # i /\ results[n] # Unset
      <4>1. results[n] = Known(results[n].links) /\ Right(page[n], results[n].links, broken, partial)
        BY <3>2 DEF JiraInv, PageInv
      <4>2. Right(page[n], results[n].links, broken', partial')
        BY <4>1, RightStays
      <4>3. QED
        BY <1>2, <3>2, <4>1, <4>2
    <3>3. QED
      BY <1>2, <3>1, <3>2
  <2>2. ASSUME NEW n \in DOMAIN page, n < next', results'[n] = Unset
        PROVE  \E x \in Workers : workers'[x].at # "idle" /\ workers'[x].i = n
    <3>1. n # i /\ results[n] = Unset /\ n < next
      BY <1>2, <1>3, <2>2
    <3>2. PICK x \in Workers : workers[x].at # "idle" /\ workers[x].i = n
      BY <3>1 DEF JiraInv, PageInv
    <3>3. workers'[x] = workers[x]
      BY <3>1, <3>2
    <3>4. QED
      BY <3>2, <3>3
  <2>3. QED
    BY <1>2, <2>1, <2>2 DEF JiraInv, PageInv
<1>7. WorkersInv'
  <2>1. ASSUME NEW x \in Workers, workers'[x].at # "idle"
        PROVE  /\ workers'[x].i \in DOMAIN page /\ workers'[x].i < next'
               /\ workers'[x].at = "detail" => Detailed(page[workers'[x].i], workers'[x], partial')
    <3>1. workers'[x] = workers[x]
      BY <2>1 DEF Idle
    <3>2. /\ workers[x].i \in DOMAIN page /\ workers[x].i < next
          /\ workers[x].at = "detail" => Detailed(page[workers[x].i], workers[x], partial)
      BY <2>1, <3>1 DEF JiraInv, WorkersInv
    <3>3. workers[x].i < next'
      BY <1>1, <3>2
    <3>4. QED
      BY <3>1, <3>2, <3>3, DetailedStays
  <2>2. QED
    BY <2>1 DEF WorkersInv
<1>8. LogsInv'
  BY DEF JiraInv, LogsInv
<1>9. QED
  BY <1>4, <1>5, <1>6, <1>7, <1>8 DEF JiraInv

\* The field has said already that an issue has none, or a worker asks.
LEMMA TakeKeeps == ASSUME JiraInv, NEW w \in Workers, Take(w) PROVE JiraInv'
<1> DEFINE types == IF custom.development = Nil THEN Nil ELSE DevSummaryFromField(page[next])
<1>1. /\ phase = "pulls" /\ workers[w] = Idle /\ next <= Len(page) /\ next' = next + 1
      /\ UNCHANGED <<site, phase, custom, tickets, page, broken, logs, asked, shortened, error>>
  BY DEF Take, logsVars
<1>2. /\ next \in DOMAIN page /\ next \in Nat /\ DOMAIN page = 1..Len(page) /\ Len(page) \in Nat
      /\ page[next] \in Issues /\ workers \in [Workers -> {Idle} \cup Summary \cup Detail]
  BY <1>1 DEF JiraInv, PageInv, WorkersInv
<1>3. CASE types = << >>
  <2>1. results' = Put(next, Known(<< >>)) /\ UNCHANGED workers
    BY <1>3 DEF Take
  <2>2. partial' = IF page[next].types = << >> THEN partial ELSE partial \cup {page[next].key}
    BY <1>3 DEF Take
  <2>3. Right(page[next], << >>, broken', partial')
    <3>1. CASE page[next].types = << >>
      BY <1>2, <3>1, NoneHeld DEF Right
    <3>2. CASE page[next].types # << >>
      BY <1>2, <2>2, <3>2, NoneRead DEF Right
    <3>3. QED
      BY <3>1, <3>2
  <2>4. /\ next' \in 1..(Len(page) + 1) /\ next <= next'
        /\ \A n \in DOMAIN page : n < next' => n < next \/ n = next
    BY <1>1, <1>2
  <2>5. PICK i \in DOMAIN page : i = next
    BY <1>2
  <2>6. QED
    BY <1>1, <1>2, <2>1, <2>2, <2>3, <2>4, <2>5, LinksSettle
<1>4. CASE types # << >>
  <2> DEFINE worker == IF types = Nil THEN [at |-> "summary", i |-> next]
                       ELSE [at |-> "detail", i |-> next, types |-> types, found |-> << >>]
  <2>1. workers' = [workers EXCEPT ![w] = worker] /\ UNCHANGED <<results, partial>>
    BY <1>4 DEF Take
  <2>2. types # Nil => types = page[next].types
    <3>1. page[next].said \in {"nothing", "summary", "uncounted", "illegible"}
      BY <1>2
    <3>2. QED
      BY <1>4, <3>1 DEF DevSummaryFromField
  <2>3. /\ worker \in Summary \cup Detail /\ worker.i = next
        /\ worker.at = "detail" => Detailed(page[next], worker, partial')
    <3>1. CASE types = Nil
      BY <1>2, <3>1 DEF Summary
    <3>2. CASE types # Nil
      <4>1. worker = [at |-> "detail", i |-> next, types |-> page[next].types, found |-> << >>]
        BY <2>2, <3>2
      <4>2. PICK issue \in Issues, n \in Nat : issue = page[next] /\ n = next
        BY <1>2
      <4>3. issue.types # << >>
        BY <1>4, <2>2, <3>2, <4>2
      <4>4. worker \in Detail /\ Detailed(issue, worker, partial')
        <5> HIDE DEF worker
        <5>1. QED
          BY <4>1, <4>2, <4>3, DetailedFirst
      <4>5. worker.i = next
        BY <4>1
      <4> HIDE DEF worker
      <4>6. QED
        BY <4>2, <4>4, <4>5
    <3>3. QED
      BY <3>1, <3>2
  <2> HIDE DEF worker, types
  <2>4. PICK v \in Summary \cup Detail : v = worker
    BY <2>3
  <2>5. workers[w].at = "idle"
    BY <1>1 DEF Idle
  <2>6. QED
    BY <1>1, <1>2, <2>1, <2>3, <2>4, <2>5, WorkerMoves
<1>5. QED
  BY <1>3, <1>4

\* The summary of an issue names its types, or has none.
LEMMA SummaryKeeps == ASSUME JiraInv, NEW w \in Workers, SummaryAnswered(w) PROVE JiraInv'
<1>1. /\ workers[w].at = "summary" /\ workers[w].at # "idle"
      /\ UNCHANGED <<site, phase, custom, tickets, page, next, broken, partial, logs, asked, shortened, error>>
  BY DEF SummaryAnswered, logsVars
<1>2. /\ phase = "pulls" /\ workers[w].i \in DOMAIN page /\ workers[w].i < next
      /\ page[workers[w].i] \in Issues
  BY <1>1, WorkerIs
<1>3. PICK i \in DOMAIN page, issue \in Issues : i = workers[w].i /\ issue = page[i]
  BY <1>2
<1>4. /\ DOMAIN page \subseteq Nat /\ next \in 1..(Len(page) + 1)
      /\ workers \in [Workers -> {Idle} \cup Summary \cup Detail]
  BY DEF JiraInv, PageInv, WorkersInv
<1>5. CASE issue.types = << >>
  <2>1. results' = Put(i, Known(<< >>)) /\ workers' = [workers EXCEPT ![w] = Idle]
    BY <1>3, <1>5 DEF SummaryAnswered, Settle
  <2>2. Right(issue, << >>, broken', partial')
    BY <1>5, NoneHeld DEF Right
  <2>3. /\ workers' \in [Workers -> {Idle} \cup Summary \cup Detail]
        /\ \A x \in Workers : workers'[x] = workers[x] \/ (workers[x].i = i /\ workers'[x] = Idle)
    BY <1>3, <1>4, <2>1
  <2>4. \A n \in DOMAIN page : n < next' => n < next \/ n = i
    BY <1>1
  <2>5. next <= next' /\ next' \in 1..(Len(page) + 1)
    BY <1>1, <1>4
  <2>6. QED
    BY <1>1, <1>2, <1>3, <2>1, <2>2, <2>3, <2>4, <2>5, LinksSettle
<1>6. CASE issue.types # << >>
  <2>1. PICK worker : worker = [at |-> "detail", i |-> i, types |-> issue.types, found |-> << >>]
    OBVIOUS
  <2>2. workers' = [workers EXCEPT ![w] = worker] /\ UNCHANGED results
    BY <1>3, <1>6, <2>1 DEF SummaryAnswered
  <2>3. worker \in Detail /\ Detailed(issue, worker, partial')
    BY <1>3, <1>4, <1>6, <2>1, DetailedFirst
  <2>4. worker.i = i
    BY <2>1
  <2>5. QED
    BY <1>1, <1>2, <1>3, <2>2, <2>3, <2>4, WorkerMoves
<1>7. QED
  BY <1>5, <1>6

\* One without a count is taken for one that has none.
LEMMA UncountedKeeps == ASSUME JiraInv, NEW w \in Workers, SummaryUncounted(w) PROVE JiraInv'
<1>1. /\ workers[w].at # "idle" /\ Settle(w, Known(<< >>))
      /\ partial' = partial \cup {page[workers[w].i].key}
      /\ UNCHANGED <<site, phase, custom, tickets, page, next, broken, logs, asked, shortened, error>>
  BY DEF SummaryUncounted, logsVars
<1>2. /\ phase = "pulls" /\ workers[w].i \in DOMAIN page /\ page[workers[w].i] \in Issues
  BY <1>1, WorkerIs
<1>3. PICK i \in DOMAIN page : i = workers[w].i
  BY <1>2
<1>4. next \in 1..(Len(page) + 1) /\ workers \in [Workers -> {Idle} \cup Summary \cup Detail]
  BY DEF JiraInv, PageInv, WorkersInv
<1>5. results' = Put(i, Known(<< >>)) /\ workers' = [workers EXCEPT ![w] = Idle]
  BY <1>1, <1>3 DEF Settle
<1>6. Right(page[i], << >>, broken', partial')
  BY <1>1, <1>2, <1>3, NoneRead DEF Right
<1>7. /\ workers' \in [Workers -> {Idle} \cup Summary \cup Detail]
      /\ \A x \in Workers : workers'[x] = workers[x] \/ (workers[x].i = i /\ workers'[x] = Idle)
  BY <1>3, <1>4, <1>5
<1>8. /\ next <= next' /\ next' \in 1..(Len(page) + 1)
      /\ \A n \in DOMAIN page : n < next' => n < next \/ n = i
  BY <1>1, <1>4
<1>9. QED
  BY <1>1, <1>2, <1>5, <1>6, <1>7, <1>8, LinksSettle

\* A bad answer: the links of this issue are unknown, of which it has failed.
LEMMA PullsFailedKeeps == ASSUME JiraInv, NEW w \in Workers, PullsFailed(w) PROVE JiraInv'
<1>1. /\ workers[w].at # "idle" /\ Settle(w, Unknown)
      /\ broken' = broken \cup {page[workers[w].i].key}
      /\ UNCHANGED <<site, phase, custom, tickets, page, next, partial, logs, asked, shortened, error>>
  BY DEF PullsFailed, FailedMeans, logsVars
<1>2. /\ phase = "pulls" /\ workers[w].i \in DOMAIN page
  BY <1>1, WorkerIs
<1>3. PICK i \in DOMAIN page : i = workers[w].i
  BY <1>2
<1>4. next \in 1..(Len(page) + 1) /\ workers \in [Workers -> {Idle} \cup Summary \cup Detail]
  BY DEF JiraInv, PageInv, WorkersInv
<1>5. results' = Put(i, Known(Nil)) /\ workers' = [workers EXCEPT ![w] = Idle]
  BY <1>1, <1>3 DEF Settle, Unknown, Known
<1>6. Right(page[i], Nil, broken', partial')
  BY <1>1, <1>3 DEF Right
<1>7. /\ workers' \in [Workers -> {Idle} \cup Summary \cup Detail]
      /\ \A x \in Workers : workers'[x] = workers[x] \/ (workers[x].i = i /\ workers'[x] = Idle)
  BY <1>3, <1>4, <1>5
<1>8. /\ next <= next' /\ next' \in 1..(Len(page) + 1)
      /\ \A n \in DOMAIN page : n < next' => n < next \/ n = i
  BY <1>1, <1>4
<1>9. broken \subseteq broken'
  BY <1>1
<1>10. QED
  BY <1>1, <1>2, <1>5, <1>6, <1>7, <1>8, <1>9, LinksSettle

-----------------------------------------------------------------------------
\* What the members of a sequence are after two are joined, and without the first.
LEMMA JoinedIs ==
    ASSUME NEW A, NEW B, NEW a \in Seq(A), NEW b \in Seq(B)
    PROVE  /\ a \o b \in Seq(A \cup B) /\ a \o b \in Seq(Range(a \o b))
           /\ Range(a \o b) = Range(a) \cup Range(b)
           /\ Len(a \o b) = Len(a) + Len(b) /\ Len(a) \in Nat /\ Len(b) \in Nat
           /\ \A i \in 1..(Len(a) + Len(b)) :
                (a \o b)[i] = IF i <= Len(a) THEN a[i] ELSE b[i - Len(a)]
<1>1. a \in Seq(A \cup B) /\ b \in Seq(A \cup B)
  BY SeqMonotonic
<1>2. PICK ab : ab = a \o b
  OBVIOUS
<1>3. /\ ab \in Seq(A \cup B) /\ Len(ab) = Len(a) + Len(b)
      /\ Len(a) \in Nat /\ Len(b) \in Nat
      /\ \A i \in 1..(Len(a) + Len(b)) : ab[i] = IF i <= Len(a) THEN a[i] ELSE b[i - Len(a)]
  BY <1>1, <1>2, ConcatProperties
<1>4. /\ DOMAIN ab = 1..(Len(a) + Len(b))
      /\ DOMAIN a = 1..Len(a) /\ DOMAIN b = 1..Len(b)
  BY <1>3
<1>5. Range(ab) = Range(a) \cup Range(b)
  <2>1. ASSUME NEW i \in DOMAIN ab
        PROVE  ab[i] \in Range(a) \cup Range(b)
    <3>1. CASE i <= Len(a)
      BY <1>3, <1>4, <3>1 DEF Range
    <3>2. CASE ~(i <= Len(a))
      <4>1. i - Len(a) \in DOMAIN b /\ ab[i] = b[i - Len(a)]
        BY <1>3, <1>4, <3>2
      <4>2. QED
        BY <4>1 DEF Range
    <3>3. QED
      BY <3>1, <3>2
  <2>2. ASSUME NEW i \in DOMAIN a
        PROVE  a[i] \in Range(ab)
    <3>1. i \in DOMAIN ab /\ ab[i] = a[i]
      BY <1>3, <1>4
    <3>2. QED
      BY <3>1 DEF Range
  <2>3. ASSUME NEW i \in DOMAIN b
        PROVE  b[i] \in Range(ab)
    <3>1. i + Len(a) \in DOMAIN ab /\ ab[i + Len(a)] = b[i]
      BY <1>3, <1>4
    <3>2. QED
      BY <3>1 DEF Range
  <2>4. QED
    BY <2>1, <2>2, <2>3 DEF Range
<1>6. ab \in Seq(Range(ab))
  BY <1>3 DEF Range
<1>7. QED
  BY <1>2, <1>3, <1>5, <1>6

LEMMA HeadOrTail ==
    ASSUME NEW A, NEW s \in Seq(A), s # << >>
    PROVE  /\ Head(s) \in Range(s) /\ Tail(s) \in Seq(A)
           /\ \A x \in Range(s) : x = Head(s) \/ x \in Range(Tail(s))
           /\ Range(Tail(s)) \subseteq Range(s)
           /\ Len(s) = 1 <=> Tail(s) = << >>
<1>1. PICK rest : rest = Tail(s)
  OBVIOUS
<1>2. /\ Len(s) \in Nat \ {0} /\ DOMAIN s = 1..Len(s)
      /\ rest \in Seq(A) /\ Len(rest) = Len(s) - 1 /\ \A i \in 1..Len(rest) : rest[i] = s[i + 1]
      /\ Head(s) = s[1] /\ DOMAIN rest = 1..(Len(s) - 1)
  BY <1>1, HeadTailProperties, EmptySeq
<1>3. 1 \in DOMAIN s
  BY <1>2
<1>4. \A i \in DOMAIN s : i = 1 \/ (i - 1 \in DOMAIN rest /\ rest[i - 1] = s[i])
  BY <1>2
<1>5. \A i \in DOMAIN rest : i + 1 \in DOMAIN s /\ rest[i] = s[i + 1]
  BY <1>2
<1>6. Len(s) = 1 <=> rest = << >>
  <2>1. rest # << >> => Len(rest) \in Nat \ {0}
    BY <1>2, EmptySeq
  <2>2. rest = << >> => Len(rest) = 0
    BY EmptySeq
  <2>3. QED
    BY <1>2, <2>1, <2>2
<1>7. \A x \in Range(s) : x = Head(s) \/ x \in Range(rest)
  <2>1. ASSUME NEW i \in DOMAIN s
        PROVE  s[i] = Head(s) \/ s[i] \in Range(rest)
    <3>1. CASE i = 1
      BY <1>2, <3>1
    <3>2. CASE i # 1
      BY <1>4, <3>2 DEF Range
    <3>3. QED
      BY <3>1, <3>2
  <2>2. QED
    BY <2>1 DEF Range
<1>8. Range(rest) \subseteq Range(s)
  BY <1>5 DEF Range
<1>9. Head(s) \in Range(s)
  BY <1>2, <1>3 DEF Range
<1>10. QED
  BY <1>1, <1>2, <1>6, <1>7, <1>8, <1>9

\* What an answer holds is of what there is.
LEMMA ExcerptIs ==
    ASSUME NEW found \in Seq(Pulls), NEW answer \in Excerpts(found)
    PROVE  answer \in Seq(Pulls) /\ Range(answer) \subseteq Range(found)
<1>1. PICK n \in Nat : n = Len(found) /\ DOMAIN found = 1..n
  OBVIOUS
<1>2. PICK pick \in Picks(n) : answer = [k \in DOMAIN pick |-> found[pick[k]]]
  BY <1>1 DEF Excerpts
<1>3. PICK count \in 0..n : pick \in [1..count -> 1..n]
  BY <1>2 DEF Picks
<1>4. DOMAIN answer = 1..count /\ \A k \in 1..count : answer[k] \in Pulls /\ answer[k] \in Range(found)
  BY <1>1, <1>2, <1>3 DEF Range
<1>5. answer = [k \in 1..count |-> answer[k]] /\ count \in Nat
  BY <1>1, <1>2, <1>3
<1>6. answer \in Seq(Pulls)
  BY <1>4, <1>5
<1>7. QED
  BY <1>4, <1>6 DEF Range

\* The details of one type; after the last, all that the issue has is found, or an
\* answer left some of it out.
LEMMA DetailKeeps ==
    ASSUME JiraInv, NEW w \in Workers, workers[w].at = "detail", NEW answer \in Excerpts(Asked(w)),
           DetailAnswered(w, answer)
    PROVE  JiraInv'
<1>1. /\ workers[w].at = "detail" /\ workers[w].at # "idle"
      /\ UNCHANGED <<site, phase, custom, tickets, page, next, broken, logs, asked, shortened, error>>
  BY DEF DetailAnswered, logsVars
<1>2. /\ phase = "pulls" /\ workers[w].i \in DOMAIN page
      /\ page[workers[w].i] \in Issues /\ workers[w] \in Detail
      /\ Detailed(page[workers[w].i], workers[w], partial)
  BY <1>1, WorkerIs
<1>3. PICK worker \in Detail, i \in DOMAIN page, issue \in Issues :
        /\ worker = workers[w] /\ i = worker.i /\ issue = page[i] /\ Detailed(issue, worker, partial)
  BY <1>2
<1>4. /\ DOMAIN page \subseteq Nat /\ next \in 1..(Len(page) + 1)
      /\ workers \in [Workers -> {Idle} \cup Summary \cup Detail]
  BY DEF JiraInv, PageInv, WorkersInv
<1>5. /\ worker.types \in Seq(Types) /\ worker.types # << >> /\ worker.found \in Seq(Pulls)
      /\ worker.at = "detail" /\ worker.i \in Nat
  BY <1>3 DEF Detail, Detailed
<1>6. PICK type : type = Head(worker.types)
  OBVIOUS
<1>7. PICK rest : rest = Tail(worker.types)
  OBVIOUS
<1>8. /\ type \in Range(worker.types) /\ rest \in Seq(Types)
      /\ \A t \in Range(worker.types) : t = type \/ t \in Range(rest)
      /\ Range(rest) \subseteq Range(worker.types)
      /\ Len(worker.types) = 1 <=> rest = << >>
  BY <1>5, <1>6, <1>7, HeadOrTail
<1>9. /\ type \in Range(issue.types) /\ issue.pulls[type] \in Seq(Pulls)
      /\ Range(issue.pulls[type]) \subseteq Held(issue)
  BY <1>3, <1>8, IssueIs DEF Detailed
<1>10. PICK found : found = worker.found \o answer
  OBVIOUS
<1>11. /\ answer \in Excerpts(issue.pulls[type]) /\ partial \subseteq partial'
       /\ answer = issue.pulls[type] \/ issue.key \in partial'
  <2>1. Asked(w) = issue.pulls[type]
    BY <1>3, <1>6 DEF Asked
  <2>2. partial' = IF answer = Asked(w) THEN partial ELSE partial \cup {issue.key}
    BY <1>3 DEF DetailAnswered
  <2>3. QED
    BY <2>1, <2>2
<1>12. answer \in Seq(Pulls) /\ Range(answer) \subseteq Range(issue.pulls[type])
  <2>1. PICK held \in Seq(Pulls) : held = issue.pulls[type]
    BY <1>9
  <2>2. QED
    BY <1>11, <2>1, ExcerptIs
<1>13. found \in Seq(Pulls) /\ Range(found) = Range(worker.found) \cup Range(answer)
  <2>1. found \in Seq(Pulls \cup Pulls)
    BY <1>5, <1>10, <1>12, JoinedIs
  <2>2. Range(found) = Range(worker.found) \cup Range(answer)
    BY <1>5, <1>10, <1>12, JoinedIs
  <2>3. QED
    BY <2>1, <2>2
<1>14. /\ Range(found) \subseteq Held(issue)
       /\ issue.key \notin partial' => \A t \in Range(issue.types) :
            t \in Range(rest) \/ Range(issue.pulls[t]) \subseteq Range(found)
  BY <1>3, <1>8, <1>9, <1>13, <1>11, <1>12 DEF Detailed
<1>15. CASE Len(worker.types) = 1
  <2>1. PICK links : links = OrderPullRequests(found)
    OBVIOUS
  <2>2. results' = Put(i, Known(links)) /\ workers' = [workers EXCEPT ![w] = Idle]
    BY <1>3, <1>6, <1>10, <1>15, <2>1 DEF DetailAnswered, Settle
  <2>3. Range(rest) = {}
    BY <1>8, <1>15 DEF Range
  <2>4. Range(found) \subseteq Held(issue) /\ (issue.key \notin partial' => Range(found) = Held(issue))
    <3>1. Held(issue) = UNION {Range(issue.pulls[t]) : t \in Range(issue.types)}
      BY DEF Held
    <3>2. QED
      BY <1>14, <2>3, <3>1
  <2>5. Lists(issue, links, partial') /\ links # Nil
    <3>1. /\ links \in Seq(Pulls) /\ InOrder(links)
          /\ {links[n].url : n \in DOMAIN links} = {pr.url : pr \in Range(found)} \ {Nil}
      BY <1>13, <2>1, OrderedOnce
    <3>2. links # Nil
      BY <3>1
    <3>3. QED
      BY <2>4, <3>1, <3>2 DEF Lists
  <2>6. Right(page[i], links, broken', partial')
    BY <1>3, <2>5 DEF Right
  <2>7. /\ workers' \in [Workers -> {Idle} \cup Summary \cup Detail]
        /\ \A x \in Workers : workers'[x] = workers[x] \/ (workers[x].i = i /\ workers'[x] = Idle)
    BY <1>3, <1>4, <2>2
  <2>8. /\ next <= next' /\ next' \in 1..(Len(page) + 1)
        /\ \A n \in DOMAIN page : n < next' => n < next \/ n = i
    BY <1>1, <1>4
  <2>9. QED
    BY <1>1, <1>2, <1>11, <2>2, <2>6, <2>7, <2>8, LinksSettle
<1>16. CASE Len(worker.types) # 1
  <2>1. PICK then : then = [at |-> "detail", i |-> i, types |-> rest, found |-> found]
    OBVIOUS
  <2>2. workers' = [workers EXCEPT ![w].types = rest, ![w].found = found] /\ UNCHANGED results
    BY <1>3, <1>6, <1>7, <1>10, <1>16 DEF DetailAnswered
  <2>3. workers' = [workers EXCEPT ![w] = then]
    <3>1. [[worker EXCEPT !.types = rest] EXCEPT !.found = found] = then
      <4>1. worker = [at |-> "detail", i |-> i, types |-> worker.types, found |-> worker.found]
        BY <1>3 DEF Detail
      <4>2. PICK one : one = [at |-> "detail", i |-> i, types |-> rest, found |-> worker.found]
        OBVIOUS
      <4>3. [worker EXCEPT !.types = rest] = one
        BY <4>1, <4>2
      <4>4. [one EXCEPT !.found = found] = then
        BY <2>1, <4>2
      <4>5. QED
        BY <4>3, <4>4
    <3>2. workers' = [workers EXCEPT ![w] = [[worker EXCEPT !.types = rest] EXCEPT !.found = found]]
      BY <1>3, <1>4, <2>2
    <3>3. QED
      BY <3>1, <3>2
  <2>4. then \in Detail /\ then.i = i
    BY <1>3, <1>5, <1>8, <1>13, <2>1 DEF Detail
  <2>5. Detailed(issue, then, partial')
    <3>1. then.types = rest /\ then.found = found
      BY <2>1
    <3>2. QED
      BY <1>3, <1>8, <1>14, <1>16, <3>1 DEF Detailed
  <2>6. QED
    BY <1>1, <1>2, <1>3, <1>11, <2>2, <2>3, <2>4, <2>5, WorkerMoves
<1>17. QED
  BY <1>15, <1>16

-----------------------------------------------------------------------------
\* The tickets of a page follow those of the pages before it.
LEMMA PageKeeps == ASSUME JiraInv, PageDone PROVE JiraInv'
<1> DEFINE added == [i \in DOMAIN page |-> ToTicket(page[i], custom, results[i].links)]
<1>1. /\ phase = "pulls" /\ next > Len(page) /\ \A w \in Workers : workers[w] = Idle
      /\ tickets' = tickets \o added /\ page' = << >> /\ results' = << >> /\ next' = 1
      /\ phase' = IF Len(tickets') < Len(site.issues) THEN "search"
                  ELSE IF tickets' = << >> THEN "done" ELSE "logs"
      /\ UNCHANGED <<site, custom, workers, broken, partial, logs, asked, shortened, error>>
  BY DEF PageDone, logsVars
<1>2. /\ page \in Seq(Issues) /\ DOMAIN page = 1..Len(page) /\ Len(page) \in Nat
      /\ tickets \in Seq(Range(tickets)) /\ Len(tickets) \in Nat
      /\ DOMAIN tickets = 1..Len(tickets) /\ Len(tickets) + Len(page) <= Len(site.issues)
      /\ site \in Sites /\ asked = 0 /\ logs = {} /\ DOMAIN << >> = {}
  BY <1>1 DEF JiraInv, SyncInv, PageInv, TicketsInv, LogsInv
<1>3. ASSUME NEW i \in DOMAIN page
      PROVE  page[i] = site.issues[Len(tickets) + i] /\ Right(page[i], results[i].links, broken, partial)
  <2>1. i < next
    BY <1>1, <1>2 DEF JiraInv, PageInv
  <2>2. results[i] # Unset
    <3>1. \A w \in Workers : ~(workers[w].at # "idle")
      BY <1>1 DEF Idle
    <3>2. QED
      BY <2>1, <3>1 DEF JiraInv, PageInv
  <2>3. QED
    BY <2>2 DEF JiraInv, PageInv
<1>4. added \in Seq(Range(added)) /\ Len(added) = Len(page)
  BY <1>2 DEF Range
<1> HIDE DEF added
<1>5. /\ tickets' \in Seq(Range(tickets')) /\ Len(tickets') = Len(tickets) + Len(page)
      /\ \A i \in 1..(Len(tickets) + Len(page)) :
           tickets'[i] = IF i <= Len(tickets) THEN tickets[i] ELSE added[i - Len(tickets)]
  <2>1. PICK whole : whole = tickets \o added
    OBVIOUS
  <2>2. PICK before : before = tickets
    OBVIOUS
  <2>3. before \in Seq(Range(before))
    BY <1>2, <2>2
  <2>4. PICK after \in Seq(Range(added)) : after = added
    BY <1>4
  <2>5. /\ whole \in Seq(Range(whole)) /\ Len(whole) = Len(before) + Len(after)
        /\ \A i \in 1..(Len(before) + Len(after)) :
             whole[i] = IF i <= Len(before) THEN before[i] ELSE after[i - Len(before)]
    <3>1. PICK A, B : A = Range(before) /\ B = Range(added)
      OBVIOUS
    <3>2. before \in Seq(A) /\ after \in Seq(B) /\ whole = before \o after
      BY <2>1, <2>2, <2>3, <2>4, <3>1
    <3>3. before \o after \in Seq(Range(before \o after))
      BY <3>2, JoinedIs
    <3>4. Len(before \o after) = Len(before) + Len(after)
      BY <3>2, JoinedIs
    <3>5. \A i \in 1..(Len(before) + Len(after)) :
            (before \o after)[i] = IF i <= Len(before) THEN before[i] ELSE after[i - Len(before)]
      BY <3>2, JoinedIs
    <3>6. QED
      BY <3>2, <3>3, <3>4, <3>5
  <2>6. QED
    BY <1>1, <1>4, <2>1, <2>2, <2>4, <2>5
<1>6. DOMAIN tickets' = 1..(Len(tickets) + Len(page))
  BY <1>2, <1>5
<1>7. ASSUME NEW i \in DOMAIN tickets'
      PROVE  Told(i)'
  <2>1. CASE i <= Len(tickets)
    <3>1. tickets'[i] = tickets[i] /\ i \in DOMAIN tickets
      BY <1>2, <1>5, <1>6, <2>1
    <3>2. Told(i)
      BY <3>1 DEF JiraInv, TicketsInv
    <3>3. QED
      BY <1>1, <3>1, <3>2 DEF Told
  <2>2. CASE ~(i <= Len(tickets))
    <3>1. PICK n \in DOMAIN page : n = i - Len(tickets) /\ Len(tickets) + n = i
      BY <1>2, <1>6, <2>2
    <3>2. PICK issue, links : issue = page[n] /\ links = results[n].links
      OBVIOUS
    <3>3. tickets'[i] = ToTicket(issue, custom, links)
      BY <1>5, <1>6, <2>2, <3>1, <3>2 DEF added
    <3>4. issue = site.issues[i] /\ Right(issue, links, broken, partial)
      BY <1>3, <3>1, <3>2
    <3>5. PICK t : t = tickets'[i]
      OBVIOUS
    <3>6. t = [key |-> issue.key, category |-> ToStatusCategory(issue.category),
               points |-> IF custom.points = Nil THEN Nil ELSE Field(issue, custom.points),
               sprint |-> CurrentSprint(SprintField(issue, custom)),
               versions |-> ToFixVersions(issue.versions), pullRequests |-> links,
               active |-> Nil, moved |-> Nil]
      BY <3>3, <3>5 DEF ToTicket
    <3>7. /\ t = [key |-> issue.key, category |-> t.category, points |-> t.points,
                  sprint |-> CurrentSprint(SprintField(issue, custom)),
                  versions |-> t.versions, pullRequests |-> t.pullRequests,
                  active |-> t.active, moved |-> t.moved]
          /\ t.pullRequests = links
      BY <3>6
    <3>8. QED
      BY <1>1, <3>4, <3>5, <3>7 DEF Told
  <2>3. QED
    BY <2>1, <2>2
<1>8. SyncInv'
  <2>1. phase' \in {"search", "done", "logs"}
    BY <1>1
  <2>2. QED
    BY <1>1, <2>1 DEF JiraInv, SyncInv, IdsOf
<1>9. TicketsInv'
  BY <1>1, <1>2, <1>5, <1>7 DEF TicketsInv
<1>10. PageInv'
  <2>1. << >> \in Seq(Issues) /\ Len(<< >>) = 0 /\ 1 \in 1..1
    OBVIOUS
  <2>2. QED
    BY <1>1, <1>2, <1>5, <2>1 DEF PageInv
<1>11. WorkersInv'
  <2>1. \A w \in Workers : ~(workers[w].at # "idle")
    BY <1>1 DEF Idle
  <2>2. QED
    BY <1>1, <2>1 DEF JiraInv, WorkersInv
<1>12. LogsInv'
  <2>1. CASE phase' = "search"
    BY <1>1, <1>2, <2>1 DEF LogsInv
  <2>2. CASE phase' = "done"
    <3>1. tickets' = << >>
      BY <1>1, <2>2
    <3>2. DOMAIN tickets' = {}
      BY <1>2, <3>1
    <3>3. QED
      BY <1>1, <1>2, <2>2, <3>2 DEF LogsInv
  <2>3. CASE phase' = "logs"
    <3>1. Len(tickets') = Len(site.issues)
      <4>1. ~(Len(tickets') < Len(site.issues))
        BY <1>1, <2>3
      <4>2. Len(site.issues) \in Nat
        BY <1>2, SiteIs
      <4>3. Len(tickets') \in Nat /\ Len(tickets') <= Len(site.issues)
        BY <1>2, <1>5
      <4>4. QED
        BY <4>1, <4>2, <4>3
    <3>2. \A i \in DOMAIN site.issues : ~(i <= 0)
      BY <1>2, SiteIs
    <3>3. QED
      BY <1>1, <1>2, <2>3, <3>1, <3>2 DEF LogsInv
  <2>4. QED
    BY <1>1, <2>1, <2>2, <2>3
<1>13. QED
  BY <1>8, <1>9, <1>10, <1>11, <1>12 DEF JiraInv

-----------------------------------------------------------------------------
\* The newest of some entries.
LEMMA NewestIs ==
    ASSUME NEW logged, IsFiniteSet(logged), \A e \in logged : e.at \in Nat
    PROVE  IF logged = {} THEN LatestAt(logged) = Nil
           ELSE \E e \in logged : LatestAt(logged) = e.at /\ \A x \in logged : x.at <= e.at
<1>1. CASE logged = {}
  BY <1>1 DEF LatestAt
<1>2. CASE logged # {}
  <2> DEFINE times == {e.at : e \in logged}
  <2>1. IsFiniteSet(times)
    <3>1. PICK f : f = [e \in logged |-> e.at]
      OBVIOUS
    <3>2. f \in Surjection(logged, times)
      BY <3>1 DEF Surjection
    <3> HIDE DEF times
    <3>3. QED
      BY <3>2, FS_Surjection
  <2>2. times \in SUBSET Nat /\ times # {}
    BY <1>2
  <2>3. PICK time \in times : \A t \in times : t <= time
    <3> HIDE DEF times
    <3>1. QED
      BY <2>1, <2>2, HasGreatest
  <2>4. PICK e \in logged : \A x \in logged : x.at <= e.at
    BY <2>3
  <2>5. PICK newest \in logged :
          /\ newest = CHOOSE y \in logged : \A x \in logged : x.at <= y.at
          /\ \A x \in logged : x.at <= newest.at
    BY <2>4
  <2>6. LatestAt(logged) = newest.at
    BY <1>2, <2>5 DEF LatestAt
  <2>7. QED
    BY <1>2, <2>5, <2>6
<1>3. QED
  BY <1>1, <1>2

\* What counts as real is what a person did that is not bookkeeping: some of it dates an
\* issue, and all of it dates it well.
LEMMA DatedByReal ==
    ASSUME NEW issue \in Issues, NEW real \in SUBSET issue.changes,
           \A e \in real : CountsAsReal(e), NEW datable,
           datable => /\ \A e \in issue.changes : CountsAsReal(e) => e \in real
                      /\ \A c, d \in issue.changes : c.at <= d.at => c.instant <= d.instant
    PROVE  Dated(issue, LatestAt(real), datable)
<1>1. IsFiniteSet(issue.changes)
      /\ \A e \in issue.changes : e.at \in Nat /\ e.instant \in Nat /\ e.author \in Authors
  OBVIOUS
<1>2. IsFiniteSet(real) /\ \A e \in real : e.at \in Nat
  BY <1>1, FS_Subset
<1>3. \A e \in issue.changes :
        CountsAsReal(e) <=> e.author = "person" /\ e.field \in {"status", "comment", "assignee"}
  BY <1>1 DEF CountsAsReal, ClassifyAuthor, RealFields, NeverRealFields, Authors
<1>4. /\ real \subseteq PersonsChanges(issue)
      /\ datable => PersonsChanges(issue) \subseteq real
  BY <1>3 DEF PersonsChanges
<1>5. CASE real = {}
  <2>1. LatestAt(real) = Nil
    BY <1>2, <1>5, NewestIs
  <2>2. QED
    BY <1>4, <1>5, <2>1 DEF Dated
<1>6. CASE real # {}
  <2>1. PICK e \in real : LatestAt(real) = e.at /\ \A x \in real : x.at <= e.at
    BY <1>2, <1>6, NewestIs
  <2>2. ASSUME datable, NEW d \in PersonsChanges(issue)
        PROVE  d.instant <= e.instant
    <3>1. d \in real /\ d.at <= e.at /\ d \in issue.changes /\ e \in issue.changes
      BY <1>4, <2>1, <2>2
    <3>2. QED
      BY <2>2, <3>1
  <2>3. PICK at : at = LatestAt(real)
    OBVIOUS
  <2>4. QED
    BY <1>4, <2>1, <2>2, <2>3 DEF Dated
<1>7. QED
  BY <1>5, <1>6

\* One more batch of changelogs; after the last, each ticket has its age.
LEMMA LogsKeep ==
    ASSUME JiraInv, NEW answer \in SUBSET Written, LogsAnswered(answer)
    PROVE  JiraInv'
<1> DEFINE Logged(issue, e) == [key |-> LogName(issue), entry |-> e]
           fetched == {x \in Range(site.issues) : x.key \in BatchAsked}
<1>1. PICK changes : changes = logs \cup {Logged(c.issue, c.entry) : c \in answer}
  OBVIOUS
<1>2. /\ phase = "logs" /\ asked' = asked + Batch /\ logs' = changes
      /\ \/ asked' < Len(tickets) /\ UNCHANGED <<tickets, phase>>
         \/ ~(asked' < Len(tickets)) /\ tickets' = ApplyActivity(tickets, changes) /\ phase' = "done"
      /\ UNCHANGED <<site, custom, page, next, workers, results, broken, partial, error>>
      /\ shortened' = shortened \cup {c.issue.key : c \in Written \ answer}
  BY <1>1 DEF LogsAnswered, pagesVars
<1>3. /\ site \in Sites /\ asked \in Nat /\ asked' \in Nat /\ Len(tickets) = Len(site.issues)
      /\ Len(tickets) \in Nat /\ DOMAIN tickets = DOMAIN site.issues
      /\ DOMAIN tickets = 1..Len(tickets)
      /\ \A i \in DOMAIN tickets : Told(i)
  BY <1>2, SiteIs DEF JiraInv, SyncInv, TicketsInv, LogsInv
<1>4. ASSUME NEW c \in changes
      PROVE  \E i \in DOMAIN site.issues : \E e \in site.issues[i].changes : c = Logged(site.issues[i], e)
  <2>1. CASE c \in logs
    BY <1>2, <2>1 DEF JiraInv, LogsInv
  <2>2. CASE c \notin logs
    <3>1. PICK x \in answer : c = Logged(x.issue, x.entry)
      BY <1>1, <2>2
    <3>2. PICK issue \in fetched : \E e \in issue.changes : x = [issue |-> issue, entry |-> e]
      BY DEF Written
    <3>3. PICK e \in issue.changes : x = [issue |-> issue, entry |-> e]
      BY <3>2
    <3>4. c = Logged(issue, e)
      BY <3>1, <3>3
    <3>5. PICK i \in DOMAIN site.issues : site.issues[i] = issue
      BY DEF Range
    <3>6. QED
      BY <3>4, <3>5
  <2>3. QED
    BY <2>1, <2>2
<1>5. ASSUME NEW i \in DOMAIN site.issues, i <= asked', NEW e \in site.issues[i].changes
      PROVE  Logged(site.issues[i], e) \in changes \/ site.issues[i].key \in shortened'
  <2>1. CASE i <= asked
    <3>1. Logged(site.issues[i], e) \in logs \/ site.issues[i].key \in shortened
      BY <1>2, <2>1 DEF JiraInv, LogsInv
    <3>2. QED
      BY <1>1, <1>2, <3>1
  <2>2. CASE ~(i <= asked)
    <3>1. i \in {n \in DOMAIN tickets : asked < n /\ n <= asked + Batch}
      <4>1. i \in DOMAIN tickets /\ i \in Nat
        BY <1>3
      <4>2. asked < i /\ i <= asked + Batch
        BY <1>2, <1>3, <1>5, <2>2, <4>1
      <4>3. QED
        BY <4>1, <4>2
    <3>2. tickets[i].key = site.issues[i].key
      BY <1>3, ToldIs
    <3>3. site.issues[i].key \in BatchAsked
      BY <3>1, <3>2 DEF BatchAsked
    <3>4. PICK x \in fetched : x = site.issues[i]
      BY <3>3 DEF Range
    <3>5. PICK c : c = [issue |-> x, entry |-> e]
      OBVIOUS
    <3>6. c \in Written /\ c.issue = x /\ c.entry = e
      BY <3>4, <3>5 DEF Written
    <3>7. CASE c \in answer
      BY <1>1, <3>4, <3>6, <3>7
    <3>8. CASE c \notin answer
      BY <1>2, <3>4, <3>6, <3>8
    <3>9. QED
      BY <3>7, <3>8
  <2>3. QED
    BY <2>1, <2>2
<1>6. SyncInv'
  <2>1. phase' \in {"logs", "done"}
    BY <1>2
  <2>2. QED
    BY <1>2, <2>1 DEF JiraInv, SyncInv, IdsOf
<1>7. PageInv' /\ WorkersInv'
  <2>1. Len(tickets') = Len(tickets) /\ page = << >> /\ DOMAIN page = {}
    <3>1. DOMAIN ApplyActivity(tickets, changes) = DOMAIN tickets
      BY DEF ApplyActivity
    <3>2. Len(ApplyActivity(tickets, changes)) = Len(tickets)
      BY <1>3 DEF ApplyActivity
    <3>3. QED
      BY <1>2, <3>2 DEF JiraInv, PageInv
  <2>2. PageInv'
    BY <1>2, <2>1 DEF JiraInv, PageInv
  <2>3. WorkersInv'
    BY <1>2 DEF JiraInv, WorkersInv
  <2>4. QED
    BY <2>2, <2>3
<1>8. CASE asked' < Len(tickets)
  <2>1. TicketsInv'
    BY <1>2, <1>8, TicketsStay DEF JiraInv
  <2>2. LogsInv'
    <3>1. /\ asked' \in Nat /\ phase' = "logs" /\ Len(tickets') = Len(site'.issues)
          /\ logs' = changes /\ site' = site
      BY <1>2, <1>3, <1>8
    <3>2. /\ \A c \in logs' : \E i \in DOMAIN site.issues : \E e \in site.issues[i].changes :
               c = Logged(site.issues[i], e)
          /\ \A i \in DOMAIN site.issues : i <= asked' =>
               \A e \in site.issues[i].changes :
                   Logged(site.issues[i], e) \in logs' \/ site.issues[i].key \in shortened'
      BY <1>4, <1>5, <3>1
    <3>3. QED
      BY <3>1, <3>2 DEF LogsInv, LogName
  <2>3. QED
    BY <1>6, <1>7, <2>1, <2>2 DEF JiraInv
<1>9. CASE ~(asked' < Len(tickets))
  <2> DEFINE Real(t) == {c.entry : c \in {x \in changes : x.key = t.key /\ CountsAsReal(x.entry)}}
             Statuses(t) == {e \in Real(t) : e.field = "status"}
  <2>1. /\ tickets' = [i \in DOMAIN tickets |->
                         [tickets[i] EXCEPT !.active = LatestAt(Real(tickets[i])),
                                            !.moved = LatestAt(Statuses(tickets[i]))]]
        /\ phase' = "done"
    BY <1>2, <1>9 DEF ApplyActivity
  <2>2. ASSUME NEW i \in DOMAIN tickets
        PROVE  /\ i \in DOMAIN site.issues /\ Real(tickets[i]) \subseteq site.issues[i].changes
               /\ \A e \in Real(tickets[i]) : CountsAsReal(e)
               /\ site.names = "keys" /\ site.issues[i].key \notin shortened'
                  => \A e \in site.issues[i].changes : CountsAsReal(e) => e \in Real(tickets[i])
    <3>1. i \in DOMAIN site.issues /\ i <= asked' /\ tickets[i].key = site.issues[i].key
      <4>1. i \in DOMAIN site.issues /\ tickets[i].key = site.issues[i].key
        BY <1>3, ToldIs
      <4>2. i \in 1..Len(tickets) /\ Len(tickets) <= asked'
        BY <1>3, <1>9
      <4>3. QED
        BY <1>3, <4>1, <4>2
    <3>2. ASSUME NEW c \in changes, c.key = tickets[i].key
          PROVE  c.entry \in site.issues[i].changes
      <4>1. PICK n \in DOMAIN site.issues : \E e \in site.issues[n].changes : c = Logged(site.issues[n], e)
        BY <1>4
      <4>2. PICK e \in site.issues[n].changes : c = Logged(site.issues[n], e)
        BY <4>1
      <4>3. c.key = LogName(site.issues[n]) /\ c.entry = e
        BY <4>2
      <4>4. LogName(site.issues[n]) = site.issues[n].key
        BY <1>3, <3>1, <3>2, <4>3, SiteIs DEF LogName
      <4>5. n = i
        BY <1>3, <3>1, <3>2, <4>3, <4>4, SiteIs
      <4>6. QED
        BY <4>3, <4>5
    <3>3. ASSUME site.names = "keys", site.issues[i].key \notin shortened',
                 NEW e \in site.issues[i].changes, CountsAsReal(e)
          PROVE  \E c \in changes : c.key = tickets[i].key /\ CountsAsReal(c.entry) /\ c.entry = e
      <4>1. Logged(site.issues[i], e) \in changes
        BY <1>5, <3>1, <3>3
      <4>2. PICK c \in changes : c = Logged(site.issues[i], e)
        BY <4>1
      <4>3. c.key = site.issues[i].key /\ c.entry = e
        BY <3>3, <4>2 DEF LogName
      <4>4. QED
        BY <3>1, <3>3, <4>3
    <3>4. QED
      BY <3>1, <3>2, <3>3
  <2> HIDE DEF Real, Statuses
  <2>3. ASSUME NEW i \in DOMAIN tickets
        PROVE  Told(i)' /\ Dated(site.issues[i], tickets'[i].active, Datable(site.issues[i])')
    <3>1. PICK t, a, m : /\ t = tickets[i] /\ a = LatestAt(Real(tickets[i]))
                         /\ m = LatestAt(Statuses(tickets[i]))
      OBVIOUS
    <3>2. tickets'[i] = [[t EXCEPT !.active = a] EXCEPT !.moved = m]
      BY <2>1, <3>1
    <3>3. PICK issue : issue = site.issues[i]
      OBVIOUS
    <3>4. /\ t = [key |-> issue.key, category |-> t.category, points |-> t.points,
                  sprint |-> CurrentSprint(SprintField(issue, custom)),
                  versions |-> t.versions, pullRequests |-> t.pullRequests,
                  active |-> t.active, moved |-> t.moved]
          /\ Right(issue, t.pullRequests, broken, partial)
      BY <1>3, <3>1, <3>3 DEF Told
    <3>5. PICK sprint : sprint = CurrentSprint(SprintField(issue, custom))
      OBVIOUS
    <3>6. PICK u : u = tickets'[i]
      OBVIOUS
    <3>7. u = [key |-> issue.key, category |-> t.category, points |-> t.points, sprint |-> sprint,
               versions |-> t.versions, pullRequests |-> t.pullRequests, active |-> a, moved |-> m]
      <4>1. PICK one : one = [key |-> issue.key, category |-> t.category, points |-> t.points,
                              sprint |-> sprint, versions |-> t.versions,
                              pullRequests |-> t.pullRequests, active |-> a, moved |-> t.moved]
        OBVIOUS
      <4>2. [t EXCEPT !.active = a] = one
        BY <3>4, <3>5, <4>1
      <4>3. [one EXCEPT !.moved = m] = [key |-> issue.key, category |-> t.category,
               points |-> t.points, sprint |-> sprint, versions |-> t.versions,
               pullRequests |-> t.pullRequests, active |-> a, moved |-> m]
        BY <4>1
      <4>4. QED
        BY <3>2, <3>6, <4>2, <4>3
    <3>8. /\ u = [key |-> issue.key, category |-> u.category, points |-> u.points, sprint |-> sprint,
                  versions |-> u.versions, pullRequests |-> u.pullRequests, active |-> u.active,
                  moved |-> u.moved]
          /\ u.pullRequests = t.pullRequests /\ u.active = a
      BY <3>7
    <3>9. Told(i)'
      BY <1>2, <3>3, <3>4, <3>5, <3>6, <3>8 DEF Told
    <3>10. Dated(issue, a, Datable(issue)')
      <4>1. issue \in Issues
        BY <1>3, <3>3, SiteIs
      <4>2. PICK real \in SUBSET issue.changes :
              /\ real = Real(tickets[i]) /\ \A e \in real : CountsAsReal(e)
              /\ site.names = "keys" /\ issue.key \notin shortened'
                 => \A e \in issue.changes : CountsAsReal(e) => e \in real
        BY <2>2, <3>3
      <4>3. PICK datable \in BOOLEAN : datable = Datable(issue)'
        BY DEF Datable
      <4>4. datable => /\ \A e \in issue.changes : CountsAsReal(e) => e \in real
                       /\ \A c, d \in issue.changes : c.at <= d.at => c.instant <= d.instant
        BY <1>2, <4>2, <4>3 DEF Datable
      <4>5. a = LatestAt(real)
        BY <3>1, <4>2
      <4>6. Dated(issue, LatestAt(real), datable)
        BY <4>1, <4>2, <4>4, DatedByReal
      <4>7. QED
        BY <4>3, <4>5, <4>6
    <3>11. QED
      BY <1>2, <3>3, <3>6, <3>8, <3>9, <3>10
  <2>4. /\ tickets' \in Seq(Range(tickets')) /\ Len(tickets') = Len(tickets)
        /\ DOMAIN tickets' = DOMAIN tickets
    <3>1. PICK n \in Nat : n = Len(tickets) /\ DOMAIN tickets = 1..n
      BY <1>3
    <3>2. DOMAIN tickets' = 1..n /\ tickets' = [i \in 1..n |-> tickets'[i]]
      BY <2>1, <3>1
    <3>3. \A i \in 1..n : tickets'[i] \in Range(tickets')
      BY <3>2 DEF Range
    <3>4. PICK all, some : all = tickets' /\ some = Range(tickets')
      OBVIOUS
    <3>5. all \in [1..n -> some]
      BY <3>2, <3>3, <3>4
    <3>6. all \in Seq(some) /\ Len(all) = n
      BY <3>5
    <3>7. tickets' \in Seq(Range(tickets')) /\ Len(tickets') = Len(tickets)
      BY <3>1, <3>4, <3>6, Zenon
    <3>8. DOMAIN tickets' = DOMAIN tickets
      BY <2>1
    <3>9. QED
      BY <3>7, <3>8
  <2>5. TicketsInv'
    <3>1. \A i \in DOMAIN tickets' : Told(i)'
      BY <2>3, <2>4
    <3>2. Len(tickets') <= Len(site'.issues)
      BY <1>2, <1>3, <2>4, SiteIs
    <3>3. phase' # "fields"
      BY <2>1
    <3>4. QED
      BY <2>4, <3>1, <3>2, <3>3 DEF TicketsInv
  <2>6. LogsInv'
    BY <1>2, <1>3, <2>1, <2>3, <2>4 DEF LogsInv
  <2>7. QED
    BY <1>6, <1>7, <2>5, <2>6 DEF JiraInv
<1>10. QED
  BY <1>8, <1>9

-----------------------------------------------------------------------------
LEMMA JiraStep == ASSUME JiraInv, [JiraNext]_jiraVars PROVE JiraInv'
<1>1. CASE FieldsAnswered \/ FieldsFailed
  BY <1>1, LookupKeeps
<1>2. CASE SearchAnswered
  BY <1>2, SearchKeeps
<1>3. CASE PageDone
  BY <1>3, PageKeeps
<1>4. CASE \E answer \in SUBSET Written : LogsAnswered(answer)
  BY <1>4, LogsKeep
<1>5. CASE \E answer \in Answers : SearchFailed(answer) \/ LogsFailed(answer)
  BY <1>5, SearchFailedKeeps, LogsFailedKeeps
<1>6. CASE \E w \in Workers :
           \/ Take(w) \/ SummaryAnswered(w) \/ SummaryUncounted(w) \/ PullsFailed(w)
           \/ /\ workers[w].at = "detail"
              /\ \E answer \in Excerpts(Asked(w)) : DetailAnswered(w, answer)
  BY <1>6, TakeKeeps, SummaryKeeps, UncountedKeeps, DetailKeeps, PullsFailedKeeps
<1>7. CASE UNCHANGED jiraVars
  <2>1. UNCHANGED <<site, phase, custom, tickets, page, next, workers, results, logs, asked,
                    error, broken, partial, shortened>>
    BY <1>7 DEF jiraVars
  <2>2. SyncInv'
    BY <2>1 DEF JiraInv, SyncInv, IdsOf
  <2>3. TicketsInv'
    BY <2>1, TicketsStay DEF JiraInv
  <2>4. PageInv'
    BY <2>1 DEF JiraInv, PageInv
  <2>5. WorkersInv'
    BY <2>1 DEF JiraInv, WorkersInv
  <2>6. LogsInv'
    <3>1. /\ \A i : LogName(site.issues[i])' = LogName(site.issues[i])
          /\ \A i : Datable(site.issues[i])' = Datable(site.issues[i])
      BY <2>1 DEF LogName, Datable
    <3>2. LogsInv
      BY DEF JiraInv
    <3>3. QED
      BY <2>1, <3>1, <3>2 DEF LogsInv
  <2>7. QED
    BY <2>2, <2>3, <2>4, <2>5, <2>6 DEF JiraInv
<1>8. QED
  BY <1>1, <1>2, <1>3, <1>4, <1>5, <1>6, <1>7 DEF JiraNext

LEMMA JiraInvariant == JiraSpec => []JiraInv
  BY InitJira, JiraStep, PTL DEF JiraSpec

\* The types of the sync's state; the key of a ticket is that of the issue at its place.
THEOREM JiraTypeTheorem == JiraSpec => []JiraTypeOK
<1>1. ASSUME JiraInv
      PROVE  JiraTypeOK
  <2>1. \A i \in DOMAIN tickets : tickets[i].key = site.issues[i].key
    BY <1>1, ToldIs DEF JiraInv, TicketsInv
  <2>2. QED
    BY <1>1, <2>1 DEF JiraInv, SyncInv, PageInv, WorkersInv, LogsInv, JiraTypeOK
<1>2. QED
  BY <1>1, JiraInvariant, PTL

\* The issue of a ticket is the one at its place, and the keys tell them apart.
LEMMA IssueOfTicket ==
    ASSUME JiraInv, NEW i \in DOMAIN tickets
    PROVE  i \in DOMAIN site.issues /\ Issue(tickets[i]) = site.issues[i]
<1>1. /\ site \in Sites /\ DOMAIN tickets = 1..Len(tickets) /\ Len(tickets) \in Nat
      /\ Len(tickets) <= Len(site.issues) /\ Told(i)
  BY DEF JiraInv, SyncInv, TicketsInv
<1>2. i \in DOMAIN site.issues
  BY <1>1, SiteIs
<1>3. tickets[i].key = site.issues[i].key
  BY <1>1, ToldIs
<1>4. \A x \in Range(site.issues) : x.key = site.issues[i].key <=> x = site.issues[i]
  BY <1>1, <1>2, SiteIs DEF Range
<1>5. site.issues[i] \in Range(site.issues)
  BY <1>2 DEF Range
<1>6. Issue(tickets[i]) = site.issues[i]
  BY <1>3, <1>4, <1>5 DEF Issue
<1>7. QED
  BY <1>2, <1>6

\* The pull requests of a ticket are the ones Jira holds for it, each once and in
\* order, or a request for them failed.
THEOREM PullRequestsTheorem == JiraSpec => []PullRequestsAreTheirs
<1>1. ASSUME JiraInv
      PROVE  PullRequestsAreTheirs
  <2>1. ASSUME NEW i \in DOMAIN tickets
        PROVE  Right(Issue(tickets[i]), tickets[i].pullRequests, broken, partial)
    <3>1. Told(i)
      BY <1>1 DEF JiraInv, TicketsInv
    <3>2. QED
      BY <1>1, <3>1, ToldIs, IssueOfTicket
  <2>2. QED
    BY <2>1 DEF PullRequestsAreTheirs, Right, Lists, InOrder
<1>2. QED
  BY <1>1, JiraInvariant, PTL

\* The sprint of a ticket and its age are what the site says, and a sync that fails
\* does so for the search, which names no field the site has not got.
THEOREM TicketsTheorem == JiraSpec => []TicketsTellTheSite
<1>1. ASSUME JiraInv
      PROVE  TicketsTellTheSite
  <2>1. site \in Sites
    BY <1>1 DEF JiraInv, SyncInv
  <2>2. ASSUME NEW i \in DOMAIN tickets
        PROVE  /\ SprintIsTold(SprintField(Issue(tickets[i]), custom), tickets[i].sprint)
               /\ phase = "done" /\ error = Nil
                  => Dated(Issue(tickets[i]), tickets[i].active, Datable(Issue(tickets[i])))
    <3>1. PICK issue, value : /\ issue = site.issues[i] /\ value = SprintField(issue, custom)
                              /\ i \in DOMAIN site.issues /\ issue = Issue(tickets[i])
      BY <1>1, IssueOfTicket
    <3>2. Told(i)
      BY <1>1 DEF JiraInv, TicketsInv
    <3>3. tickets[i].sprint = CurrentSprint(value)
      BY <3>1, <3>2, ToldIs
    <3>4. value \in Seq(Range(value))
      <4>1. CASE custom.sprint = Nil
        <5>1. value = << >>
          BY <3>1, <4>1 DEF SprintField
        <5>2. QED
          BY <5>1, EmptySeq
      <4>2. CASE custom.sprint # Nil
        <5>1. custom.sprint = SprintFieldId(site.fields)
          BY <1>1, <4>2 DEF JiraInv, SyncInv, IdsOf, NoIds
        <5>2. value = SprintField(issue, [sprint |-> SprintFieldId(site.fields)])
          BY <3>1, <5>1 DEF SprintField
        <5>3. issue \in Range(site.issues)
          BY <3>1 DEF Range
        <5>4. QED
          BY <2>1, <5>2, <5>3, SprintsAssumption
      <4>3. QED
        BY <4>1, <4>2
    <3>5. SprintIsTold(value, CurrentSprint(value))
      BY <3>4, SprintTold
    <3>6. phase = "done" /\ error = Nil => Dated(issue, tickets[i].active, Datable(issue))
      BY <1>1, <3>1 DEF JiraInv, LogsInv
    <3>7. QED
      BY <3>1, <3>3, <3>5, <3>6
  <2>3. ColumnsCannotFailTheLane
    BY <1>1 DEF JiraInv, SyncInv, ColumnsCannotFailTheLane
  <2>4. QED
    BY <2>2, <2>3 DEF TicketsTellTheSite, SprintIsTold, Dated
<1>2. QED
  BY <1>1, JiraInvariant, PTL

-----------------------------------------------------------------------------
(* The whole console: each part takes its own steps or none.               *)
HIDE JiraAssumption

\* A behaviour of the console is one of each of its parts.
LEMMA ConsoleHasParts ==
    ConsoleSpec => /\ SessionsSpec /\ PostsSpec /\ HistorySpec /\ LauncherSpec /\ StoresSpec
                   /\ HandshakeSpec /\ JiraSpec
<1>1. ConsoleInit => /\ Init /\ PostsInit /\ HistoryInit /\ LauncherInit /\ StoresInit
                     /\ HandshakeInit /\ JiraInit
  BY DEF ConsoleInit
<1>2. ASSUME [ConsoleNext]_consoleVars
      PROVE  /\ [SessionsNext]_vars /\ [PostsNext]_postsVars /\ [HistoryNext]_historyVars
             /\ [LauncherNext]_launcherVars /\ [StoresNext]_storesVars
             /\ [HandshakeNext]_handshakeVars /\ [JiraNext]_jiraVars
  <2>1. CASE UNCHANGED consoleVars
    BY <2>1 DEF consoleVars
  <2>2. CASE ConsoleNext
    <3>1. \/ SessionsNext \/ UNCHANGED vars
      BY <2>2 DEF ConsoleNext
    <3>2. \/ PostsNext \/ UNCHANGED postsVars
      BY <2>2 DEF ConsoleNext
    <3>3. \/ HistoryNext \/ UNCHANGED historyVars
      BY <2>2 DEF ConsoleNext
    <3>4. \/ LauncherNext \/ UNCHANGED launcherVars
      BY <2>2 DEF ConsoleNext
    <3>5. \/ StoresNext \/ UNCHANGED storesVars
      BY <2>2 DEF ConsoleNext
    <3>6. \/ HandshakeNext \/ UNCHANGED handshakeVars
      BY <2>2 DEF ConsoleNext
    <3>7. \/ JiraNext \/ UNCHANGED jiraVars
      BY <2>2 DEF ConsoleNext
    <3>8. QED
      BY <3>1, <3>2, <3>3, <3>4, <3>5, <3>6, <3>7
  <2>3. QED
    BY <1>2, <2>1, <2>2
<1>3. QED
  BY <1>1, <1>2, PTL DEF ConsoleSpec, SessionsSpec, PostsSpec, HistorySpec, LauncherSpec,
                         StoresSpec, HandshakeSpec, JiraSpec

\* The types of all that the console keeps.
THEOREM ConsoleTypeTheorem == ConsoleSpec => []ConsoleTypeOK
<1>1. /\ SessionsTypeOK /\ PostsTypeOK /\ HistoryTypeOK /\ LauncherTypeOK /\ StoresTypeOK
      /\ HandshakeTypeOK /\ JiraTypeOK
      => ConsoleTypeOK
  BY DEF ConsoleTypeOK
<1>2. QED
  BY <1>1, ConsoleHasParts, SessionsTypeTheorem, PostsTypeTheorem, HistoryTypeTheorem,
     LauncherTypeTheorem, StoresTypeTheorem, HandshakeTypeTheorem, JiraTypeTheorem, PTL

=============================================================================
