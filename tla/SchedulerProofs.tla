--------------------------- MODULE SchedulerProofs ---------------------------
(***************************************************************************)
(* The promises of the poll loop, for any number of connections, any       *)
(* delays, and any requests of others.  The bounds come from counting: a   *)
(* run of the loop takes at most RunTime, and a pass polls each target at  *)
(* most once, so that what it has left to consider bounds what it has      *)
(* spent.                                                                  *)
(***************************************************************************)
EXTENDS Scheduler, SequenceTheorems, TLAPS

N == Len(Conns)

\* The time that k polls may take.
Span(k) == k * RunTime

Own == runs["scheduler"]

\* What an entry may wait for at most.
Ceiling(entry) ==
    IF entry.failures = 0 \/ Interval > MaxBackoff THEN Interval ELSE MaxBackoff

\* The ids the pass has still to consider, or is polling.
Ahead == ToSet(todo) \cup (IF Own = Idle THEN {} ELSE {Own.scope})

\* From the end of one pass to the beginning of the next.
Pause == TickTime + Outage

\* The polls that those behind may have waited for in this pass.
Behind ==
    IF Own = Idle THEN Span(N - 1 - Len(todo)) ELSE Span(N - 2 - Len(todo)) + Own.age

\* Between passes nothing is left over of the last one; in a pass, what it has taken
\* is accounted for by the ids that are no longer ahead.
PassAccounted ==
    /\ timer # Idle => Own = Idle /\ lag = 0 /\ todo = << >>
    /\ timer = Idle =>
        /\ spare = Outage
        /\ Own # Idle => Own.scope \in kinds /\ Len(todo) < N
        /\ Len(todo) <= N
        /\ Ids \subseteq Ahead \/ Behind >= 0
        /\ lag <= Behind + RunTime

\* How long ago an id was polled or refreshed: those ahead have waited since the last
\* pass, and those behind were found not due or were polled in this one.
AgesBounded ==
    \A c \in Ids : entries[c].age # Never =>
        LET least == Ceiling(entries[c]) - 1 IN
        IF timer # Idle THEN entries[c].age <= least + Span(N - 1) + Pause - timer - spare
        ELSE IF c \in Ahead THEN entries[c].age <= least + Span(N - 1) + Pause + lag
        ELSE entries[c].age <= least + Behind

\* An entry whose last attempt succeeded is of a refresh that reached the mirror.
SuccessRecorded ==
    \A c \in Bound : entries[c].age # Never /\ entries[c].failures = 0 =>
        data[c] # Never /\ data[c] <= entries[c].age + RunTime

\* What the poller has seen of an id is in its entry, too.
SeenInEntry ==
    \A c \in Ids : entries[c].age # Never =>
        quiet[c] >= entries[c].age \/ quiet[c] >= Interval

PollInv ==
    SchedulerTypeOK /\ PassAccounted /\ AgesBounded /\ SuccessRecorded /\ SeenInEntry

-----------------------------------------------------------------------------
(* Numbers.                                                                *)

USE SchedulerAssumption

LEMMA Lengths ==
    /\ N \in Nat /\ (Ids # {} => N >= 1)
    /\ Interval \in Nat \ {0} /\ TickTime \in Nat \ {0} /\ RunTime \in Nat \ {0}
    /\ MaxDoublings \in Nat \ {0} /\ MaxBackoff \in Nat \ {0}
    /\ Outage \in Nat /\ Pause \in Nat
<1>1. N \in Nat
  BY LenProperties DEF N
<1>2. Conns \in Seq(Ids) /\ DOMAIN Conns = 1..N
  BY LenProperties DEF N
<1>3. Ids # {} => N >= 1
  BY <1>1, <1>2 DEF Ids, ToSet
<1>4. QED
  BY <1>1, <1>3 DEF Pause

\* Polls take RunTime each.
LEMMA Spans ==
    /\ \A k \in Int : Span(k) \in Int
    /\ \A j, k \in Int : j <= k => Span(j) <= Span(k)
    /\ Span(0) = 0
<1>1. RunTime \in Nat
  BY Lengths
<1>2. \A j, k \in Int : j <= k => (k - j) * RunTime \in Nat /\ k * RunTime = j * RunTime + (k - j) * RunTime
  BY <1>1
<1>3. \A j, k \in Int : j <= k => Span(j) <= Span(k)
  BY <1>1, <1>2 DEF Span
<1>4. QED
  BY <1>1, <1>3 DEF Span

LEMMA NextSpan == ASSUME NEW k \in Int PROVE Span(k) = Span(k - 1) + RunTime
  BY Lengths DEF Span

\* The spans that bounds speak of.
LEMMA WholeSpans ==
    ASSUME N >= 1
    PROVE  /\ Span(N) \in Nat /\ Span(N - 1) \in Nat /\ Span(N - 2) \in Int
           /\ Span(N) = Span(N - 1) + RunTime /\ Span(N - 1) = Span(N - 2) + RunTime
<1>1. N \in Int /\ N - 1 \in Int /\ N - 2 \in Int /\ 0 \in Int /\ 0 <= N /\ 0 <= N - 1
  BY Lengths
<1> DEFINE one == N - 1
           two == N - 2
<1>2. one \in Int /\ two \in Int /\ 0 <= one
  BY <1>1
<1> HIDE DEF one, two
<1>3. /\ Span(N) \in Int /\ Span(one) \in Int /\ Span(two) \in Int /\ Span(0) = 0
      /\ Span(0) <= Span(N) /\ Span(0) <= Span(one)
  BY <1>1, <1>2, Spans
<1> USE DEF one, two
<1>4. Span(N) = Span(N - 1) + RunTime
  BY <1>1, NextSpan
<1>5. Span(N - 1) = Span(N - 1 - 1) + RunTime
  BY <1>1, NextSpan
<1>6. N - 1 - 1 = N - 2
  BY <1>1
<1>7. QED
  BY <1>1, <1>3, <1>4, <1>5, <1>6

\* What is left of the polls of a pass.
LEMMA LeftSpans ==
    ASSUME NEW left \in Nat, left <= N
    PROVE  /\ Span(N - 1 - left) \in Int /\ Span(N - 1 - left) <= Span(N - 1)
           /\ Span(N - 2 - left) \in Int
           /\ Span(N - 1 - left) = Span(N - 2 - left) + RunTime
           /\ left < N => Span(N - 1 - left) >= 0
           /\ left = N => Span(N - 1 - left) = -RunTime
<1>1. N \in Nat /\ N - 1 \in Int /\ N - 1 - left \in Int /\ N - 2 - left \in Int
  BY Lengths
<1>2. Span(N - 1 - left) \in Int /\ Span(N - 2 - left) \in Int
  BY <1>1, Spans
<1>3. Span(N - 1 - left) <= Span(N - 1)
  <2>1. N - 1 - left <= N - 1
    BY <1>1
  <2>2. QED
    BY <1>1, <2>1, Spans
<1>4. Span(N - 1 - left) = Span(N - 1 - left - 1) + RunTime
  BY <1>1, NextSpan
<1>5. N - 1 - left - 1 = N - 2 - left
  BY <1>1
<1>6. left < N => Span(N - 1 - left) >= 0
  <2>1. left < N => 0 <= N - 1 - left
    BY <1>1
  <2>2. left < N => Span(0) <= Span(N - 1 - left)
    BY <1>1, <2>1, Spans
  <2>3. QED
    BY <1>2, <2>2, Spans
<1>7. left = N => Span(N - 1 - left) = -RunTime
  <2>1. N - 1 - N = -1 /\ Span(-1) = -RunTime
    BY <1>1, Lengths DEF Span
  <2>2. QED
    BY <2>1
<1>8. QED
  BY <1>2, <1>3, <1>4, <1>5, <1>6, <1>7

\* The cap of the ages is beyond what they are bounded by.
LEMMA CapIsBeyond ==
    ASSUME NEW entry \in Entry, Ids # {}
    PROVE  /\ Ceiling(entry) \in Nat \ {0}
           /\ MaxWait \in Nat /\ AgeCap = MaxWait + 1
           /\ Ceiling(entry) + Pause + Span(N - 1) + Span(N) <= MaxWait
<1>1. /\ N \in Nat /\ N >= 1 /\ Interval \in Nat \ {0} /\ TickTime \in Nat \ {0}
      /\ RunTime \in Nat \ {0} /\ MaxBackoff \in Nat \ {0} /\ Pause \in Nat
  BY Lengths
<1>2. (2 * N - 1) * RunTime = Span(N - 1) + Span(N) /\ (2 * N - 1) * RunTime \in Nat
  BY <1>1 DEF Span
<1>3. Span(N - 1) \in Int /\ Span(N) \in Int
  BY <1>1, Spans
<1>4. MaxWait = (IF Interval > MaxBackoff THEN Interval ELSE MaxBackoff) + Pause
                 + (2 * N - 1) * RunTime
  <2>1. /\ TickTime \in Nat /\ Outage \in Nat /\ (2 * N - 1) * RunTime \in Nat
        /\ MaxBackoff \in Nat /\ Interval \in Nat
    BY <1>1, <1>2, Lengths
  <2>2. QED
    BY <2>1 DEF MaxWait, Pause, N
<1>5. QED
  <2> DEFINE wait == (2 * N - 1) * RunTime
  <2>1. wait \in Nat /\ wait = Span(N - 1) + Span(N)
    BY <1>2
  <2>2. MaxWait = (IF Interval > MaxBackoff THEN Interval ELSE MaxBackoff) + Pause + wait
    BY <1>4
  <2> HIDE DEF wait
  <2>3. QED
    BY <1>1, <1>3, <2>1, <2>2 DEF Ceiling, AgeCap

\* The wait between polls is within its ceiling.
LEMMA DelayBounded ==
    ASSUME NEW entry \in Entry
    PROVE  Delay(entry) \in Int /\ Delay(entry) <= Ceiling(entry)
<1>1. /\ Interval \in Nat \ {0} /\ MaxDoublings \in Nat \ {0} /\ MaxBackoff \in Nat \ {0}
      /\ entry.failures \in Nat
  BY Lengths DEF Entry
<1>2. Least(entry.failures, MaxDoublings) \in Nat
  BY <1>1 DEF Least
<1>3. 2 ^ Least(entry.failures, MaxDoublings) \in Int
  BY <1>2
<1>4. Interval * 2 ^ Least(entry.failures, MaxDoublings) \in Int
  BY <1>1, <1>3
<1>5. QED
  BY <1>1, <1>4 DEF Delay, Ceiling, Least

-----------------------------------------------------------------------------
(* What the invariant says of one id, one entry and one run.               *)

\* What is in the entries and in the runs.
LEMMA Parts ==
    ASSUME SchedulerTypeOK
    PROVE  /\ \A c \in Ids : /\ entries[c] \in Entry /\ entries[c].failures \in Nat
                             /\ entries[c].age \in Nat \cup {Never}
                             /\ quiet[c] \in 0..Interval
                             /\ entries[c].age # Never => c \in kinds
           /\ \A who \in Callers : runs[who] # Idle =>
                /\ runs[who] \in Run /\ runs[who].age \in 0..RunTime
                /\ runs[who].scope \in Ids \cup {Everything}
           /\ Own \in Run \cup {Idle}
           /\ todo \in Seq(Ids) /\ Len(todo) \in Nat /\ lag \in Nat /\ lag <= Span(N)
           /\ timer # Idle => timer \in Nat /\ timer <= TickTime
           /\ spare \in Nat /\ spare <= Outage /\ (timer # Idle => timer + spare <= Pause)
           /\ \A c \in Bound : data[c] \in Nat \cup {Never} /\ c \in Ids
<1>1. Len(todo) \in Nat /\ N \in Nat /\ Len(Conns) = N
  BY Lengths, LenProperties DEF SchedulerTypeOK, N
<1>2. lag \in Nat /\ lag <= Span(N)
  BY <1>1, Lengths DEF SchedulerTypeOK, Span
<1>3. ASSUME NEW c \in Ids
      PROVE  /\ entries[c] \in Entry /\ entries[c].failures \in Nat
             /\ entries[c].age \in Nat \cup {Never}
             /\ quiet[c] \in 0..Interval
             /\ entries[c].age # Never => c \in kinds
  BY DEF SchedulerTypeOK, Entry, NewEntry
<1>4. ASSUME NEW who \in Callers, runs[who] # Idle
      PROVE  /\ runs[who] \in Run /\ runs[who].age \in 0..RunTime
             /\ runs[who].scope \in Ids \cup {Everything}
  BY <1>4 DEF SchedulerTypeOK, Run
<1>5. Own \in Run \cup {Idle}
  BY DEF SchedulerTypeOK, Callers, Own
<1>6. /\ timer # Idle => timer \in Nat /\ timer <= TickTime
      /\ spare \in Nat /\ spare <= Outage /\ (timer # Idle => timer + spare <= Pause)
  BY Lengths DEF SchedulerTypeOK, Pause
<1>7. \A c \in Bound : data[c] \in Nat \cup {Never} /\ c \in Ids
  BY DEF SchedulerTypeOK
<1>8. QED
  BY <1>1, <1>2, <1>3, <1>4, <1>5, <1>6, <1>7 DEF SchedulerTypeOK

\* The time those behind may have waited.
LEMMA BehindBounded ==
    ASSUME SchedulerTypeOK, PassAccounted, timer = Idle
    PROVE  /\ Behind \in Int /\ Behind <= Span(N - 1) /\ Behind + RunTime <= Span(N)
           /\ Own # Idle => Own.age \in Nat /\ Own.age <= RunTime /\ Len(todo) < N
<1>1. N \in Nat /\ Len(todo) \in Nat /\ Len(todo) <= N /\ RunTime \in Nat
  BY Lengths, Parts DEF PassAccounted
<1>2. Span(N - 1) \in Int /\ Span(N) \in Int /\ Span(N) = Span(N - 1) + RunTime
  <2>1. N \in Int /\ N - 1 \in Int
    BY <1>1
  <2>2. Span(N - 1) \in Int /\ Span(N) \in Int
    BY <2>1, Spans
  <2>3. Span(N) = Span(N - 1) + RunTime
    BY <2>1, NextSpan
  <2>4. QED
    BY <2>2, <2>3
<1>3. /\ Span(N - 1 - Len(todo)) \in Int /\ Span(N - 1 - Len(todo)) <= Span(N - 1)
      /\ Span(N - 2 - Len(todo)) \in Int
      /\ Span(N - 1 - Len(todo)) = Span(N - 2 - Len(todo)) + RunTime
  BY <1>1, LeftSpans
<1>5. Own # Idle => Own.age \in Nat /\ Own.age <= RunTime /\ Len(todo) < N
  BY <1>1, Parts DEF PassAccounted, Own, Callers
<1>6. CASE Own = Idle
  BY <1>1, <1>2, <1>3, <1>6 DEF Behind
<1>7. CASE Own # Idle
  <2>1. Behind = Span(N - 2 - Len(todo)) + Own.age
    BY <1>7 DEF Behind
  <2>2. Own.age \in Nat /\ Own.age <= RunTime /\ Len(todo) < N
    BY <1>5, <1>7
  <2>3. Behind \in Int /\ Behind <= Span(N - 1 - Len(todo))
    BY <1>1, <1>3, <2>1, <2>2
  <2>4. QED
    BY <1>1, <1>2, <1>3, <2>2, <2>3
<1>8. QED
  BY <1>6, <1>7

\* No id waits for longer than its ceiling, the pass that missed it, a tick, and the
\* pass that polls it.
LEMMA WithinCeiling ==
    ASSUME SchedulerTypeOK, PassAccounted, AgesBounded, NEW c \in Ids, entries[c].age # Never
    PROVE  /\ entries[c].age \in Nat /\ Ceiling(entries[c]) \in Nat
           /\ Span(N - 1) \in Nat /\ Span(N) \in Nat
           /\ entries[c].age <= Ceiling(entries[c]) - 1 + Pause + Span(N - 1) + Span(N)
<1>1. /\ entries[c].age \in Nat /\ entries[c] \in Entry
      /\ lag \in Nat /\ lag <= Span(N)
      /\ timer # Idle => timer \in Nat
      /\ spare \in Nat
  BY Parts
<1>2. Ceiling(entries[c]) \in Nat \ {0}
  BY <1>1, CapIsBeyond
<1>3. Pause \in Nat /\ RunTime \in Nat /\ Span(N - 1) \in Nat /\ Span(N) \in Nat
  BY Lengths, WholeSpans
<1>4. CASE timer # Idle
  <2>1. entries[c].age <= Ceiling(entries[c]) - 1 + Span(N - 1) + Pause - timer - spare
    BY <1>4 DEF AgesBounded
  <2>2. timer \in Nat
    BY <1>1, <1>4
  <2>3. QED
    BY <1>1, <1>2, <1>3, <2>1, <2>2
<1>5. CASE timer = Idle /\ c \in Ahead
  <2>1. entries[c].age <= Ceiling(entries[c]) - 1 + Span(N - 1) + Pause + lag
    BY <1>5 DEF AgesBounded
  <2>2. QED
    BY <1>1, <1>2, <1>3, <2>1
<1>6. CASE timer = Idle /\ c \notin Ahead
  <2>1. Behind \in Int /\ Behind <= Span(N - 1)
    BY <1>6, BehindBounded
  <2>2. entries[c].age <= Ceiling(entries[c]) - 1 + Behind
    BY <1>6 DEF AgesBounded
  <2>3. QED
    BY <1>1, <1>2, <1>3, <2>1, <2>2
<1>7. QED
  BY <1>1, <1>2, <1>3, <1>4, <1>5, <1>6

\* So no age is at its cap.
LEMMA WithinWait ==
    ASSUME SchedulerTypeOK, PassAccounted, AgesBounded, NEW c \in Ids, entries[c].age # Never
    PROVE  entries[c].age \in Nat /\ entries[c].age <= MaxWait /\ MaxWait \in Nat
<1>1. /\ entries[c].age \in Nat /\ Ceiling(entries[c]) \in Nat
      /\ Span(N - 1) \in Nat /\ Span(N) \in Nat /\ Pause \in Nat
      /\ entries[c].age <= Ceiling(entries[c]) - 1 + Pause + Span(N - 1) + Span(N)
  BY WithinCeiling, Lengths
<1>2. MaxWait \in Nat /\ Ceiling(entries[c]) + Pause + Span(N - 1) + Span(N) <= MaxWait
  BY Parts, CapIsBeyond
<1>3. QED
  BY <1>1, <1>2

\* An attempt restarts the clock, and counts unless it succeeded.
LEMMA AttemptedEntry ==
    ASSUME NEW entry \in Entry, NEW ok \in BOOLEAN, Ids # {}
    PROVE  /\ Attempted(entry, ok) \in Entry /\ Attempted(entry, ok).age = 0
           /\ Attempted(entry, ok).failures = 0 => ok
<1>1. 0 \in 0..AgeCap
  BY CapIsBeyond
<1>2. MaxDoublings \in Nat \ {0} /\ entry.failures \in 0..MaxDoublings
  BY Lengths DEF Entry
<1>3. Least(entry.failures + 1, MaxDoublings) \in 1..MaxDoublings
  BY <1>2 DEF Least
<1>4. QED
  BY <1>1, <1>2, <1>3 DEF Attempted, Entry

-----------------------------------------------------------------------------
(* What leaves the pass where it is.                                       *)

\* An entry that was just refreshed is within every bound.
LEMMA RefreshedWithin ==
    ASSUME PollInv, NEW c \in kinds, NEW entry \in Entry
    PROVE  LET least == Ceiling(entry) - 1 IN
           IF timer # Idle THEN 0 <= least + Span(N - 1) + Pause - timer - spare
           ELSE IF c \in Ahead THEN 0 <= least + Span(N - 1) + Pause + lag
           ELSE 0 <= least + Behind
<1>1. c \in Ids
  BY DEF PollInv, SchedulerTypeOK
<1>2. Ceiling(entry) \in Nat \ {0} /\ N \in Nat /\ N >= 1 /\ Pause \in Nat
  BY <1>1, CapIsBeyond, Lengths
<1>3. Span(N - 1) \in Nat
  BY <1>2, WholeSpans
<1>4. /\ lag \in Nat /\ spare \in Nat
      /\ timer # Idle => timer \in Nat /\ timer + spare <= Pause
  BY Parts DEF PollInv
<1>5. timer = Idle => Behind \in Int /\ (c \notin Ahead => Behind >= 0)
  BY <1>1, BehindBounded DEF PollInv, PassAccounted
<1>6. CASE timer # Idle
  <2>1. 0 <= Ceiling(entry) - 1 + Span(N - 1) + Pause - timer - spare
    BY <1>2, <1>3, <1>4, <1>6
  <2>2. QED
    BY <2>1, <1>6
<1>7. CASE timer = Idle /\ c \in Ahead
  <2>1. 0 <= Ceiling(entry) - 1 + Span(N - 1) + Pause + lag
    BY <1>2, <1>3, <1>4
  <2>2. QED
    BY <2>1, <1>7
<1>8. CASE timer = Idle /\ c \notin Ahead
  <2>1. 0 <= Ceiling(entry) - 1 + Behind
    BY <1>2, <1>5, <1>8
  <2>2. QED
    BY <2>1, <1>8
<1>9. QED
  BY <1>6, <1>7, <1>8

\* A step that does not move the pass may refresh entries.
LEMMA PassStays ==
    ASSUME PollInv, UNCHANGED <<kinds, timer, spare, todo, lag>>, Own' = Own,
           \A c \in Ids : \/ entries'[c] = entries[c]
                          \/ c \in kinds /\ entries'[c] \in Entry /\ entries'[c].age = 0
    PROVE  PassAccounted' /\ AgesBounded'
<1>1. Ahead' = Ahead /\ Behind' = Behind
  BY DEF Ahead, Behind, ToSet
<1>2. PassAccounted'
  BY <1>1 DEF PollInv, PassAccounted
<1>3. ASSUME NEW c \in Ids, entries'[c].age # Never
      PROVE  LET least == Ceiling(entries'[c]) - 1 IN
             IF timer # Idle THEN entries'[c].age <= least + Span(N - 1) + Pause - timer - spare
             ELSE IF c \in Ahead THEN entries'[c].age <= least + Span(N - 1) + Pause + lag
             ELSE entries'[c].age <= least + Behind
  <2>1. CASE entries'[c] = entries[c]
    BY <1>3, <2>1 DEF PollInv, AgesBounded
  <2>2. CASE c \in kinds /\ entries'[c] \in Entry /\ entries'[c].age = 0
    BY <2>2, RefreshedWithin
  <2>3. QED
    BY <2>1, <2>2
<1>4. AgesBounded'
  BY <1>1, <1>3 DEF AgesBounded
<1>5. QED
  BY <1>2, <1>4

\* A poll that is over leaves more to those behind than they have waited.
LEMMA PollOver ==
    ASSUME PollInv, Own # Idle, Own' = Idle, UNCHANGED <<kinds, timer, spare, todo, lag>>,
           \A c \in Ids : \/ c # Own.scope /\ entries'[c] = entries[c]
                          \/ c = Own.scope /\ entries'[c] \in Entry /\ entries'[c].age = 0
    PROVE  PassAccounted' /\ AgesBounded'
<1> DEFINE left == Len(todo)
           after == Span(N - 1 - left)
<1>1. timer = Idle
  BY DEF PollInv, PassAccounted
<1>2. /\ left \in Nat /\ N \in Nat /\ RunTime \in Nat /\ Pause \in Nat
      /\ lag \in Nat
  BY Lengths, Parts DEF PollInv
<1>3. Behind = Span(N - 2 - left) + Own.age /\ Own.age \in Nat /\ Own.age <= RunTime /\ left < N
  BY <1>1, BehindBounded DEF PollInv, Behind
<1>4. /\ after \in Int /\ after >= 0 /\ Span(N - 2 - left) \in Int
      /\ after = Span(N - 2 - left) + RunTime
  BY <1>2, <1>3, LeftSpans
<1>5. Behind' = after /\ Ahead' = ToSet(todo) /\ Ahead = ToSet(todo) \cup {Own.scope}
  BY DEF Behind, Ahead, ToSet
<1>6. Span(N - 1) \in Nat
  BY <1>2, <1>3, WholeSpans
<1> HIDE DEF left, after
<1>7. Behind <= after /\ Behind \in Int
  BY <1>2, <1>3, <1>4
<1>8. PassAccounted'
  <2>1. left' = left /\ left <= N
    BY <1>2, <1>3 DEF left
  <2>2. lag <= Behind + RunTime
    BY <1>1 DEF PollInv, PassAccounted
  <2>3. lag <= after + RunTime
    BY <1>2, <1>4, <1>7, <2>2
  <2>4. spare' = Outage
    BY <1>1 DEF PollInv, PassAccounted
  <2>5. QED
    BY <1>1, <1>4, <1>5, <2>1, <2>3, <2>4 DEF PassAccounted, left
<1>9. ASSUME NEW c \in Ids, entries'[c].age # Never
      PROVE  LET least == Ceiling(entries'[c]) - 1 IN
             IF c \in ToSet(todo) THEN entries'[c].age <= least + Span(N - 1) + Pause + lag
             ELSE entries'[c].age <= least + after
  <2>1. CASE c = Own.scope
    <3>1. entries'[c].age = 0 /\ Ceiling(entries'[c]) \in Nat \ {0}
      BY <2>1, CapIsBeyond
    <3>2. 0 <= Ceiling(entries'[c]) - 1 + Span(N - 1) + Pause + lag
      BY <1>2, <1>6, <3>1
    <3>3. 0 <= Ceiling(entries'[c]) - 1 + after
      BY <1>4, <3>1
    <3>4. QED
      BY <3>1, <3>2, <3>3
  <2>2. CASE c # Own.scope
    <3>1. entries'[c] = entries[c] /\ entries[c].age \in Nat /\ Ceiling(entries[c]) \in Nat \ {0}
      BY <1>9, <2>2, Parts, CapIsBeyond DEF PollInv
    <3>2. IF c \in ToSet(todo)
          THEN entries[c].age <= Ceiling(entries[c]) - 1 + Span(N - 1) + Pause + lag
          ELSE entries[c].age <= Ceiling(entries[c]) - 1 + Behind
      BY <1>1, <1>5, <1>9, <2>2, <3>1 DEF PollInv, AgesBounded
    <3>3. QED
      BY <1>4, <1>7, <3>1, <3>2
  <2>3. QED
    BY <2>1, <2>2
<1>10. AgesBounded'
  BY <1>1, <1>5, <1>9 DEF AgesBounded
<1>11. QED
  BY <1>8, <1>10

-----------------------------------------------------------------------------
(* The ends of runs.                                                       *)

LEMMA BegunRun ==
    ASSUME NEW scope \in Ids \cup {Everything}
    PROVE  Begun(scope) \in Run /\ Begun(scope).scope = scope /\ Begun(scope).age = 0
<1>1. 0 \in 0..RunTime
  BY Lengths
<1>2. QED
  BY <1>1 DEF Begun, Run

\* A run that ends writes down what it found, and the entries it is seen in are
\* attempted.
LEMMA Refreshed ==
    ASSUME PollInv, NEW who \in Callers, runs[who] # Idle, NEW ends \in Outcomes(runs[who]),
           Recorded(runs[who], ends), NEW ids \in SUBSET kinds,
           \A c \in ids : Covers(runs[who], c),
           entries' = [c \in Ids |-> IF c \in ids THEN Attempted(entries[c], Succeeded(ends, c))
                                     ELSE entries[c]],
           Seen(ids), kinds' = kinds
    PROVE  /\ entries' \in [Ids -> Entry] /\ \A c \in Ids \ kinds : entries'[c] = NewEntry
           /\ data' \in [Bound -> (0..DataCap) \cup {Never}] /\ quiet' \in [Ids -> 0..Interval]
           /\ \A c \in ids : c \in kinds /\ entries'[c] \in Entry /\ entries'[c].age = 0
           /\ \A c \in Ids \ ids : entries'[c] = entries[c]
           /\ SuccessRecorded' /\ SeenInEntry'
<1>1. /\ RunTime \in Nat \ {0} /\ Interval \in Nat \ {0} /\ DataCap \in Nat
      /\ runs[who].age \in 0..RunTime
      /\ kinds \subseteq Ids /\ SchedulerTypeOK
  BY Lengths, Parts DEF PollInv, SchedulerTypeOK, DataCap, StaleAfter
<1>2. Least(runs[who].age, DataCap) \in 0..DataCap /\ Least(runs[who].age, DataCap) <= RunTime
  BY <1>1 DEF Least
<1>3. ASSUME NEW c \in ids
      PROVE  /\ entries'[c] \in Entry /\ entries'[c].age = 0
             /\ entries'[c].failures = 0 => Succeeded(ends, c)
  <2>1. c \in Ids /\ entries[c] \in Entry
    BY <1>1, Parts
  <2>2. Succeeded(ends, c) \in BOOLEAN
    BY DEF Succeeded
  <2>3. entries'[c] = Attempted(entries[c], Succeeded(ends, c))
    BY <2>1
  <2>4. QED
    BY <2>1, <2>2, <2>3, AttemptedEntry
<1>4. \A c \in Ids \ ids : entries'[c] = entries[c]
  OBVIOUS
<1>5. entries' \in [Ids -> Entry]
  BY <1>1, <1>3, <1>4, Parts
<1>6. \A c \in Ids \ kinds : entries'[c] = NewEntry
  BY <1>1, <1>4 DEF SchedulerTypeOK
<1>7. \A c \in Bound : data'[c] = IF c \in Replaced(ends) THEN Least(runs[who].age, DataCap)
                                  ELSE data[c]
  BY DEF Recorded
<1>8. data' \in [Bound -> (0..DataCap) \cup {Never}]
  BY <1>1, <1>2 DEF Recorded, SchedulerTypeOK
<1>9. quiet' \in [Ids -> 0..Interval]
  BY <1>1 DEF Seen, SchedulerTypeOK
<1>10. SuccessRecorded'
  <2>1. ASSUME NEW c \in Bound, entries'[c].age # Never, entries'[c].failures = 0
        PROVE  data'[c] # Never /\ data'[c] <= entries'[c].age + RunTime
    <3>1. c \in Ids /\ entries'[c].age \in Nat
      BY <1>1, <1>5, <2>1, Parts DEF Entry
    <3>2. CASE c \in Replaced(ends)
      BY <1>1, <1>2, <1>7, <3>1, <3>2
    <3>3. CASE c \notin Replaced(ends) /\ c \in ids
      <4>1. DOMAIN ends = {x \in Bound : Covers(runs[who], x)} /\ Succeeded(ends, c)
        BY <1>3, <2>1, <3>3 DEF Outcomes
      <4>2. c \in Replaced(ends)
        BY <3>3, <4>1 DEF Succeeded, Replaced
      <4>3. QED
        BY <3>3, <4>2
    <3>4. CASE c \notin Replaced(ends) /\ c \notin ids
      BY <1>4, <1>7, <2>1, <3>1, <3>4 DEF PollInv, SuccessRecorded
    <3>5. QED
      BY <3>2, <3>3, <3>4
  <2>2. QED
    BY <2>1 DEF SuccessRecorded
<1>11. SeenInEntry'
  <2>1. ASSUME NEW c \in Ids, entries'[c].age # Never
        PROVE  quiet'[c] >= entries'[c].age \/ quiet'[c] >= Interval
    <3>1. CASE c \in ids
      <4>1. quiet'[c] = 0
        BY <3>1 DEF Seen
      <4>2. entries'[c].age = 0
        BY <1>3, <3>1
      <4>3. QED
        BY <4>1, <4>2
    <3>2. CASE c \notin ids
      <4>1. entries'[c] = entries[c] /\ quiet'[c] = quiet[c]
        BY <1>4, <3>2 DEF Seen
      <4>2. QED
        BY <2>1, <4>1 DEF PollInv, SeenInEntry
    <3>3. QED
      BY <3>1, <3>2
  <2>2. QED
    BY <2>1 DEF SeenInEntry
<1>12. QED
  BY <1>3, <1>4, <1>5, <1>6, <1>8, <1>9, <1>10, <1>11

\* What nobody touches is as it was.
LEMMA RecordsStay ==
    ASSUME PollInv, UNCHANGED <<entries, data, quiet>>
    PROVE  SuccessRecorded' /\ SeenInEntry'
  BY DEF PollInv, SuccessRecorded, SeenInEntry

\* A run by others begins, whatever it covers.
LEMMA AsksKeeps ==
    ASSUME PollInv, NEW ask \in Asked, Asks(ask[1], ask[2])
    PROVE  PollInv'
<1>1. ask[1] \in {"window", "agent"} /\ ask[2] \in Ids \cup {Everything}
  OBVIOUS
<1>2. runs' \in [Callers -> Run \cup {Idle}] /\ Own' = Own
  BY <1>1, BegunRun DEF Asks, PollInv, SchedulerTypeOK, Callers, Own
<1>3. SchedulerTypeOK'
  BY <1>2 DEF PollInv, SchedulerTypeOK, Asks, schedVars
<1>4. PassAccounted' /\ AgesBounded' /\ SuccessRecorded' /\ SeenInEntry'
  BY <1>2, PassStays, RecordsStay DEF Asks, schedVars
<1>5. QED
  BY <1>3, <1>4 DEF PollInv

\* Connections come and go without the poller.
LEMMA EditKeeps == ASSUME PollInv, NEW c \in Ids, Edit(c) PROVE PollInv'
<1>1. SchedulerTypeOK'
  BY DEF PollInv, SchedulerTypeOK, Edit, schedVars
<1>2. PassAccounted' /\ AgesBounded' /\ SuccessRecorded' /\ SeenInEntry'
  BY PassStays, RecordsStay DEF Edit, schedVars, Own
<1>3. QED
  BY <1>1, <1>2 DEF PollInv

\* The result of a run, whoever made it.
LEMMA RunEndsKeeps == ASSUME PollInv, NEW who \in Callers, RunEnds(who) PROVE PollInv'
<1>1. PICK ends \in Outcomes(runs[who]) :
        CASE who = "scheduler" -> PollEnds(ends)
          [] who = "window"    -> WindowEnds(ends)
          [] who = "agent"     -> AgentEnds(ends)
  BY DEF RunEnds
<1>2. /\ runs[who] # Idle /\ runs' = [runs EXCEPT ![who] = Idle]
      /\ UNCHANGED <<conns, kinds, timer, spare, todo, lag>>
      /\ runs \in [Callers -> Run \cup {Idle}] /\ entries \in [Ids -> Entry]
      /\ quiet \in [Ids -> 0..Interval] /\ kinds \subseteq Ids
  BY DEF RunEnds, PollInv, SchedulerTypeOK
<1>3. runs' \in [Callers -> Run \cup {Idle}] /\ runs'[who] = Idle
      /\ (who # "scheduler" => Own' = Own)
  BY <1>2 DEF Own, Callers
<1>4. ASSUME NEW ids \in SUBSET kinds, \A c \in ids : Covers(runs[who], c),
             Recorded(runs[who], ends), Seen(ids),
             entries' = [c \in Ids |->
                IF c \in ids THEN Attempted(entries[c], Succeeded(ends, c)) ELSE entries[c]],
             who = "scheduler" => ids = {Own.scope}
      PROVE  PollInv'
  <2>1. /\ entries' \in [Ids -> Entry] /\ \A c \in Ids \ kinds : entries'[c] = NewEntry
        /\ data' \in [Bound -> (0..DataCap) \cup {Never}] /\ quiet' \in [Ids -> 0..Interval]
        /\ \A c \in ids : c \in kinds /\ entries'[c] \in Entry /\ entries'[c].age = 0
        /\ \A c \in Ids \ ids : entries'[c] = entries[c]
        /\ SuccessRecorded' /\ SeenInEntry'
    BY <1>2, <1>4, Refreshed
  <2>2. SchedulerTypeOK'
    BY <1>2, <1>3, <2>1 DEF PollInv, SchedulerTypeOK
  <2>3. CASE who = "scheduler"
    <3>1. Own # Idle /\ Own' = Idle
      BY <1>2, <1>3, <2>3 DEF Own
    <3>2. PassAccounted' /\ AgesBounded'
      BY <1>2, <1>4, <2>1, <2>3, <3>1, PollOver
    <3>3. QED
      BY <2>1, <2>2, <3>2 DEF PollInv
  <2>4. CASE who # "scheduler"
    <3>1. PassAccounted' /\ AgesBounded'
      BY <1>2, <1>3, <2>1, <2>4, PassStays
    <3>2. QED
      BY <2>1, <2>2, <3>1 DEF PollInv
  <2>5. QED
    BY <2>3, <2>4
<1>5. CASE who = "scheduler"
  <2> DEFINE c == Own.scope
  <2>1. PollEnds(ends) /\ runs[who] = Own
    BY <1>1, <1>5 DEF Own
  <2>2. c \in kinds /\ c \in Ids
    BY <1>2, <2>1 DEF PollInv, PassAccounted
  <2>3. entries' = [entries EXCEPT ![c] = Attempted(entries[c], Succeeded(ends, c))]
    BY <1>2, <2>1, <2>2 DEF PollEnds, Own
  <2>4. entries' = [x \in Ids |->
            IF x \in {c} THEN Attempted(entries[x], Succeeded(ends, x)) ELSE entries[x]]
    BY <1>2, <2>2, <2>3
  <2>5. Recorded(runs[who], ends) /\ Seen({c}) /\ Covers(runs[who], c)
    BY <2>1 DEF PollEnds, Own, Covers
  <2>6. QED
    BY <1>4, <2>2, <2>4, <2>5
<1>6. CASE who = "window"
  <2> DEFINE ids == {c \in kinds : Covers(runs[who], c)}
  <2>1. WindowEnds(ends)
    BY <1>1, <1>6
  <2>2. entries' = [c \in Ids |->
            IF c \in ids THEN Attempted(entries[c], Succeeded(ends, c)) ELSE entries[c]]
    BY <1>6, <2>1 DEF WindowEnds, Observed
  <2>3. Recorded(runs[who], ends) /\ Seen(ids)
    BY <1>6, <2>1 DEF WindowEnds
  <2>4. QED
    BY <1>4, <1>6, <2>2, <2>3
<1>7. CASE who = "agent"
  <2>1. AgentEnds(ends)
    BY <1>1, <1>7
  <2>2. entries' = [c \in Ids |->
            IF c \in {} THEN Attempted(entries[c], Succeeded(ends, c)) ELSE entries[c]]
    BY <1>2, <2>1 DEF AgentEnds
  <2>3. Seen({})
    BY <1>2, <2>1 DEF AgentEnds, Seen
  <2>4. Recorded(runs[who], ends)
    BY <1>7, <2>1 DEF AgentEnds
  <2>5. QED
    BY <1>4, <1>7, <2>2, <2>3, <2>4
<1>8. QED
  BY <1>5, <1>6, <1>7 DEF Callers

\* A run that throws leaves the mirror as it was; the poller's own counts as a failure.
LEMMA RunThrowsKeeps == ASSUME PollInv, NEW who \in Callers, RunThrows(who) PROVE PollInv'
<1>1. /\ runs[who] # Idle /\ runs' = [runs EXCEPT ![who] = Idle]
      /\ UNCHANGED <<conns, kinds, timer, spare, todo, lag, data, quiet>>
      /\ runs \in [Callers -> Run \cup {Idle}] /\ entries \in [Ids -> Entry]
  BY DEF RunThrows, PollInv, SchedulerTypeOK
<1>2. runs' \in [Callers -> Run \cup {Idle}] /\ runs'[who] = Idle
      /\ (who # "scheduler" => Own' = Own)
  BY <1>1 DEF Own, Callers
<1>3. CASE who # "scheduler"
  <2>1. entries' = entries
    BY <1>3 DEF RunThrows
  <2>2. SchedulerTypeOK'
    BY <1>1, <1>2, <2>1 DEF PollInv, SchedulerTypeOK
  <2>3. PassAccounted' /\ AgesBounded' /\ SuccessRecorded' /\ SeenInEntry'
    BY <1>1, <1>2, <1>3, <2>1, PassStays, RecordsStay
  <2>4. QED
    BY <2>2, <2>3 DEF PollInv
<1>4. CASE who = "scheduler"
  <2> DEFINE c == Own.scope
             failed == Attempted(entries[c], FALSE)
  <2>1. Own # Idle /\ Own' = Idle
    BY <1>1, <1>2, <1>4 DEF Own
  <2>2. c \in kinds /\ c \in Ids
    BY <2>1 DEF PollInv, PassAccounted, SchedulerTypeOK
  <2>3. failed \in Entry /\ failed.age = 0 /\ failed.failures # 0
    BY <1>1, <2>2, AttemptedEntry
  <2>4. entries' = [entries EXCEPT ![c] = failed]
    BY <1>1, <1>4, <2>2 DEF RunThrows, Own
  <2> HIDE DEF failed
  <2>5. entries'[c] = failed /\ \A x \in Ids \ {c} : entries'[x] = entries[x]
    BY <1>1, <2>2, <2>4
  <2>6. SchedulerTypeOK'
    BY <1>1, <1>2, <2>2, <2>3, <2>4, <2>5 DEF PollInv, SchedulerTypeOK
  <2>7. PassAccounted' /\ AgesBounded'
    BY <1>1, <2>1, <2>3, <2>5, PollOver
  <2>8. SuccessRecorded'
    BY <1>1, <2>3, <2>5 DEF PollInv, SuccessRecorded, SchedulerTypeOK
  <2>9. SeenInEntry'
    <3>1. quiet[c] \in 0..Interval /\ quiet[c] >= 0
      BY <2>2, Lengths DEF PollInv, SchedulerTypeOK
    <3>2. QED
      BY <1>1, <2>3, <2>5, <3>1 DEF PollInv, SeenInEntry
  <2>10. QED
    BY <2>6, <2>7, <2>8, <2>9 DEF PollInv
<1>5. QED
  BY <1>3, <1>4

-----------------------------------------------------------------------------
(* The pass.                                                               *)

\* A pass begins with every connection ahead of it.
LEMMA BeginPassKeeps == ASSUME PollInv, BeginPass PROVE PollInv'
<1>1. /\ timer = 0 /\ timer # Idle /\ Own = Idle /\ Own' = Idle
      /\ timer' = Idle /\ spare' = Outage /\ todo' = Conns /\ kinds' = conns /\ lag' = 0
      /\ entries' = [c \in Ids |-> IF c \in conns THEN entries[c] ELSE NewEntry]
      /\ UNCHANGED <<conns, runs, data, quiet>>
  BY DEF BeginPass, Remembered, PollInv, PassAccounted, Own
<1>2. N \in Nat /\ RunTime \in Nat /\ Pause \in Nat /\ Outage \in Nat /\ Conns \in Seq(Ids)
  BY Lengths
<1>3. ASSUME NEW c \in Ids
      PROVE  /\ entries'[c] \in Entry /\ (c \notin conns => entries'[c] = NewEntry)
             /\ entries'[c].age # Never => entries'[c] = entries[c]
  BY <1>1 DEF PollInv, SchedulerTypeOK, NewEntry, Entry
<1>4. SchedulerTypeOK'
  <2>1. entries' \in [Ids -> Entry] /\ lag' \in 0..(Len(Conns) * RunTime)
    <3>1. N * RunTime \in Nat
      BY <1>2
    <3>2. QED
      BY <1>1, <1>3, <3>1 DEF N
  <2>2. QED
    BY <1>1, <1>2, <1>3, <2>1 DEF PollInv, SchedulerTypeOK
<1>5. Behind' = -RunTime /\ Ahead' = Ids
  <2>1. Len(todo') = N /\ Ahead' = ToSet(Conns)
    BY <1>1 DEF N, Ahead, ToSet
  <2>2. Behind' = Span(N - 1 - N)
    BY <1>1, <2>1 DEF Behind
  <2>3. QED
    BY <1>2, <2>1, <2>2, LeftSpans DEF Ids
<1>6. PassAccounted'
  BY <1>1, <1>2, <1>5 DEF PassAccounted, N
<1>7. AgesBounded'
  <2>1. ASSUME NEW c \in Ids, entries'[c].age # Never
        PROVE  entries'[c].age <= Ceiling(entries'[c]) - 1 + Span(N - 1) + Pause + lag'
    <3>1. entries'[c] = entries[c] /\ entries[c].age \in Nat /\ Ceiling(entries[c]) \in Nat
          /\ Span(N - 1) \in Nat
      BY <1>3, <2>1, Parts, CapIsBeyond, Lengths, WholeSpans DEF PollInv
    <3>2. entries[c].age <= Ceiling(entries[c]) - 1 + Span(N - 1) + Pause - 0 - spare
      BY <1>1, <2>1, <3>1 DEF PollInv, AgesBounded
    <3>3. spare \in Nat /\ lag' = 0
      BY <1>1, Parts DEF PollInv
    <3>4. QED
      BY <1>2, <3>1, <3>2, <3>3
  <2>2. QED
    BY <1>1, <1>5, <2>1 DEF AgesBounded
<1>8. SuccessRecorded' /\ SeenInEntry'
  BY <1>1, <1>3, Parts DEF PollInv, SuccessRecorded, SeenInEntry
<1>9. QED
  BY <1>4, <1>6, <1>7, <1>8 DEF PollInv

\* An id that the pass passes over has been attempted less than its delay ago.
LEMMA PassedOver ==
    ASSUME PollInv, timer = Idle, NEW c \in Ids, ~Wanted(c), entries[c].age # Never
    PROVE  /\ entries[c].age \in Nat /\ Ceiling(entries[c]) \in Nat /\ lag \in Nat
           /\ Behind \in Int /\ lag <= Behind + RunTime
           /\ entries[c].age <= Ceiling(entries[c]) - 1 + lag
<1>1. /\ entries[c].age \in Nat /\ entries[c] \in Entry /\ c \in kinds /\ lag \in Nat
  BY Parts DEF PollInv
<1>2. /\ Ceiling(entries[c]) \in Nat /\ Delay(entries[c]) \in Int
      /\ Delay(entries[c]) <= Ceiling(entries[c])
  BY <1>1, CapIsBeyond, DelayBounded
<1>3. Behind \in Int /\ lag <= Behind + RunTime
  BY BehindBounded DEF PollInv, PassAccounted
<1>4. ~(entries[c].age - lag >= Delay(entries[c]))
  BY <1>1 DEF Wanted, Due
<1>5. QED
  BY <1>1, <1>2, <1>3, <1>4

\* A poll leaves behind what it passes over, for which there was a poll less to make.
LEMMA PollKeeps == ASSUME PollInv, Poll PROVE PollInv'
<1>1. PICK n \in 1..Len(todo) :
        /\ Wanted(todo[n]) /\ \A k \in 1..(n - 1) : ~Wanted(todo[k])
        /\ todo' = SubSeq(todo, n + 1, Len(todo))
        /\ runs' = [runs EXCEPT !["scheduler"] = Begun(todo[n])]
  BY DEF Poll
<1>2. /\ timer = Idle /\ Own = Idle /\ todo \in Seq(Ids) /\ Len(todo) \in Nat
      /\ UNCHANGED <<conns, entries, kinds, timer, spare, lag, data, quiet>>
      /\ runs \in [Callers -> Run \cup {Idle}] /\ lag \in Nat
      /\ Len(todo) <= N /\ N \in Nat /\ RunTime \in Nat
  BY Parts, Lengths DEF Poll, InPass, Own, PollInv, SchedulerTypeOK, PassAccounted
<1> DEFINE left == Len(todo) - n
<1>3. /\ todo' \in Seq(Ids) /\ Len(todo') = left /\ left \in Nat /\ left < N
      /\ \A i \in 1..left : todo'[i] = todo[i + n]
  <2> DEFINE last == Len(todo)
             first == n + 1
  <2>1. first \in Int /\ last \in Int /\ first <= last + 1
        /\ \A i \in first..last : i \in 1..Len(todo)
    BY <1>2
  <2>2. todo' = SubSeq(todo, first, last)
    BY <1>1
  <2> HIDE DEF first, last
  <2>3. /\ todo' \in Seq(Ids)
        /\ Len(todo') = IF first <= last THEN last - first + 1 ELSE 0
        /\ \A i \in 1..(last - first + 1) : todo'[i] = todo[first + i - 1]
    <3>1. \A i \in first..last : todo[i] \in Ids
      BY <1>2, <2>1, ElementOfSeq
    <3>2. QED
      BY <2>1, <2>2, <3>1, SubSeqProperties
  <2>4. last - first + 1 = left /\ left \in Nat /\ left < N
    BY <1>2 DEF first, last
  <2>5. ASSUME NEW i \in 1..left
        PROVE  todo'[i] = todo[i + n]
    <3>1. first + i - 1 = i + n
      BY <1>2, <2>4 DEF first
    <3>2. QED
      BY <2>3, <2>4, <3>1
  <2>6. Len(todo') = left
    BY <2>1, <2>3, <2>4
  <2>7. QED
    BY <2>3, <2>4, <2>5, <2>6
<1>4. /\ todo[n] \in Ids /\ todo[n] \in kinds
      /\ Begun(todo[n]) \in Run /\ Begun(todo[n]).scope = todo[n] /\ Begun(todo[n]).age = 0
  <2>1. todo[n] \in Ids
    BY <1>1, <1>2, ElementOfSeq
  <2>2. QED
    BY <1>1, <2>1, BegunRun DEF Wanted
<1>5. /\ runs' \in [Callers -> Run \cup {Idle}] /\ Own' = Begun(todo[n]) /\ Own' # Idle
  <2>1. Idle \notin Run
    OBVIOUS
  <2>2. QED
    BY <1>1, <1>2, <1>4, <2>1 DEF Own, Callers
<1>6. SchedulerTypeOK'
  BY <1>2, <1>3, <1>5 DEF PollInv, SchedulerTypeOK
<1>7. /\ Ahead = ToSet(todo) /\ Ahead' = ToSet(todo') \cup {todo[n]}
      /\ DOMAIN todo = 1..Len(todo) /\ DOMAIN todo' = 1..left
  BY <1>2, <1>3, <1>4, <1>5, LenProperties DEF Ahead, ToSet
<1>8. Ahead' \subseteq Ahead
  <2>1. ASSUME NEW c \in ToSet(todo')
        PROVE  c \in ToSet(todo)
    <3>1. PICK i \in 1..left : c = todo[i + n]
      BY <1>3, <1>7, <2>1 DEF ToSet
    <3>2. i + n \in 1..Len(todo)
      BY <1>2, <1>3
    <3>3. QED
      BY <1>7, <3>1, <3>2 DEF ToSet
  <2>2. todo[n] \in ToSet(todo)
    BY <1>7 DEF ToSet
  <2>3. QED
    BY <1>7, <2>1, <2>2
<1>9. ASSUME NEW c \in Ahead, c \notin Ahead'
      PROVE  n >= 2 /\ ~Wanted(c) /\ c \in Ids
  <2>1. PICK k \in 1..Len(todo) : c = todo[k]
    BY <1>7 DEF ToSet
  <2>2. k # n
    BY <1>7, <1>9, <2>1
  <2>3. k <= n
    <3>1. SUFFICES ASSUME k > n PROVE FALSE
      BY <1>2
    <3>2. k - n \in 1..left /\ (k - n) + n = k
      BY <1>2, <3>1
    <3>3. c = todo'[k - n]
      BY <1>3, <2>1, <3>2
    <3>4. QED
      BY <1>7, <1>9, <3>2, <3>3 DEF ToSet
  <2>4. k \in 1..(n - 1)
    BY <1>2, <2>2, <2>3
  <2>5. QED
    BY <1>1, <1>2, <2>1, <2>4, ElementOfSeq
<1>10. /\ Behind' \in Int /\ Behind \in Int /\ Behind <= Behind'
       /\ n >= 2 => Behind + RunTime <= Behind' /\ Behind' >= 0
  <2> DEFINE full == N - 1 - Len(todo)
             rest == N - 2 - left
  <2>1. full \in Int /\ rest \in Int /\ full <= rest /\ (n >= 2 => full + 1 <= rest /\ 0 <= rest)
    BY <1>2
  <2>2. Behind = Span(full) /\ Behind' = Span(rest) + 0
    BY <1>2, <1>3, <1>4, <1>5 DEF Behind
  <2> HIDE DEF full, rest
  <2> DEFINE more == full + 1
  <2>3. more \in Int /\ more - 1 = full /\ 0 \in Int
    BY <2>1
  <2>4. Span(more) = Span(full) + RunTime
    BY <2>3, NextSpan
  <2>5. n >= 2 => more <= rest /\ 0 <= rest
    BY <2>1
  <2> HIDE DEF more
  <2>6. /\ Span(full) \in Int /\ Span(rest) \in Int /\ Span(full) <= Span(rest)
        /\ n >= 2 => Span(more) <= Span(rest) /\ Span(0) <= Span(rest)
    BY <2>1, <2>3, <2>5, Spans
  <2>7. Span(0) = 0
    BY Spans
  <2>8. QED
    BY <2>2, <2>4, <2>6, <2>7
<1> HIDE DEF left
<1>11. PassAccounted'
  <2>1. Ids \subseteq Ahead' \/ Behind' >= 0
    <3>1. CASE Behind >= 0
      BY <1>10, <3>1
    <3>2. CASE Ids \subseteq Ahead
      BY <1>9, <1>10, <3>2
    <3>3. QED
      BY <1>2, <3>1, <3>2 DEF PollInv, PassAccounted
  <2>2. lag' <= Behind' + RunTime
    <3>1. lag <= Behind + RunTime
      BY <1>2 DEF PollInv, PassAccounted
    <3>2. lag \in Nat /\ RunTime \in Nat
      BY <1>2
    <3>3. PICK more \in Int : more = Behind'
      BY <1>10
    <3>4. Behind \in Int /\ Behind <= more
      BY <1>10, <3>3
    <3>5. lag <= more + RunTime
      BY <3>1, <3>2, <3>4
    <3>6. lag' = lag
      BY <1>2
    <3>7. QED
      BY <3>3, <3>5, <3>6, Zenon
  <2>3. Own'.scope \in kinds' /\ Len(todo') < N /\ Len(todo') <= N
    BY <1>2, <1>3, <1>4, <1>5
  <2>4. spare' = Outage /\ timer' = Idle
    BY <1>2 DEF PollInv, PassAccounted
  <2>5. QED
    BY <2>1, <2>2, <2>3, <2>4 DEF PassAccounted
<1>12. AgesBounded'
  <2>1. ASSUME NEW c \in Ids, entries[c].age # Never, c \notin Ahead'
        PROVE  entries[c].age <= Ceiling(entries[c]) - 1 + Behind'
    <3>1. CASE c \notin Ahead
      <4>1. entries[c].age <= Ceiling(entries[c]) - 1 + Behind
        BY <1>2, <2>1, <3>1 DEF PollInv, AgesBounded
      <4>2. entries[c].age \in Nat /\ Ceiling(entries[c]) \in Nat
        BY <2>1, Parts, CapIsBeyond DEF PollInv
      <4>3. QED
        BY <1>10, <4>1, <4>2
    <3>2. CASE c \in Ahead
      <4>1. n >= 2 /\ ~Wanted(c)
        BY <1>9, <2>1, <3>2
      <4>2. /\ entries[c].age \in Nat /\ Ceiling(entries[c]) \in Nat /\ lag \in Nat
            /\ lag <= Behind + RunTime
            /\ entries[c].age <= Ceiling(entries[c]) - 1 + lag
        BY <1>2, <2>1, <4>1, PassedOver
      <4>3. QED
        BY <1>2, <1>10, <4>1, <4>2
    <3>3. QED
      BY <3>1, <3>2
  <2>2. ASSUME NEW c \in Ids, entries[c].age # Never, c \in Ahead'
        PROVE  entries[c].age <= Ceiling(entries[c]) - 1 + Span(N - 1) + Pause + lag
    BY <1>2, <1>8, <2>2 DEF PollInv, AgesBounded
  <2>3. QED
    BY <1>2, <2>1, <2>2 DEF AgesBounded
<1>13. QED
  BY <1>2, <1>6, <1>11, <1>12, RecordsStay DEF PollInv

\* When the pass is over everything has been polled or was not due, and the last one to
\* be passed over has waited for all the others at most.
LEMMA EndPassKeeps == ASSUME PollInv, EndPass PROVE PollInv'
<1>1. /\ timer = Idle /\ Own = Idle /\ Own' = Idle
      /\ todo' = << >> /\ timer' = TickTime /\ lag' = 0
      /\ UNCHANGED <<conns, entries, kinds, spare, runs, data, quiet>>
      /\ \A k \in 1..Len(todo) : ~Wanted(todo[k])
  BY DEF EndPass, InPass, Own
<1>2. /\ N \in Nat /\ RunTime \in Nat /\ TickTime \in Nat /\ timer' # Idle
      /\ spare = Outage
      /\ Len(todo) \in Nat /\ Len(todo) <= N /\ Ahead = ToSet(todo)
      /\ DOMAIN todo = 1..Len(todo)
  BY <1>1, Lengths, Parts, LenProperties DEF PollInv, PassAccounted, Ahead
<1>3. SchedulerTypeOK'
  <2>1. 0 \in 0..(Len(Conns) * RunTime) /\ TickTime \in 0..TickTime /\ << >> \in Seq(Ids)
    <3>1. N * RunTime \in Nat
      BY <1>2
    <3>2. QED
      BY <1>2, <3>1 DEF N
  <2>2. QED
    BY <1>1, <2>1 DEF PollInv, SchedulerTypeOK
<1>4. PassAccounted'
  BY <1>1, <1>2 DEF PassAccounted
<1>5. AgesBounded'
  <2>1. ASSUME NEW c \in Ids, entries[c].age # Never
        PROVE  entries[c].age <= Ceiling(entries[c]) - 1 + Span(N - 1)
    <3>1. /\ entries[c].age \in Nat /\ Ceiling(entries[c]) \in Nat /\ Span(N - 1) \in Nat
          /\ Behind \in Int /\ Behind <= Span(N - 1)
      BY <1>1, <2>1, Parts, CapIsBeyond, Lengths, WholeSpans, BehindBounded DEF PollInv
    <3>2. CASE c \notin Ahead
      <4>1. entries[c].age <= Ceiling(entries[c]) - 1 + Behind
        BY <1>1, <2>1, <3>2 DEF PollInv, AgesBounded
      <4>2. QED
        BY <1>2, <3>1, <4>1
    <3>3. CASE c \in Ahead
      <4>1. PICK k \in 1..Len(todo) : c = todo[k]
        BY <1>2, <3>3 DEF ToSet
      <4>2. /\ lag \in Nat /\ lag <= Behind + RunTime
            /\ entries[c].age <= Ceiling(entries[c]) - 1 + lag
        BY <1>1, <2>1, <4>1, PassedOver
      <4> DEFINE used == N - 1 - Len(todo)
                 more == used + 1
                 all == N - 1
      <4>3. used \in Int /\ more \in Int /\ all \in Int /\ more <= all /\ more - 1 = used
        BY <1>2, <4>1
      <4>4. Behind = Span(used) /\ Span(more) = Span(used) + RunTime
        BY <1>1, <4>3, NextSpan DEF Behind
      <4> HIDE DEF more, all
      <4>5. Span(more) <= Span(all)
        BY <4>3, Spans
      <4> USE DEF all
      <4>6. Behind + RunTime <= Span(N - 1)
        BY <4>4, <4>5
      <4>7. QED
        BY <1>2, <3>1, <4>2, <4>6
    <3>4. QED
      BY <3>2, <3>3
  <2>2. ASSUME NEW c \in Ids, entries[c].age # Never
        PROVE  entries'[c].age <= Ceiling(entries'[c]) - 1 + Span(N - 1) + Pause - timer' - spare'
    <3>1. entries[c].age \in Nat /\ Ceiling(entries[c]) \in Nat /\ Span(N - 1) \in Nat
      BY <2>2, Parts, CapIsBeyond, Lengths, WholeSpans DEF PollInv
    <3>2. entries'[c] = entries[c] /\ timer' = TickTime /\ spare' = Outage /\ Outage \in Nat
      BY <1>1, <1>2, Lengths
    <3>3. QED
      BY <1>2, <2>1, <2>2, <3>1, <3>2 DEF Pause
  <2>3. QED
    BY <1>1, <1>2, <2>2 DEF AgesBounded
<1>6. QED
  BY <1>1, <1>3, <1>4, <1>5, RecordsStay DEF PollInv

\* A pass that is skipped takes its tick from what is spare.
LEMMA SkipPassKeeps == ASSUME PollInv, SkipPass PROVE PollInv'
<1>1. /\ timer = 0 /\ timer # Idle /\ timer' = TickTime /\ timer' # Idle
      /\ spare' = spare - TickTime /\ TickTime <= spare
      /\ UNCHANGED <<conns, entries, kinds, todo, lag, runs, data, quiet>>
      /\ TickTime \in Nat /\ spare \in Nat /\ spare <= Outage /\ Outage \in Nat
      /\ Pause \in Nat
  BY Lengths, Parts DEF SkipPass, PollInv
<1>2. SchedulerTypeOK'
  BY <1>1 DEF PollInv, SchedulerTypeOK
<1>3. PassAccounted'
  BY <1>1 DEF PollInv, PassAccounted, Own
<1>4. AgesBounded'
  <2>1. ASSUME NEW c \in Ids, entries[c].age # Never
        PROVE  entries[c].age <= Ceiling(entries[c]) - 1 + Span(N - 1) + Pause - timer' - spare'
    <3>1. entries[c].age \in Nat /\ Ceiling(entries[c]) \in Nat /\ Span(N - 1) \in Nat
      BY <2>1, Parts, CapIsBeyond, Lengths, WholeSpans DEF PollInv
    <3>2. entries[c].age <= Ceiling(entries[c]) - 1 + Span(N - 1) + Pause - timer - spare
      BY <1>1, <2>1 DEF PollInv, AgesBounded
    <3>3. QED
      BY <1>1, <3>1, <3>2
  <2>2. QED
    BY <1>1, <2>1 DEF AgesBounded
<1>5. QED
  BY <1>1, <1>2, <1>3, <1>4, RecordsStay DEF PollInv

\* The application starts with nothing remembered.
LEMMA RestartKeeps == ASSUME PollInv, Restart PROVE PollInv'
<1>1. /\ entries' = [c \in Ids |-> NewEntry] /\ kinds' = {} /\ timer' = TickTime
      /\ spare' = Outage
      /\ todo' = << >> /\ lag' = 0 /\ runs' = [who \in Callers |-> Idle]
      /\ UNCHANGED <<conns, data, quiet>>
  BY DEF Restart
<1>2. N \in Nat /\ RunTime \in Nat /\ TickTime \in Nat /\ timer' # Idle /\ Own' = Idle
      /\ 0 \in 0..(Len(Conns) * RunTime) /\ Outage \in 0..Outage
  <2>1. N * RunTime \in Nat
    BY Lengths
  <2>2. QED
    BY <1>1, <2>1, Lengths DEF Own, Callers, N
<1>3. NewEntry \in Entry /\ NewEntry.age = Never
  BY Lengths DEF NewEntry, Entry
<1>4. SchedulerTypeOK'
  BY <1>1, <1>2, <1>3 DEF PollInv, SchedulerTypeOK
<1>5. PassAccounted'
  BY <1>1, <1>2 DEF PassAccounted
<1>6. \A c \in Ids : entries'[c].age = Never
  BY <1>1, <1>3
<1>7. AgesBounded' /\ SuccessRecorded' /\ SeenInEntry'
  BY <1>6, Parts DEF PollInv, AgesBounded, SuccessRecorded, SeenInEntry
<1>8. QED
  BY <1>4, <1>5, <1>7 DEF PollInv

\* A moment passes: whatever is under way is a moment older, and so is every entry.
LEMMA ElapseKeeps == ASSUME PollInv, Elapse PROVE PollInv'
<1>1. /\ UNCHANGED <<conns, kinds, spare, todo>> /\ RunTime \in Nat \ {0} /\ Interval \in Nat \ {0}
      /\ TickTime \in Nat /\ N \in Nat /\ lag \in Nat /\ Pause \in Nat /\ spare \in Nat
      /\ timer = Idle => Own # Idle
      /\ timer # Idle => timer \in Nat \ {0} /\ timer <= TickTime
      /\ timer' = (IF timer = Idle THEN Idle ELSE timer - 1)
      /\ lag' = (IF timer = Idle THEN lag + 1 ELSE 0)
  BY Lengths, Parts DEF Elapse, Own, PollInv
<1>2. timer' = Idle <=> timer = Idle
  BY <1>1
\* The runs.
<1>3. ASSUME NEW who \in Callers, runs[who] # Idle
      PROVE  /\ runs'[who] \in Run /\ runs'[who].scope = runs[who].scope
             /\ runs'[who].age = runs[who].age + 1 /\ runs[who].age \in Nat
             /\ runs[who].age < RunTime
  <2>1. runs[who] \in Run /\ runs[who].age \in 0..RunTime /\ runs[who].age < RunTime
    BY <1>3, Parts DEF Elapse, PollInv
  <2>2. runs'[who] = [runs[who] EXCEPT !.age = @ + 1]
    BY <1>3 DEF Elapse
  <2>3. RunTime \in Nat
    BY <1>1
  <2>4. QED
    BY <2>1, <2>2, <2>3 DEF Run
<1>4. \A who \in Callers : runs[who] = Idle => runs'[who] = Idle
  BY DEF Elapse
<1>5. runs' \in [Callers -> Run \cup {Idle}]
  BY <1>3, <1>4 DEF Elapse
<1>6. /\ Own = Idle => Own' = Idle
      /\ Own # Idle => /\ Own' # Idle /\ Own'.scope = Own.scope /\ Own'.age = Own.age + 1
                       /\ Own.age \in Nat /\ Own.age < RunTime
  <2>1. Idle \notin Run
    OBVIOUS
  <2>2. QED
    BY <1>3, <1>4, <2>1 DEF Own, Callers
\* The pass.
<1>7. Ahead' = Ahead
  BY <1>1, <1>6 DEF Ahead, ToSet
<1>8. timer = Idle => Behind' = Behind + 1 /\ Behind \in Int /\ Behind' + RunTime <= Span(N)
  <2>1. SUFFICES ASSUME timer = Idle
                 PROVE  Behind' = Behind + 1 /\ Behind \in Int /\ Behind' + RunTime <= Span(N)
    OBVIOUS
  <2> DEFINE before == Span(N - 2 - Len(todo))
  <2>2. Behind = before + Own.age /\ Behind' = before + Own'.age /\ Len(todo') = Len(todo)
    BY <1>1, <1>6, <2>1 DEF Behind
  <2>3. /\ Len(todo) \in Nat /\ Len(todo) < N
    BY <1>1, <2>1, Parts DEF PollInv, PassAccounted
  <2>4. /\ before \in Int /\ Span(N - 1 - Len(todo)) = before + RunTime
        /\ Span(N - 1 - Len(todo)) \in Int /\ Span(N - 1 - Len(todo)) <= Span(N - 1)
    BY <1>1, <2>3, LeftSpans
  <2>5. Span(N - 1) \in Int /\ Span(N) \in Int /\ Span(N) = Span(N - 1) + RunTime
    BY <1>1, <2>3, WholeSpans
  <2> HIDE DEF before
  <2>6. Behind \in Int /\ Behind' = Behind + 1 /\ Behind' <= before + RunTime
    <3>1. Own.age \in Nat /\ Own'.age = Own.age + 1 /\ Own.age < RunTime
      BY <1>1, <1>6, <2>1
    <3>2. before \in Int /\ RunTime \in Nat
      BY <1>1, <2>4
    <3>3. Behind' = before + Own.age + 1
      BY <2>2, <3>1, <3>2
    <3>4. QED
      BY <2>2, <3>1, <3>2, <3>3
  <2>7. QED
    BY <1>1, <2>4, <2>5, <2>6
<1>9. PassAccounted'
  <2>1. CASE timer # Idle
    BY <1>1, <1>2, <1>6, <2>1 DEF PollInv, PassAccounted
  <2>2. CASE timer = Idle
    <3>1. /\ lag <= Behind + RunTime /\ (Ids \subseteq Ahead \/ Behind >= 0)
          /\ Own.scope \in kinds /\ Len(todo) < N /\ Len(todo) <= N
      BY <1>1, <2>2 DEF PollInv, PassAccounted
    <3>2. lag' <= Behind' + RunTime /\ (Ids \subseteq Ahead' \/ Behind' >= 0)
      BY <1>1, <1>7, <1>8, <2>2, <3>1
    <3>3. spare' = Outage /\ timer' = Idle
      BY <1>1, <1>2, <2>2 DEF PollInv, PassAccounted
    <3>4. Own' # Idle /\ Own'.scope \in kinds' /\ Len(todo') < N /\ Len(todo') <= N
      BY <1>1, <1>6, <2>2, <3>1
    <3>5. QED
      BY <3>2, <3>3, <3>4 DEF PassAccounted
  <2>3. QED
    BY <2>1, <2>2
\* The entries.
<1>10. ASSUME NEW c \in Ids
       PROVE  /\ entries'[c] \in Entry /\ entries'[c].failures = entries[c].failures
              /\ Ceiling(entries'[c]) = Ceiling(entries[c])
              /\ entries[c].age = Never => entries'[c] = entries[c]
              /\ entries[c].age # Never =>
                    /\ entries[c].age \in Nat /\ entries'[c].age = entries[c].age + 1
                    /\ entries'[c].age # Never
  <2>1. entries'[c] = [entries[c] EXCEPT !.age = Older(@, AgeCap)] /\ entries[c] \in Entry
    BY Parts DEF Elapse, PollInv
  <2>2. entries'[c].failures = entries[c].failures /\ entries'[c].age = Older(entries[c].age, AgeCap)
    BY <2>1 DEF Entry
  <2>3. CASE entries[c].age = Never
    BY <2>1, <2>2, <2>3 DEF Older, Ceiling, Entry
  <2>4. CASE entries[c].age # Never
    <3>1. entries[c].age \in Nat /\ entries[c].age <= MaxWait /\ MaxWait \in Nat
      BY <2>4, WithinWait DEF PollInv
    <3>2. AgeCap = MaxWait + 1
      BY DEF AgeCap
    <3>3. Older(entries[c].age, AgeCap) = entries[c].age + 1
      BY <2>4, <3>1, <3>2 DEF Older, Least
    <3>4. entries[c].age + 1 \in 0..AgeCap
      BY <3>1, <3>2
    <3>5. QED
      BY <2>1, <2>2, <2>4, <3>1, <3>3, <3>4 DEF Ceiling, Entry
  <2>5. QED
    BY <2>3, <2>4
<1>11. AgesBounded'
  <2>1. ASSUME NEW c \in Ids, entries'[c].age # Never
        PROVE  LET least == Ceiling(entries'[c]) - 1 IN
               IF timer' # Idle
               THEN entries'[c].age <= least + Span(N - 1) + Pause - timer' - spare'
               ELSE IF c \in Ahead'
                    THEN entries'[c].age <= least + Span(N - 1) + Pause + lag'
                    ELSE entries'[c].age <= least + Behind'
    <3>1. /\ entries[c].age # Never /\ entries[c].age \in Nat /\ entries'[c].age = entries[c].age + 1
          /\ Ceiling(entries'[c]) = Ceiling(entries[c]) /\ Ceiling(entries[c]) \in Nat
          /\ Span(N - 1) \in Nat
      BY <1>10, <2>1, Parts, CapIsBeyond, Lengths, WholeSpans DEF PollInv
    <3>2. CASE timer # Idle
      <4>1. entries[c].age <= Ceiling(entries[c]) - 1 + Span(N - 1) + Pause - timer - spare
        BY <3>1, <3>2 DEF PollInv, AgesBounded
      <4>2. timer' = timer - 1 /\ timer' # Idle /\ timer \in Nat
        BY <1>1, <1>2, <3>2
      <4>3. entries'[c].age <= Ceiling(entries'[c]) - 1 + Span(N - 1) + Pause - timer' - spare'
        BY <1>1, <3>1, <4>1, <4>2
      <4>4. QED
        BY <4>2, <4>3
    <3>3. CASE timer = Idle /\ c \in Ahead
      <4>1. entries[c].age <= Ceiling(entries[c]) - 1 + Span(N - 1) + Pause + lag
        BY <3>1, <3>3 DEF PollInv, AgesBounded
      <4>2. entries'[c].age <= Ceiling(entries'[c]) - 1 + Span(N - 1) + Pause + lag'
        BY <1>1, <3>1, <3>3, <4>1
      <4>3. QED
        BY <1>2, <1>7, <3>3, <4>2
    <3>4. CASE timer = Idle /\ c \notin Ahead
      <4>1. entries[c].age <= Ceiling(entries[c]) - 1 + Behind
        BY <3>1, <3>4 DEF PollInv, AgesBounded
      <4>2. entries'[c].age <= Ceiling(entries'[c]) - 1 + Behind'
        BY <1>8, <3>1, <3>4, <4>1
      <4>3. QED
        BY <1>2, <1>7, <3>4, <4>2
    <3>5. QED
      BY <3>2, <3>3, <3>4
  <2>2. QED
    BY <2>1 DEF AgesBounded
<1>12. \A c \in Ids : quiet'[c] = Least(quiet[c] + 1, Interval) /\ quiet[c] \in 0..Interval
  BY DEF Elapse, PollInv, SchedulerTypeOK
<1>13. \A c \in Bound : data'[c] = Older(data[c], DataCap) /\ data[c] \in (0..DataCap) \cup {Never}
  BY DEF Elapse, PollInv, SchedulerTypeOK
<1>14. DataCap \in Nat \ {0}
  BY Lengths DEF DataCap, StaleAfter
<1>15. SuccessRecorded'
  <2>1. ASSUME NEW c \in Bound, entries'[c].age # Never, entries'[c].failures = 0
        PROVE  data'[c] # Never /\ data'[c] <= entries'[c].age + RunTime
    <3>1. /\ c \in Ids /\ entries[c].age # Never /\ entries[c].failures = 0
          /\ entries[c].age \in Nat /\ entries'[c].age = entries[c].age + 1
      BY <1>10, <2>1, Parts DEF PollInv
    <3>2. data[c] # Never /\ data[c] <= entries[c].age + RunTime
      BY <3>1 DEF PollInv, SuccessRecorded
    <3>3. data[c] \in Nat /\ data'[c] \in Nat /\ data'[c] <= data[c] + 1
      BY <1>13, <1>14, <3>2 DEF Older, Least
    <3>4. QED
      BY <1>1, <3>1, <3>2, <3>3
  <2>2. QED
    BY <2>1 DEF SuccessRecorded
<1>16. SeenInEntry'
  <2>1. ASSUME NEW c \in Ids, entries'[c].age # Never
        PROVE  quiet'[c] >= entries'[c].age \/ quiet'[c] >= Interval
    <3>1. entries[c].age # Never /\ entries[c].age \in Nat /\ entries'[c].age = entries[c].age + 1
      BY <1>10, <2>1
    <3>2. quiet[c] >= entries[c].age \/ quiet[c] >= Interval
      BY <3>1 DEF PollInv, SeenInEntry
    <3>3. QED
      BY <1>1, <1>12, <3>1, <3>2 DEF Least
  <2>2. QED
    BY <2>1 DEF SeenInEntry
<1>17. SchedulerTypeOK'
  <2>1. entries' \in [Ids -> Entry] /\ \A c \in Ids \ kinds' : entries'[c] = NewEntry
    <3>1. \A c \in Ids \ kinds : entries'[c] = NewEntry
      BY <1>10 DEF PollInv, SchedulerTypeOK, NewEntry
    <3>2. QED
      BY <1>1, <1>10, <3>1 DEF Elapse
  <2>2. data' \in [Bound -> (0..DataCap) \cup {Never}]
    <3>1. \A c \in Bound : data'[c] \in (0..DataCap) \cup {Never}
      BY <1>13, <1>14 DEF Older, Least
    <3>2. QED
      BY <3>1 DEF Elapse
  <2>3. quiet' \in [Ids -> 0..Interval]
    <3>1. \A c \in Ids : quiet'[c] \in 0..Interval
      BY <1>1, <1>12 DEF Least
    <3>2. QED
      BY <3>1 DEF Elapse
  <2>4. lag' \in 0..(Len(Conns) * RunTime)
    <3>1. N * RunTime = Span(N) /\ Span(N) \in Int /\ Span(N) >= 0 /\ Len(Conns) = N
      <4>1. N * RunTime \in Nat
        BY <1>1
      <4>2. QED
        BY <4>1 DEF Span, N
    <3>2. timer = Idle => lag' <= Behind' + RunTime /\ Behind' + RunTime <= Span(N) /\ Behind' \in Int
      BY <1>2, <1>8, <1>9 DEF PassAccounted
    <3>3. lag' \in Nat /\ (timer # Idle => lag' = 0)
      BY <1>1
    <3>4. lag' <= Span(N)
      BY <1>1, <3>1, <3>2, <3>3
    <3>5. QED
      BY <3>1, <3>3, <3>4
  <2>5. timer' \in (0..TickTime) \cup {Idle}
    BY <1>1
  <2>6. QED
    BY <1>1, <1>5, <2>1, <2>2, <2>3, <2>4, <2>5 DEF PollInv, SchedulerTypeOK
<1>18. QED
  BY <1>9, <1>11, <1>15, <1>16, <1>17 DEF PollInv

-----------------------------------------------------------------------------
(* The theorems.                                                           *)

\* The bounds hold in every behaviour.
LEMMA PollInductive == Spec => []PollInv
<1>1. Init => PollInv
  <2> SUFFICES ASSUME Init
               PROVE  PollInv
    OBVIOUS
  <2>1. /\ NewEntry \in Entry /\ NewEntry.age = Never /\ TickTime \in Nat /\ Interval \in Nat
        /\ DataCap \in Nat /\ 0 \in 0..(Len(Conns) * RunTime) /\ timer # Idle
        /\ spare \in 0..Outage
    <3>1. N * RunTime \in Nat
      BY Lengths
    <3>2. QED
      BY <3>1, Lengths DEF NewEntry, Entry, N, DataCap, StaleAfter, Init
  <2>2. SchedulerTypeOK
    BY <2>1 DEF Init, SchedulerTypeOK
  <2>3. PassAccounted
    BY <2>1 DEF Init, PassAccounted, Own, Callers
  <2>4. \A c \in Ids : entries[c].age = Never
    BY <2>1 DEF Init
  <2>5. AgesBounded /\ SuccessRecorded /\ SeenInEntry
    BY <2>4 DEF AgesBounded, SuccessRecorded, SeenInEntry
  <2>6. QED
    BY <2>2, <2>3, <2>5 DEF PollInv
<1>2. PollInv /\ [Next]_vars => PollInv'
  <2>1. ASSUME PollInv, Next
        PROVE  PollInv'
    BY <2>1, BeginPassKeeps, SkipPassKeeps, PollKeeps, EndPassKeeps, AsksKeeps, RunEndsKeeps, RunThrowsKeeps,
       EditKeeps, RestartKeeps, ElapseKeeps DEF Next
  <2>2. ASSUME PollInv, UNCHANGED vars
        PROVE  PollInv'
    <3>1. /\ SchedulerTypeOK'
      BY <2>2 DEF PollInv, vars, schedVars, SchedulerTypeOK
    <3>2. PassAccounted' /\ AgesBounded' /\ SuccessRecorded' /\ SeenInEntry'
      BY <2>2, PassStays, RecordsStay DEF vars, schedVars, Own
    <3>3. QED
      BY <3>1, <3>2 DEF PollInv
  <2>3. QED
    BY <2>1, <2>2
<1>3. QED
  BY <1>1, <1>2, PTL DEF Spec

\* The state keeps its type, the time of a pass and the ages among it.
THEOREM SchedulerTypeTheorem == Spec => []SchedulerTypeOK
<1>1. PollInv => SchedulerTypeOK
  BY DEF PollInv
<1>2. QED
  BY <1>1, PollInductive, PTL

\* However many connections there are, each is tried again within MaxWait.
THEOREM TriedTheorem == Spec => []TriedAgain
<1>1. PollInv => TriedAgain
  BY WithinWait DEF PollInv, TriedAgain, SchedulerTypeOK
<1>2. QED
  BY <1>1, PollInductive, PTL

\* While its polls succeed a connection never looks stale, for any number of
\* connections, if runs and ticks are short against the interval.
THEOREM HealthyTheorem == ASSUME ShortRuns PROVE Spec => []HealthyStaysFresh
<1>1. PollInv => HealthyStaysFresh
  <2>1. ASSUME PollInv, NEW c \in conns \cap Bound, entries[c].failures = 0, entries[c].age # Never
        PROVE  data[c] # Never /\ data[c] <= StaleAfter
    <3>1. c \in Ids /\ data[c] # Never /\ data[c] <= entries[c].age + RunTime /\ data[c] \in Nat
      BY <2>1, Parts DEF PollInv, SuccessRecorded
    <3>2. /\ entries[c].age \in Nat /\ Span(N - 1) \in Nat /\ Span(N) \in Nat
          /\ entries[c].age <= Interval - 1 + Pause + Span(N - 1) + Span(N)
      BY <2>1, <3>1, WithinCeiling DEF PollInv, Ceiling
    <3>3. /\ Interval \in Nat /\ Pause \in Nat /\ RunTime \in Nat /\ N \in Nat /\ N >= 1
      BY <3>1, Lengths
    <3>4. Span(N) = Span(N - 1) + RunTime
      BY <3>3, WholeSpans
    <3>5. Pause + Span(N) + Span(N) <= 2 * Interval + 1
      <4>1. 2 * N * RunTime = Span(N) + Span(N)
        BY <3>3 DEF Span
      <4>2. Pause + 2 * N * RunTime <= 2 * Interval + 1
        BY DEF ShortRuns, N, Pause
      <4>3. QED
        BY <3>2, <3>3, <4>1, <4>2
    <3>6. entries[c].age + RunTime <= Interval - 1 + Pause + Span(N) + Span(N)
      BY <3>2, <3>3, <3>4
    <3>7. entries[c].age + RunTime <= 3 * Interval
      <4>1. 3 * Interval = Interval - 1 + (2 * Interval + 1)
        BY <3>3
      <4> DEFINE rest == Pause + Span(N) + Span(N)
      <4>2. /\ rest \in Int /\ rest <= 2 * Interval + 1
            /\ entries[c].age + RunTime <= Interval - 1 + rest
        BY <3>2, <3>3, <3>5, <3>6
      <4> HIDE DEF rest
      <4>3. entries[c].age + RunTime \in Int /\ Interval \in Int
        BY <3>2, <3>3
      <4>4. QED
        BY <4>1, <4>2, <4>3
    <3>8. QED
      BY <3>1, <3>2, <3>3, <3>7 DEF StaleAfter
  <2>2. QED
    BY <2>1 DEF HealthyStaysFresh
<1>2. QED
  BY <1>1, PollInductive, PTL

\* Doubling does not shorten a delay, and a delay is cut at the ceiling.
LEMMA DelayAtLeast ==
    ASSUME NEW entry \in Entry
    PROVE  /\ Delay(entry) \in Int /\ Delay(entry) >= Least(Interval, MaxBackoff)
           /\ entry.failures = 0 => Delay(entry) = Interval
<1>1. /\ Interval \in Nat \ {0} /\ MaxDoublings \in Nat \ {0} /\ MaxBackoff \in Nat \ {0}
      /\ entry.failures \in 0..MaxDoublings
  BY Lengths DEF Entry
<1>2. PICK times \in Nat \ {0} : times = 2 ^ Least(entry.failures, MaxDoublings)
  <2>1. Least(entry.failures, MaxDoublings) \in 0..MaxDoublings
    BY <1>1 DEF Least
  <2>2. QED
    BY <2>1, PowersAssumption
<1>3. Interval * times \in Int /\ Interval * times >= Interval
  BY <1>1
<1>4. Delay(entry) = IF entry.failures = 0 THEN Interval ELSE Least(Interval * times, MaxBackoff)
  BY <1>2 DEF Delay
<1>5. QED
  BY <1>1, <1>3, <1>4 DEF Least

\* The poller does not ask for what it has seen asked less than an interval ago, or less
\* than the ceiling of the backoff where it has failed and that is the shorter.
THEOREM AskedTheorem == Spec => NotAskedTwice
<1>1. ASSUME PollInv, NEW c \in Ids, Due(c), entries[c].age # Never
      PROVE  /\ entries[c].failures = 0 => quiet[c] >= Interval
             /\ quiet[c] >= Least(Interval, MaxBackoff)
  <2>1. /\ entries[c] \in Entry /\ entries[c].age \in Nat /\ lag \in Nat
        /\ quiet[c] \in 0..Interval /\ Interval \in Nat /\ MaxBackoff \in Nat
    BY <1>1, Parts, Lengths DEF PollInv, Entry
  <2>2. /\ Delay(entries[c]) \in Int /\ Delay(entries[c]) >= Least(Interval, MaxBackoff)
        /\ entries[c].failures = 0 => Delay(entries[c]) = Interval
    BY <2>1, DelayAtLeast
  <2>3. entries[c].age >= Delay(entries[c])
    BY <1>1, <2>1, <2>2 DEF Due
  <2>4. quiet[c] >= Interval \/ quiet[c] >= entries[c].age
    BY <1>1, <2>1 DEF PollInv, SeenInEntry
  <2>5. QED
    BY <2>1, <2>2, <2>3, <2>4 DEF Least
<1>2. ASSUME PollInv, Next, Own = Idle, Own' # Idle, NEW c \in Ids, Own'.scope = c,
             entries[c].age # Never
      PROVE  /\ entries[c].failures = 0 => quiet[c] >= Interval
             /\ quiet[c] >= Least(Interval, MaxBackoff)
  <2>1. runs \in [Callers -> Run \cup {Idle}] /\ "scheduler" \in Callers
    BY <1>2 DEF PollInv, SchedulerTypeOK, Callers
  <2>2. CASE Poll
    <3>1. PICK n \in 1..Len(todo) : /\ Wanted(todo[n])
                                    /\ runs' = [runs EXCEPT !["scheduler"] = Begun(todo[n])]
      BY <2>2 DEF Poll
    <3>2. Own' = Begun(todo[n]) /\ Begun(todo[n]).scope = todo[n]
      BY <2>1, <3>1 DEF Own, Begun
    <3>3. QED
      BY <1>1, <1>2, <3>1, <3>2 DEF Wanted
  <2>3. CASE Elapse
    BY <1>2, <2>1, <2>3 DEF Elapse, Own
  <2>4. CASE Restart
    BY <1>2, <2>1, <2>4 DEF Restart, Own
  <2>5. ASSUME NEW who \in Callers, RunEnds(who) \/ RunThrows(who)
        PROVE  FALSE
    BY <1>2, <2>1, <2>5 DEF RunEnds, RunThrows, Own
  <2>6. ASSUME NEW ask \in Asked, Asks(ask[1], ask[2])
        PROVE  FALSE
    <3>1. ask[1] # "scheduler"
      OBVIOUS
    <3>2. QED
      BY <1>2, <2>1, <2>6, <3>1 DEF Asks, Own
  <2>7. CASE BeginPass \/ SkipPass \/ EndPass \/ \E x \in Ids : Edit(x)
    BY <1>2, <2>7 DEF BeginPass, SkipPass, EndPass, Edit, Own
  <2>8. QED
    BY <1>2, <2>2, <2>3, <2>4, <2>5, <2>6, <2>7 DEF Next
<1>3. PollInv /\ [Next]_vars
        => [\A c \in Ids :
              runs["scheduler"] = Idle /\ runs'["scheduler"] # Idle
                /\ runs'["scheduler"].scope = c /\ entries[c].age # Never
              => /\ entries[c].failures = 0 => quiet[c] >= Interval
                 /\ quiet[c] >= Least(Interval, MaxBackoff)]_vars
  BY <1>2 DEF Own
<1>4. QED
  BY <1>3, PollInductive, PTL DEF Spec, NotAskedTwice

=============================================================================
