------------------------------ MODULE Dispatch ------------------------------
(***************************************************************************)
(* What the outbox promises the operator, without clock, lease, sweep or   *)
(* history.  A gesture agrees to one request.  It may be forgotten, or     *)
(* turned into one action, and never into two.  An action waits until an   *)
(* agent takes it.  While taken it has one holder and only that holder     *)
(* ends it; otherwise it goes back to waiting, or to another holder.  An   *)
(* action that has ended stays as it is.                                   *)
(*                                                                         *)
(* One step may move several actions: releasing what has been held too     *)
(* long is done for the whole table by whoever asks next.                  *)
(***************************************************************************)
CONSTANTS Requests, Gestures, Actions, Holders, None

VARIABLES
    agreed,  \* the request each gesture agreed to
    open,    \* the gestures that can still become an action
    phase,   \* where each action is
    holder,  \* who holds it
    gesture  \* the gesture it came from

vars == <<agreed, open, phase, holder, gesture>>

Init ==
    /\ agreed = [g \in Gestures |-> None]
    /\ open = {}
    /\ phase = [a \in Actions |-> "none"]
    /\ holder = [a \in Actions |-> None]
    /\ gesture = [a \in Actions |-> None]

\* A new gesture opens; older ones may be forgotten at the same time.
Agree(g, r) ==
    /\ agreed[g] = None
    /\ agreed' = [agreed EXCEPT ![g] = r]
    /\ g \in open' /\ open' \subseteq open \cup {g}
    /\ UNCHANGED <<phase, holder, gesture>>

Forget ==
    /\ open' \subseteq open
    /\ UNCHANGED <<agreed, phase, holder, gesture>>

\* The gesture is used up by the action it becomes.
Raise(g, a) ==
    /\ g \in open /\ open' \subseteq open \ {g}
    /\ phase[a] = "none"
    /\ phase' = [phase EXCEPT ![a] = "waiting"]
    /\ gesture' = [gesture EXCEPT ![a] = g]
    /\ UNCHANGED <<agreed, holder>>

\* How one action may move, given who holds it before and after.
Stay(a) == phase'[a] = phase[a] /\ holder'[a] = holder[a]
Take(a) == phase[a] \in {"waiting", "taken"} /\ phase'[a] = "taken" /\ holder'[a] \in Holders
Release(a) == phase[a] = "taken" /\ phase'[a] = "waiting" /\ holder'[a] = None
Lapse(a) == phase[a] \in {"waiting", "taken"} /\ phase'[a] = "withdrawn" /\ holder'[a] = None

\* Releases and lapses go together, with at most one action taken.
Work ==
    /\ phase' \in [Actions -> {"none", "waiting", "taken", "done", "withdrawn"}]
    /\ holder' \in [Actions -> Holders \cup {None}]
    /\ \E first \in Actions :
        /\ Stay(first) \/ Take(first) \/ Release(first) \/ Lapse(first)
        /\ \A a \in Actions \ {first} : Stay(a) \/ Release(a) \/ Lapse(a)
    /\ UNCHANGED <<agreed, open, gesture>>

\* The holder, and nobody else, says how it ended.
Finish(a, h) ==
    /\ phase[a] = "taken" /\ holder[a] = h
    /\ phase' = [phase EXCEPT ![a] = "done"]
    /\ holder' = [holder EXCEPT ![a] = None]
    /\ UNCHANGED <<agreed, open, gesture>>

Next ==
    \/ \E g \in Gestures, r \in Requests : Agree(g, r)
    \/ Forget
    \/ \E g \in Gestures, a \in Actions : Raise(g, a)
    \/ Work
    \/ \E a \in Actions, h \in Holders : Finish(a, h)

Spec == Init /\ [][Next]_vars

=============================================================================
