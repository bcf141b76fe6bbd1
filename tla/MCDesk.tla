------------------------------- MODULE MCDesk -------------------------------
(***************************************************************************)
(* What the operator has in front of him: the notes dialog, the query      *)
(* cache under the board, what is arranged on it, the screen of projects,  *)
(* and the lane of tickets.  They share no state but the process they run  *)
(* in, so one of them moves in each behaviour, and the states of a run are *)
(* the sum of theirs.                                                      *)
(***************************************************************************)
EXTENDS Notes, Window, Preferences, Projects, Lane, TLC

CONSTANTS
    Parts, n1, t1, t2, t3, a1, a2,
    r1, c1, s1, x1, x2,                           \* Preferences
    i1, b1, b2,                                   \* Projects
    y1, done                                      \* Lane

MCIds == {n1}
MCTexts == {t1, t2, t3}
MCAgents == {a1, a2}
Alike == Permutations(MCTexts) \cup Permutations(MCAgents)

\* One operation of each kind that the window hears of in its own way.
MCCalled == {"notes.update", "history.record", "history.revise", "sessions.heartbeat",
             "focus.set", "updates.post", "outbox.claim", "projects.upsert",
             "connections.remove", "settings.update", "sync.now"}

VARIABLE part

\* The lists that are kept by hand agree with the registry.
ASSUME ListsAgree ==
    /\ Tools \subseteq NamesFor("mcp")
    /\ PreloadOperations = NamesFor("ipc")
    /\ \A op, other \in Operations : op.name = other.name => op = other

\* A row that does not parse, and one in which everything has been arranged.
Arranged == [folds |-> {r1}, project |-> c1, mine |-> TRUE, hidden |-> {s1},
             appearance |-> "dark", geometry |-> [display |-> x2, at |-> "aside"],
             onTop |-> TRUE]
MCRegions == {r1}
MCChips == {c1}
MCHideable == {s1}
MCDisplays == {x1, x2}
MCRequested == {Void, x2}
MCFoundRows == {Unreadable, Arranged}

MCCodes == {i1}
MCIdOf == i1 :> i1
MCAccounts == {b1, b2}

Ticket(project, yours, status, points, page, pulls, links) ==
    [project |-> project, yours |-> yours, status |-> status, points |-> points,
     page |-> page, pulls |-> pulls, links |-> links]

\* Three tickets, one of which no project tracks: before a sync; after one that has
\* put the pull requests of the first in another order; and after one that lost it.
Tracked == Ticket(y1, TRUE, Nil, 3, 11, <<21, 22>>, {7})
Stray == Ticket(Nil, FALSE, done, Nil, 12, Nil, {})
Plain == Ticket(y1, TRUE, Nil, 3, 13, << >>, {})
MCMirrors ==
    {1 :> Tracked @@ 2 :> Stray @@ 3 :> Plain,
     1 :> [Tracked EXCEPT !.pulls = <<22, 21>>, !.links = {}, !.points = 5] @@ 2 :> Stray
        @@ 3 :> [Plain EXCEPT !.pulls = <<23>>, !.yours = FALSE],
     2 :> Stray @@ 3 :> Plain}

\* One of the pages has an address that is not https.
MCHttps == {7, 11, 12, 21, 22, 23}
MCTracked == {y1}
MCStatuses == {done}

deskVars == <<vars, windowVars, prefsVars, projectsVars, laneVars, part>>

DeskInit ==
    /\ part \in Parts
    /\ Init /\ WindowInit /\ PreferencesInit /\ ProjectsInit /\ LaneInit
    /\ part # "window" => query = "notes.list"
    /\ part # "preferences" => row = Unreadable /\ projects = {}
    /\ part # "projects" => accounts = {} /\ table = << >>
    /\ part # "lane" => DOMAIN mirror = {2, 3}

DeskNext ==
    /\ UNCHANGED part
    /\ \/ /\ part = "notes" /\ NotesNext
          /\ UNCHANGED <<windowVars, prefsVars, projectsVars, laneVars>>
       \/ /\ part = "window" /\ WindowNext
          /\ UNCHANGED <<vars, prefsVars, projectsVars, laneVars>>
       \/ /\ part = "preferences" /\ PreferencesNext
          /\ UNCHANGED <<vars, windowVars, projectsVars, laneVars>>
       \/ /\ part = "projects" /\ ProjectsNext
          /\ UNCHANGED <<vars, windowVars, prefsVars, laneVars>>
       \/ /\ part = "lane" /\ LaneNext
          /\ UNCHANGED <<vars, windowVars, prefsVars, projectsVars>>

DeskSpec == DeskInit /\ [][DeskNext]_deskVars

\* The variables of each have their types.
DeskTypeOK ==
    NotesTypeOK /\ WindowTypeOK /\ PreferencesTypeOK /\ ProjectsTypeOK /\ LaneTypeOK

=============================================================================
