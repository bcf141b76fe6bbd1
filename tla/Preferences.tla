---------------------------- MODULE Preferences ----------------------------
(***************************************************************************)
(* What the operator arranges and expects to find again: the one row of    *)
(* settings (services/settings.ts), the window that is placed and kept on  *)
(* top by it (main/persistence.ts, main/index.ts), and the board's copies  *)
(* of it: folds, project filter, hidden statuses and theme (renderer:      *)
(* regions, filter, App, theme).                                           *)
(*                                                                         *)
(* A handler of main runs in one step; messages keep their order in both   *)
(* directions.                                                             *)
(***************************************************************************)
EXTENDS Sequences, Naturals

CONSTANTS
    Regions, Chips, Hideable,  \* what can be folded, selected and hidden
    Displays, Primary,         \* screens; the primary one is always attached
    Requested,                 \* what GRNDCTRL_DISPLAY may name: displays, or Void
    FoundRows,                 \* the rows that a launch may find
    Void, Missing, Unreadable,
    MaxPressed                 \* bound on what the operator does

VARIABLES
    row,       \* the settings row: Missing, Unreadable or settings
    projects,  \* the projects that are stored
    up,        \* the service runs
    launched,  \* the window state that was read at launch
    window,    \* the window: open, where, large, on top, and the timer of a save
    toMain,    \* patches on their way
    asked,     \* reads on their way: how many patches are ahead of each, or Void
    toBoard,
    cached,    \* settings.get in the query cache, or Void
    known,     \* projects.list in the query cache, or Void
    view,      \* what the board shows
    touched,   \* the refs of useRegionState and useFilter
    pressed,   \* how often the operator has done anything
    hasty      \* ghost: a theme was chosen before the stored one had been read

prefsVars == <<row, projects, up, launched, window, toMain, asked, toBoard, cached, known,
               view, touched, pressed, hasty>>

Appearances == {"system", "dark"}
Places == [display : Displays, at : {"centre", "aside"}]

Settings == [folds : SUBSET Regions, project : Chips \cup {Void}, mine : BOOLEAN,
             hidden : SUBSET Hideable, appearance : Appearances,
             geometry : Places \cup {Void}, onTop : BOOLEAN]
SettingKeys == {"folds", "project", "mine", "hidden", "appearance", "geometry", "onTop"}

\* DEFAULT_SETTINGS
Default == [folds |-> {}, project |-> Void, mine |-> FALSE, hidden |-> {},
            appearance |-> "system", geometry |-> Void, onTop |-> FALSE]

Blank == [folds |-> {}, project |-> Void, mine |-> FALSE, hidden |-> Void,
          appearance |-> "system"]
NoWindow == [open |-> FALSE, place |-> Void, large |-> FALSE, onTop |-> FALSE,
             timer |-> FALSE, moved |-> FALSE, again |-> FALSE]

ASSUME PreferencesAssumption ==
    /\ Primary \in Displays
    /\ Requested \subseteq Displays \cup {Void}
    /\ FoundRows \subseteq Settings \cup {Missing, Unreadable}
    /\ Missing \notin Settings /\ Unreadable \notin Settings
    /\ Void \notin Chips \cup Displays \cup Places \cup Settings
    /\ \A set \in (SUBSET Chips) \cup (SUBSET Hideable) : set # Void
    /\ Void \notin Nat /\ MaxPressed \in Nat

\* A patch has one key; the window may wait to be told that it has been stored.
SettingPatches == UNION {[key : {k}, value : {t[k] : t \in Settings}, told : BOOLEAN] :
                            k \in SettingKeys \ {"geometry"}}
\* The query cache, and ThemeProvider.
Readers == {"cache", "theme"}
BoardReplies == [what : {"answer", "dropped"}, by : Readers, seen : Settings]
           \cup [what : {"stored"}]
NotAsked == [by \in Readers |-> Void]

PreferencesTypeOK ==
    /\ row \in Settings \cup {Missing, Unreadable}
    /\ projects \in SUBSET Chips
    /\ up \in BOOLEAN
    /\ launched \in [geometry : Places \cup {Void}, onTop : BOOLEAN]
    /\ window \in [open : BOOLEAN, place : Places \cup {Void}, large : BOOLEAN,
                   onTop : BOOLEAN, timer : BOOLEAN, moved : BOOLEAN, again : BOOLEAN]
    /\ toMain \in Seq(SettingPatches)
    /\ asked \in [Readers -> {Void} \cup 0..Len(toMain)]
    /\ toBoard \in Seq(BoardReplies)
    /\ cached \in Settings \cup {Void}
    /\ known \in {Void} \cup SUBSET Chips
    /\ view \in [folds : SUBSET Regions, project : Chips \cup {Void}, mine : BOOLEAN,
                 hidden : {Void} \cup SUBSET Hideable, appearance : Appearances]
    /\ touched \in [folds : BOOLEAN, filter : BOOLEAN]
    /\ pressed \in 0..MaxPressed
    /\ hasty \in BOOLEAN

PreferencesInit ==
    /\ row \in FoundRows
    /\ projects \in SUBSET Chips
    /\ up = FALSE
    /\ launched = [geometry |-> Void, onTop |-> FALSE]
    /\ window = NoWindow
    /\ toMain = << >> /\ asked = NotAsked /\ toBoard = << >>
    /\ cached = Void /\ known = Void
    /\ view = Blank
    /\ touched = [folds |-> FALSE, filter |-> FALSE]
    /\ pressed = 0
    /\ hasty = FALSE

-----------------------------------------------------------------------------
(* The settings row.                                                       *)

\* read: a row that is missing or of which one key does not parse is the defaults.
Parsed(stored) == IF stored \in {Missing, Unreadable} THEN Default ELSE stored

\* Mutant: the patch goes over the defaults.
OverDefaults(stored, key, value) == [Default EXCEPT ![key] = value]

\* update: the patch over what is read now, in one synchronous call.
Merged(stored, key, value) == [Parsed(stored) EXCEPT ![key] = value]

-----------------------------------------------------------------------------
(* The window.                                                             *)

Centre(display) == [display |-> display, at |-> "centre"]

\* placement: GRNDCTRL_DISPLAY, then the saved place if its title bar is on a screen.
Placement(saved, attached, requested) ==
    IF requested \in attached THEN Centre(requested)
    ELSE IF saved # Void /\ saved.display \in attached THEN saved
    ELSE Centre(Primary)

\* createWindow, from what was read at launch.
Opened(saved, again) ==
    \E others \in SUBSET (Displays \ {Primary}), requested \in Requested :
        window' = [NoWindow EXCEPT
                     !.open = TRUE, !.onTop = saved.onTop, !.again = again,
                     !.place = Placement(saved.geometry, others \cup {Primary}, requested)]

\* What a renderer holds goes with it.
Forgotten ==
    /\ view' = Blank
    /\ touched' = [folds |-> FALSE, filter |-> FALSE]
    /\ cached' = Void /\ known' = Void
    /\ toBoard' = << >>
    /\ hasty' = FALSE

\* The renderer starts, and reads: App through the cache, ThemeProvider on its own.
Mounts == Forgotten /\ asked' = [by \in Readers |-> Len(toMain)] /\ UNCHANGED toMain

Launch ==
    /\ ~up
    /\ up' = TRUE
    /\ launched' = [geometry |-> Parsed(row).geometry, onTop |-> Parsed(row).onTop]
    /\ Opened(launched', FALSE)
    /\ Mounts
    /\ UNCHANGED <<row, projects, pressed>>

\* macOS: a click on the dock when no window is open; `saved` is that of the launch.
Activate ==
    /\ up /\ ~window.open
    /\ Opened(launched, TRUE)
    /\ Mounts
    /\ UNCHANGED <<row, projects, up, launched, pressed>>

\* capture: a window that is maximised, minimised or full screen is not saved.
Captured == IF window.large THEN row ELSE Merged(row, "geometry", window.place)

\* A gesture: bounded.
Pressing == /\ pressed < MaxPressed
            /\ pressed' = pressed + 1

\* `move` and `resize` set the timer again.
Reshape(place, large) ==
    /\ Pressing
    /\ window.open
    /\ window' = [window EXCEPT !.place = place, !.large = large, !.timer = TRUE,
                                !.moved = TRUE]
    /\ UNCHANGED <<row, projects, up, launched, toMain, asked, toBoard, cached, known,
                   view, touched, hasty>>

Move ==
    /\ ~window.large
    /\ \E place \in [display : Displays, at : {"aside"}] : Reshape(place, FALSE)
Maximise == Reshape(window.place, ~window.large)

\* The debounced save.
Settle ==
    /\ window.timer
    /\ row' = Captured
    /\ window' = [window EXCEPT !.timer = FALSE]
    /\ UNCHANGED <<projects, up, launched, toMain, asked, toBoard, cached, known,
                   view, touched, pressed, hasty>>

\* A patch whose window has gone is stored, and nobody is told.
Untold(patches) == [i \in DOMAIN patches |-> [patches[i] EXCEPT !.told = FALSE]]

\* `close`: flush, and the renderer ends; what it had written may still
\* arrive.  Except on macOS the app quits with its last window.
Close ==
    /\ window.open
    /\ row' = Captured
    /\ window' = NoWindow
    /\ Forgotten
    /\ up' \in BOOLEAN
    /\ \E n \in 0..Len(toMain) :
         toMain' = IF up' THEN Untold(SubSeq(toMain, 1, n)) ELSE << >>
    /\ asked' = NotAsked
    /\ UNCHANGED <<projects, launched, pressed>>

\* before-quit comes before the windows close: the service is gone when `close`
\* captures, and the pending timer with it.
Quit ==
    /\ up
    /\ up' = FALSE
    /\ window' = NoWindow
    /\ toMain' = << >> /\ asked' = NotAsked /\ Forgotten
    /\ UNCHANGED <<row, projects, launched, pressed>>

-----------------------------------------------------------------------------
(* Main answers the renderer.                                              *)

\* settings.get, once the patches ahead of it have been stored.
Answer(by) ==
    /\ asked[by] = 0
    /\ asked' = [asked EXCEPT ![by] = Void]
    /\ toBoard' = Append(toBoard, [what |-> "answer", by |-> by, seen |-> Parsed(row)])
    /\ UNCHANGED <<row, projects, up, launched, window, toMain, cached, known, view,
                   touched, pressed, hasty>>

\* settings.update, and applyWindowState with what has been stored.
Store ==
    /\ up /\ toMain # << >> /\ \A by \in Readers : asked[by] # 0
    /\ row' = Merged(row, Head(toMain).key, Head(toMain).value)
    /\ window' = IF window.open THEN [window EXCEPT !.onTop = row'.onTop] ELSE window
    /\ toMain' = Tail(toMain)
    /\ asked' = [by \in Readers |-> IF asked[by] = Void THEN Void ELSE asked[by] - 1]
    /\ toBoard' = IF Head(toMain).told THEN Append(toBoard, [what |-> "stored"]) ELSE toBoard
    /\ UNCHANGED <<projects, up, launched, cached, known, view, touched, pressed,
                   hasty>>

-----------------------------------------------------------------------------
(* The board.                                                              *)

\* The effects of useRegionState and useFilter: what was read is shown unless the
\* operator has pressed something; a project that is gone does not come back.
Seeded(seen, list) ==
    IF seen = Void THEN view
    ELSE [view EXCEPT
            !.folds = IF touched.folds THEN @ ELSE seen.folds,
            !.mine = IF touched.filter THEN @ ELSE seen.mine,
            !.project = IF touched.filter THEN @
                        ELSE IF list # Void /\ seen.project \in list THEN seen.project
                        ELSE Void]

\* The answer to a fetch that was cancelled.
Unfetched(replies) ==
    [i \in DOMAIN replies |->
        IF replies[i].what = "answer" /\ replies[i].by = "cache"
        THEN [replies[i] EXCEPT !.what = "dropped"] ELSE replies[i]]

\* An invalidation cancels the fetch under way and asks again.
Refetch(replies) ==
    /\ toBoard' = Unfetched(replies)
    /\ asked' = [asked EXCEPT !["cache"] = Len(toMain)]

Hear ==
    /\ toBoard # << >>
    /\ LET m == Head(toBoard)
           rest == Tail(toBoard)
       IN  \/ /\ m.what = "answer" /\ m.by = "cache"
              /\ cached' = m.seen
              /\ view' = Seeded(m.seen, known)
              /\ toBoard' = rest /\ UNCHANGED asked
           \/ /\ m.what = "answer" /\ m.by = "theme"
              /\ view' = [view EXCEPT !.appearance = m.seen.appearance]
              /\ toBoard' = rest /\ UNCHANGED <<cached, asked>>
           \/ /\ m.what = "dropped"
              /\ toBoard' = rest /\ UNCHANGED <<cached, view, asked>>
           \/ /\ m.what = "stored"
              /\ Refetch(rest)
              /\ UNCHANGED <<cached, view>>
    /\ UNCHANGED <<row, projects, up, launched, window, toMain, known, touched,
                   pressed, hasty>>

\* projects.list is answered: at the start, and when a sync has finished, which
\* invalidates the settings too.
List ==
    /\ window.open /\ known # projects
    /\ known' = projects
    /\ view' = Seeded(cached, projects)
    /\ IF known = Void THEN UNCHANGED <<asked, toBoard>> ELSE Refetch(toBoard)
    /\ UNCHANGED <<row, projects, up, launched, window, toMain, cached, touched,
                   pressed, hasty>>

\* The title bar is drawn once there is a list, the regions once it is not empty.
Drawn == window.open /\ known # Void
Filled == Drawn /\ known # {}

\* writeSettings
Write(key, value, told) ==
    /\ toMain' = Append(toMain, [key |-> key, value |-> value, told |-> told])
    /\ UNCHANGED <<row, projects, up, launched, window, asked, toBoard, cached,
                   known>>

Other(x, set) == IF x \in set THEN set \ {x} ELSE set \cup {x}

\* useRegionState.toggle
Fold(r) ==
    /\ Filled /\ Pressing
    /\ touched' = [touched EXCEPT !.folds = TRUE]
    /\ view' = [view EXCEPT !.folds = Other(r, @)]
    /\ Write("folds", view'.folds, TRUE)
    /\ UNCHANGED hasty

\* useFilter.select: a chip pressed again is let go.
Select(p) ==
    /\ Drawn /\ p \in known /\ Pressing
    /\ touched' = [touched EXCEPT !.filter = TRUE]
    /\ view' = [view EXCEPT !.project = IF @ = p THEN Void ELSE p]
    /\ Write("project", view'.project, TRUE)
    /\ UNCHANGED hasty

\* useFilter.toggleMine
ToggleMine ==
    /\ Filled /\ Pressing
    /\ touched' = [touched EXCEPT !.filter = TRUE]
    /\ view' = [view EXCEPT !.mine = ~@]
    /\ Write("mine", view'.mine, TRUE)
    /\ UNCHANGED hasty

\* What the lane hides: the operator's choice over the saved one.
Hidden == IF view.hidden # Void THEN view.hidden
          ELSE IF cached # Void THEN cached.hidden ELSE {}

Hide(statuses) ==
    /\ Filled /\ Pressing
    /\ view' = [view EXCEPT !.hidden = statuses]
    /\ Write("hidden", statuses, TRUE)
    /\ UNCHANGED <<touched, hasty>>

HideOrShow == \/ \E s \in Hideable : Hide(Other(s, Hidden))
              \/ Hidden # {} /\ Hide({})

ToggleOnTop ==
    /\ Drawn /\ cached # Void /\ Pressing
    /\ Write("onTop", ~cached.onTop, TRUE)
    /\ UNCHANGED <<view, touched, hasty>>

\* ThemeProvider has not read yet.
ThemeUnread == \/ asked["theme"] # Void
               \/ \E i \in DOMAIN toBoard : toBoard[i].what = "answer" /\ toBoard[i].by = "theme"

\* setAppearance: no invalidation follows.
SetAppearance(a) ==
    /\ Drawn /\ Pressing
    /\ view' = [view EXCEPT !.appearance = a]
    /\ hasty' = (hasty \/ ThemeUnread)
    /\ Write("appearance", a, FALSE)
    /\ UNCHANGED touched

\* projects.upsert and projects.remove from the settings screen: the board's list
\* has another key and is not invalidated.
ChangeProjects(p) ==
    /\ Drawn /\ Pressing
    /\ projects' = Other(p, projects)
    /\ UNCHANGED <<row, up, launched, window, toMain, asked, toBoard, cached, known,
                   view, touched, hasty>>

PreferencesNext ==
    \/ Launch \/ Activate \/ Move \/ Maximise \/ Settle \/ Close \/ Quit
    \/ Store \/ Hear \/ List
    \/ \E by \in Readers : Answer(by)
    \/ \E r \in Regions : Fold(r)
    \/ \E p \in Chips : Select(p) \/ ChangeProjects(p)
    \/ ToggleMine \/ HideOrShow \/ ToggleOnTop
    \/ \E a \in Appearances : SetAppearance(a)

PreferencesSpec == PreferencesInit /\ [][PreferencesNext]_prefsVars

-----------------------------------------------------------------------------
(* What is checked.                                                        *)

AtRest == /\ window.open /\ toMain = << >> /\ asked = NotAsked /\ toBoard = << >>
          /\ cached # Void /\ known # Void

\* When nothing is under way the board is arranged as the next launch will arrange
\* it, however gestures, reads, refetches and saves of the window crossed
\* (regions.tsx, FR-144; filter.ts, FR-082): the folds, the hidden statuses and a
\* theme chosen after the stored one was read; what narrows the board is stored; the
\* window is on top as stored unless it was reopened; and one that has been moved
\* and is at rest will be found where it is.
PreferencesKept ==
    /\ AtRest =>
        /\ view.folds = Parsed(row).folds
        /\ Hidden = Parsed(row).hidden
        /\ hasty \/ view.appearance = Parsed(row).appearance
        /\ view.project \in {Void, Parsed(row).project}
        /\ view.mine => Parsed(row).mine
        /\ window.again \/ window.onTop = Parsed(row).onTop
    /\ window.open /\ window.moved /\ ~window.timer /\ ~window.large
         => Parsed(row).geometry = window.place

=============================================================================
