-------------------------------- MODULE Lane --------------------------------
(***************************************************************************)
(* The lane of tickets and what its rows open (renderer: lanes/Lanes.tsx,  *)
(* lanes/sort.ts, filter.ts, Row.tsx; main/links.ts; services/links.ts).   *)
(*                                                                         *)
(* The window draws the board it has read.  A press names a ticket and     *)
(* what of it is wanted, never a page: main looks that up in the mirror as *)
(* it is by then.                                                          *)
(***************************************************************************)
EXTENDS Naturals, FiniteSets, Sequences, Functions

CONSTANTS
    Mirrors,   \* what the mirror may hold: keys, in their natural order, to tickets
    Projects, Statuses,
    Https,     \* the pages that a browser may be given
    Nil

VARIABLES
    mirror,  \* the tickets that are stored
    board,   \* drawn: the board in the query cache, or Nil
    chosen,  \* the project chip that is pressed, or Nil
    mine,    \* only what is in the operator's court
    hidden,  \* the statuses that are hidden
    sort,    \* the column that is sorted by and which way, or Nil
    press    \* the last thing that was pressed, or Nil

laneVars == <<mirror, board, chosen, mine, hidden, sort, press>>

ASSUME LaneAssumption ==
    /\ \A m \in Mirrors :
        /\ DOMAIN m \subseteq Nat /\ IsFiniteSet(DOMAIN m)
        /\ \A k \in DOMAIN m :
            /\ m[k] # Nil
            /\ m[k].points \in Nat \cup {Nil} /\ m[k].pulls \in Seq(Nat) \cup {Nil}
            /\ m[k].page \in Nat /\ m[k].links \subseteq Nat
    /\ Nil \notin Nat

\* One column of the ticket that may be unknown, and one that is read off a list.
Columns == {"points", "pr"}
Orders == [column : Columns, up : BOOLEAN]
TicketKeys == UNION {DOMAIN m : m \in Mirrors}
Tickets == UNION {{m[k] : k \in DOMAIN m} : m \in Mirrors}

\* A page is known by its number, which is that of a pull request in the lane.
PagesOf(t) == {t.page} \cup t.links \cup (IF t.pulls = Nil THEN {} ELSE Range(t.pulls))
Pages == UNION {PagesOf(t) : t \in Tickets}

\* Ghosts: the page that was drawn, the ticket as it was drawn, and the ticket in the
\* mirror when main looked it up.
Presses == [key : TicketKeys, what : {"ticket", "pull-request", "link"}, at : Nat,
            shown : Pages \cup {Nil}, from : Tickets \cup {Nil},
            state : {"asked", "opened", "refused"}, page : Pages \cup {Nil},
            then : Tickets \cup {Nil}]

LaneTypeOK ==
    /\ mirror \in Mirrors
    /\ board \in Mirrors \cup {Nil}
    /\ chosen \in Projects \cup {Nil}
    /\ mine \in BOOLEAN
    /\ hidden \in SUBSET Statuses
    /\ sort \in Orders \cup {Nil}
    /\ press \in Presses \cup {Nil}

LaneInit ==
    /\ mirror \in Mirrors
    /\ board = Nil
    /\ chosen = Nil /\ mine = FALSE /\ hidden = {}
    /\ sort = Nil
    /\ press = Nil

-----------------------------------------------------------------------------
(* The rows.                                                               *)

\* filterWork, and the status filter, which is this lane's only.
Visible ==
    IF board = Nil THEN {}
    ELSE {k \in DOMAIN board : /\ chosen = Nil \/ board[k].project = chosen
                               /\ mine => board[k].yours
                               /\ board[k].status \notin hidden}

\* The accessors.  A ticket whose pull requests are unknown has none to sort by.
Cell(k, column) ==
    CASE column = "points" -> board[k].points
      [] column = "pr" -> IF board[k].pulls \in {Nil, << >>} THEN Nil
                          ELSE board[k].pulls[1]

\* Mutant: the direction turns what is unknown, too.
GoesTurned(a, b) ==
    /\ sort # Nil
    /\ LET left == IF sort.up THEN Cell(a, sort.column) ELSE Cell(b, sort.column)
           right == IF sort.up THEN Cell(b, sort.column) ELSE Cell(a, sort.column)
       IN  left # Nil /\ (right = Nil \/ left < right)

\* The comparison of applySort: unknown last, ahead of the direction.
Goes(a, b) ==
    /\ sort # Nil
    /\ LET left == Cell(a, sort.column)
           right == Cell(b, sort.column)
       IN  /\ left # Nil
           /\ right = Nil \/ (IF sort.up THEN left < right ELSE left > right)

\* Core's order is that of the keys, and the sort keeps equals in order.
Precedes(a, b) == Goes(a, b) \/ (a < b /\ ~Goes(b, a))

\* applySort
Rows ==
    [n \in 1..Cardinality(Visible) |->
        CHOOSE k \in Visible : Cardinality({j \in Visible : Precedes(j, k)}) = n - 1]

\* nextSort: up, down, off.
NextSort(column) ==
    IF sort = Nil \/ sort.column # column THEN [column |-> column, up |-> TRUE]
    ELSE IF sort.up THEN [sort EXCEPT !.up = FALSE]
    ELSE Nil

-----------------------------------------------------------------------------
(* The window.                                                             *)

\* A sync has finished.
Sync ==
    /\ \E m \in Mirrors \ {mirror} : mirror' = m
    /\ UNCHANGED <<board, chosen, mine, hidden, sort, press>>

\* The board is read again.
Read ==
    /\ board # mirror
    /\ board' = mirror
    /\ UNCHANGED <<mirror, chosen, mine, hidden, sort, press>>

Heading(column) ==
    /\ board # Nil
    /\ sort' = NextSort(column)
    /\ UNCHANGED <<mirror, board, chosen, mine, hidden, press>>

Narrow ==
    /\ board # Nil
    /\ \/ \E p \in Projects :
            chosen' = (IF chosen = p THEN Nil ELSE p) /\ UNCHANGED <<mine, hidden>>
       \/ mine' = ~mine /\ UNCHANGED <<chosen, hidden>>
       \/ \E s \in Statuses :
            /\ hidden' = IF s \in hidden THEN hidden \ {s} ELSE hidden \cup {s}
            /\ UNCHANGED <<chosen, mine>>
    /\ UNCHANGED <<mirror, board, sort, press>>

\* openSubject, openLink: a message to main.
Ask(k, what, at, shown) ==
    /\ press # Nil => press.state # "asked"
    /\ press' = [key |-> k, what |-> what, at |-> at, shown |-> shown,
                 from |-> IF k \in DOMAIN board THEN board[k] ELSE Nil,
                 state |-> "asked", page |-> Nil, then |-> Nil]
    /\ UNCHANGED <<mirror, board, chosen, mine, hidden, sort>>

\* A row, one of the numbers in it, or a link in the description of the active ticket.
OpenRow(k) == k \in Range(Rows) /\ Ask(k, "ticket", 0, board[k].page)
OpenPull(k) ==
    /\ k \in Range(Rows) /\ board[k].pulls # Nil
    /\ \E i \in DOMAIN board[k].pulls : Ask(k, "pull-request", i, board[k].pulls[i])
OpenLink(k) ==
    /\ board # Nil /\ k \in DOMAIN board
    /\ \E page \in board[k].links : Ask(k, "link", page, page)

\* The active ticket, which need not be on the board.
OpenActive(k) ==
    /\ board # Nil
    /\ Ask(k, "ticket", 0, IF k \in DOMAIN board THEN board[k].page ELSE Nil)

-----------------------------------------------------------------------------
(* Main.                                                                   *)

\* Mutant: the position is lost on the way.
FirstPull(ticket, at) == IF ticket.pulls \in {Nil, << >>} THEN Nil ELSE ticket.pulls[1]

PullAt(ticket, at) ==
    IF ticket.pulls # Nil /\ at \in DOMAIN ticket.pulls THEN ticket.pulls[at] ELSE Nil

\* resolveLink, and descriptionLinkOpener: a link has to be in the description.
Resolved(key, what, at) ==
    LET page == IF key \notin DOMAIN mirror THEN Nil
                ELSE CASE what = "ticket" -> mirror[key].page
                       [] what = "pull-request" -> PullAt(mirror[key], at)
                       [] what = "link" -> IF at \in mirror[key].links THEN at ELSE Nil
    IN  IF page \in Https THEN page ELSE Nil

OpenPage ==
    /\ press # Nil /\ press.state = "asked"
    /\ LET page == Resolved(press.key, press.what, press.at)
       IN  press' = [press EXCEPT
                       !.page = page,
                       !.state = IF page = Nil THEN "refused" ELSE "opened",
                       !.then = IF press.key \in DOMAIN mirror THEN mirror[press.key] ELSE Nil]
    /\ UNCHANGED <<mirror, board, chosen, mine, hidden, sort>>

LaneNext ==
    \/ Sync \/ Read \/ Narrow \/ OpenPage
    \/ \E column \in Columns : Heading(column)
    \/ \E k \in TicketKeys : OpenRow(k) \/ OpenPull(k) \/ OpenLink(k) \/ OpenActive(k)

LaneSpec == LaneInit /\ [][LaneNext]_laneVars

-----------------------------------------------------------------------------
(* What is checked.                                                        *)

\* Whichever way and by whatever the lane is sorted, what is unknown comes last and
\* equals keep core's order, also under filters (lanes/sort.ts: each is a way a sort
\* can lie); what opens is a page of the ticket that was pressed, and the page that
\* was drawn unless the ticket has changed since (services/links.ts: never a fallback).
LaneIsHonest ==
    /\ sort # Nil =>
         LET rows == Rows
             cell(i) == Cell(rows[i], sort.column)
         IN  \A i, j \in DOMAIN rows : i < j =>
                /\ cell(i) = Nil => cell(j) = Nil
                /\ cell(i) = cell(j) => rows[i] < rows[j]
    /\ press # Nil /\ press.state = "opened" =>
         /\ press.page \in PagesOf(press.then)
         /\ press.from = press.then => press.page = press.shown

\* What opens is what was drawn (Row.tsx: each number opens that pull request).
PressOpensShown ==
    press # Nil /\ press.state = "opened" /\ press.shown # Nil => press.page = press.shown

=============================================================================
