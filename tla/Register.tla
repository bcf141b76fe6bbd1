------------------------------- MODULE Register -------------------------------
(***************************************************************************)
(* What optimistic concurrency is to promise, with no revisions in it: a   *)
(* set of cells that several writers share, where a writer replaces or     *)
(* empties a cell only when what he holds of it is what is in it.  What a  *)
(* writer holds may be out of date at any time, and he may be told again.  *)
(***************************************************************************)
CONSTANTS Cells, Writers, Vacant, Emptied

VARIABLES cell, held

Full(c) == cell[c] \notin {Vacant, Emptied}

RegisterInit ==
    /\ cell = [c \in Cells |-> Vacant]
    /\ held = [w \in Writers |-> cell]

OnlyCell(c) == \A d \in Cells \ {c} : cell'[d] = cell[d]

\* A cell is filled once.
Fill(c) ==
    /\ cell[c] = Vacant
    /\ cell'[c] \notin {Vacant, Emptied}
    /\ OnlyCell(c)

\* It is replaced or emptied by a writer that holds what it contains.
Replace(w, c) ==
    /\ Full(c)
    /\ held[w][c] = cell[c]
    /\ cell'[c] # Vacant
    /\ OnlyCell(c)

\* Whoever writes or asks may come to hold something else; nobody else does.
Learns(w) == \A v \in Writers \ {w} : held'[v] = held[v]

RegisterNext ==
    \E w \in Writers :
        /\ Learns(w)
        /\ UNCHANGED cell \/ \E c \in Cells : Fill(c) \/ Replace(w, c)

RegisterSpec == RegisterInit /\ [][RegisterNext]_<<cell, held>>

=============================================================================
