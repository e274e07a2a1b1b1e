------------------------------- MODULE Screen -------------------------------
(***************************************************************************)
(* What LCDIIC.h promises of the display: after LCDIIC_vInit it is blank,  *)
(* and LCDIIC_vShowStringAt puts a text on it, one character after         *)
(* another, from a column and a row on, the end of a row going on at the   *)
(* start of the next.  Nothing is promised once the display is garbled,    *)
(* until the program starts again.                                         *)
(***************************************************************************)
EXTENDS Integers, Sequences

CONSTANTS Task, Width, High, Char, Blank

Cell == (0..High - 1) \X (0..Width - 1)     \* a row and a column
Glyph == Char \union {Blank}

VARIABLES
    ready,      \* the display is initialised
    cells,      \* what each place shows
    typing,     \* what each task has still to show, and where
    garbled
svars == <<ready, cells, typing, garbled>>

Idle(t) == typing[t].text = <<>>

Init ==
    /\ ready = FALSE
    /\ garbled = FALSE
    /\ \A t \in Task : Idle(t)

\* The place after the one at row and column.
After(row, col) ==
    IF col + 1 < Width THEN <<row, col + 1>> ELSE <<(row + 1) % High, 0>>

\* Until it is ready the display may show anything.
Prepare ==
    /\ ~ready
    /\ ready' = FALSE
    /\ UNCHANGED <<typing, garbled>>

Appear ==
    /\ ~ready
    /\ ready' = TRUE
    /\ cells' = [p \in Cell |-> Blank]
    /\ UNCHANGED <<typing, garbled>>

\* Task t starts to show a text, when no other is being shown.
Begin(t) ==
    /\ ready
    /\ \A u \in Task : Idle(u)
    /\ typing'[t].text # <<>>
    /\ \A u \in Task \ {t} : typing'[u] = typing[u]
    /\ UNCHANGED <<ready, cells, garbled>>

\* The next character of task t's text appears at its place and nowhere else.
Type(t) ==
    LET now == typing[t]
        next == After(now.row, now.col)
    IN /\ ready
       /\ ~Idle(t)
       /\ cells' = [cells EXCEPT ![<<now.row, now.col>>] = Head(now.text)]
       /\ typing' = [typing EXCEPT ![t] = [text |-> Tail(now.text),
                                           row |-> next[1], col |-> next[2]]]
       /\ UNCHANGED <<ready, garbled>>

Garble == garbled' = TRUE

\* The program starts again, with the display as it was left.
Restart ==
    /\ ready' = FALSE
    /\ garbled' = FALSE
    /\ \A t \in Task : typing'[t].text = <<>>
    /\ cells' = cells

Next == Prepare \/ Appear \/ (\E t \in Task : Begin(t) \/ Type(t)) \/ Garble \/ Restart

Spec == Init /\ [][Next]_svars
=============================================================================
