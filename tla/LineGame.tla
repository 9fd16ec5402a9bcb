------------------------------ MODULE LineGame ------------------------------
(***************************************************************************)
(* The game tic_tac_toe.h describes: two players take turns to mark a cell, *)
(* the first to own a whole line wins, a full board without a winner is a   *)
(* draw, and the result is announced with the number of moves.              *)
(***************************************************************************)
EXTENDS Naturals, FiniteSets

CONSTANTS
    Cells,
    Lines,          \* the sets of cells that win
    X, O, Empty

VARIABLES
    marks,          \* the mark on each cell
    result          \* the announcement: {} until the game is decided

vars == <<marks, result>>

Moves     == Cardinality({c \in Cells : marks[c] # Empty})
Turn      == IF Moves % 2 = 0 THEN X ELSE O
Wins(p)   == \E line \in Lines : \A c \in line : marks[c] = p
Full      == \A c \in Cells : marks[c] # Empty
Undecided == ~Wins(X) /\ ~Wins(O) /\ ~Full

Init ==
    /\ marks = [c \in Cells |-> Empty]
    /\ result = {}

Mark(c) ==
    /\ Undecided
    /\ marks[c] = Empty
    /\ marks' = [marks EXCEPT ![c] = Turn]
    /\ UNCHANGED result

AnnounceWin(p) ==
    /\ Wins(p)
    /\ result' = {<<p, Moves>>}
    /\ UNCHANGED marks

AnnounceDraw ==
    /\ Full /\ ~Wins(X) /\ ~Wins(O)
    /\ result' = {<<Empty, Moves>>}
    /\ UNCHANGED marks

Announce == AnnounceWin(X) \/ AnnounceWin(O) \/ AnnounceDraw

Next == (\E c \in Cells : Mark(c)) \/ Announce

Safety == Init /\ [][Next]_vars

\* A decided game is announced.
Spec == Safety /\ WF_vars(Announce)

=============================================================================
