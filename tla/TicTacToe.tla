------------------------------ MODULE TicTacToe ------------------------------
(***************************************************************************)
(* tic_tac_toe.c and the loop of run_tic_tac_toe.c.  A board is the array   *)
(* it is in memory, so that spaces[r][c] is element r * BOARD_DIM + c       *)
(* whatever c is.  In the source BOARD_DIM = 3.                             *)
(***************************************************************************)
EXTENDS Integers, FiniteSets

CONSTANTS
    BOARD_DIM,
    Numbers         \* the numbers a player may type

ASSUME BoardAssumption ==
    /\ BOARD_DIM \in Nat \ {0, 1}
    /\ Numbers \subseteq Int

EMPTY_SPACE == " "
X_SPACE     == "X"
O_SPACE     == "O"
Players     == {X_SPACE, O_SPACE}

Cells == 0 .. BOARD_DIM * BOARD_DIM - 1
Index == 0 .. BOARD_DIM - 1

VARIABLES
    spaces, current_turn, num_moves,
    stdin,          \* "open", or "eof" when the input has ended
    at,             \* "loop", "flush" (in flush_input_line) or "done"
    printed         \* the announcement, {} before

gameVars == <<spaces, current_turn, num_moves>>
vars     == <<gameVars, stdin, at, printed>>

TypeOK ==
    /\ spaces \in [Cells -> Players \cup {EMPTY_SPACE}]
    /\ current_turn \in Players
    /\ num_moves \in Nat
    /\ stdin \in {"open", "eof"}
    /\ at \in {"loop", "flush", "done"}
    /\ printed \subseteq (Players \cup {EMPTY_SPACE}) \X Nat

\* setup_state
Init ==
    /\ spaces = [c \in Cells |-> EMPTY_SPACE]
    /\ current_turn = X_SPACE
    /\ num_moves = 0
    /\ stdin = "open"
    /\ at = "loop"
    /\ printed = {}

-----------------------------------------------------------------------------
get_opposing_player(player) == IF player = X_SPACE THEN O_SPACE ELSE X_SPACE

Cell(row, col) == row * BOARD_DIM + col

is_valid_space(row, col) == row \in Index /\ col \in Index
is_empty_space(row, col) == spaces[Cell(row, col)] = EMPTY_SPACE
is_full                  == \A c \in Cells : spaces[c] # EMPTY_SPACE

RowLine(row) == {Cell(row, col) : col \in Index}
ColLine(col) == {Cell(row, col) : row \in Index}
TraceLine    == {Cell(i, i) : i \in Index}

\* The other diagonal as line 136 reads it: column BOARD_DIM - index of row
\* index, which is the first cell of the next row when index is 0.
CrossLine == {Cell(i, BOARD_DIM - i) : i \in Index}

WinLines == {RowLine(i) : i \in Index} \cup {ColLine(i) : i \in Index}
                \cup {TraceLine, CrossLine}

is_win(player) == \E line \in WinLines : \A c \in line : spaces[c] = player

player_win == is_win(get_opposing_player(current_turn))
game_over  == is_full \/ is_win(X_SPACE) \/ is_win(O_SPACE)

\* Mutant: the turn stays with the player who moved.
next_move_Stay == current_turn' = current_turn

next_move == current_turn' = get_opposing_player(current_turn)

\* Mutant: an occupied space can be taken.
move_Overwrite(row, col) ==
    /\ is_valid_space(row, col)
    /\ spaces' = [spaces EXCEPT ![Cell(row, col)] = current_turn]
    /\ next_move
    /\ num_moves' = num_moves + 1

\* move() when it returns 1.
move(row, col) ==
    /\ is_valid_space(row, col)
    /\ is_empty_space(row, col)
    /\ spaces' = [spaces EXCEPT ![Cell(row, col)] = current_turn]
    /\ next_move
    /\ num_moves' = num_moves + 1

-----------------------------------------------------------------------------
Looping == at = "loop" /\ ~game_over

(***************************************************************************)
(* One turn of the loop.  A line that parses gives any pair of numbers, and *)
(* so does the uninitialised buffer that fgets() leaves at the end of       *)
(* input.                                                                   *)
(***************************************************************************)
PlayTurn(row, col) ==
    /\ Looping
    /\ move(row, col)
    /\ UNCHANGED <<stdin, at, printed>>

\* A move that is refused, a line that does not parse, or one that is too
\* long and is flushed up to its newline: the prompt comes again.
Reprompt == Looping /\ UNCHANGED vars

EndInput == stdin = "open" /\ stdin' = "eof" /\ UNCHANGED <<gameVars, at, printed>>

\* At the end of input no newline arrives: flush_input_line() never returns,
\* unless the uninitialised buffer happens to hold one.
StartFlush ==
    /\ Looping /\ stdin = "eof"
    /\ at' = "flush"
    /\ UNCHANGED <<gameVars, stdin, printed>>

Flushing == at = "flush" /\ UNCHANGED vars

\* After the loop.
Announce ==
    /\ at = "loop" /\ game_over
    /\ at' = "done"
    /\ printed' = IF player_win
                  THEN {<<get_opposing_player(current_turn), num_moves>>}
                  ELSE {<<EMPTY_SPACE, num_moves>>}
    /\ UNCHANGED <<gameVars, stdin>>

Exited == at = "done" /\ UNCHANGED vars

Next ==
    \/ \E row \in Numbers, col \in Numbers : PlayTurn(row, col)
    \/ Reprompt \/ EndInput \/ StartFlush \/ Flushing \/ Announce \/ Exited

\* The process runs on when it needs no input; nobody has to type a move.
Spec == Init /\ [][Next]_vars /\ WF_vars(Announce)

-----------------------------------------------------------------------------
(***************************************************************************)
(* Whoever has won moved last, so asking for the opposing player's win is   *)
(* enough, and both can never have won (tic_tac_toe.c:176-181).             *)
(***************************************************************************)
WinnerMovedLast == ~is_win(current_turn)

(***************************************************************************)
(* The library plays the game of its header with the lines is_win looks at: *)
(* alternating marks, no mark after the game is decided, and the right      *)
(* announcement with the number of marks, also when the input has ended.    *)
(***************************************************************************)
Game == INSTANCE LineGame WITH
    Lines <- WinLines, X <- X_SPACE, O <- O_SPACE, Empty <- EMPTY_SPACE,
    marks <- spaces, result <- printed

ImplementsLineGame == Game!Spec

(***************************************************************************)
(* tic_tac_toe.h:113-114: "A player is considered to have won on a board if *)
(* they have three of their character in a row."                            *)
(***************************************************************************)
AntiDiagonal == {Cell(i, BOARD_DIM - 1 - i) : i \in Index}

TrueLines == (WinLines \ {CrossLine}) \cup {AntiDiagonal}

WonIsThreeInARow ==
    \A player \in Players :
        is_win(player) <=> \E line \in TrueLines : \A c \in line : spaces[c] = player

=============================================================================
