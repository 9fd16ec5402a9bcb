------------------------------ MODULE Game2048 ------------------------------
(***************************************************************************)
(* game.py: the board of 2048 and its loop.  The source has four rows and   *)
(* four columns, and a tile is 2 in nine cases of ten and 4 in the tenth:   *)
(* either may come at any time.                                             *)
(***************************************************************************)
EXTENDS Integers, Sequences

CONSTANTS
    ROWS, COLS,
    MaxScore        \* no turn is taken once the score is past it

ASSUME Game2048Assumption ==
    ROWS \in Nat \ {0} /\ COLS \in Nat \ {0} /\ ROWS * COLS > 1 /\ MaxScore \in Nat

VARIABLES
    phase,          \* "new", "playing" or "over"
    board,
    score,
    fours           \* history: the tiles of value 4 that were drawn

boardVars == <<phase, board, score, fours>>

Squares      == (1 .. ROWS) \X (1 .. COLS)
Directions == {"w", "a", "s", "d"}

Power[k \in Nat] == IF k = 0 THEN 1 ELSE 2 * Power[k - 1]

PowersOfTwo == {Power[k] : k \in 1 .. ROWS * COLS + 1}

GameTypeOK ==
    /\ phase \in {"new", "playing", "over"}
    /\ board \in [1 .. ROWS -> [1 .. COLS -> {0} \cup PowersOfTwo]]
    /\ score \in Nat /\ fours \in Nat

GameInit ==
    /\ phase = "new"
    /\ board = [r \in 1 .. ROWS |-> [c \in 1 .. COLS |-> 0]]
    /\ score = 0 /\ fours = 0

-----------------------------------------------------------------------------
Empty(b) == {cell \in Squares : b[cell[1]][cell[2]] = 0}

WithTile(b, cell, v) ==
    [r \in 1 .. ROWS |-> [c \in 1 .. COLS |-> IF <<r, c>> = cell THEN v ELSE b[r][c]]]

\* The boards add_random_tile() may make of b, with the value it drew.
WithRandomTile(b) ==
    IF Empty(b) = {} THEN {<<b, 0>>}
    ELSE {<<WithTile(b, cell, v), v>> : cell \in Empty(b), v \in {2, 4}}

FoursIn(drawn) == IF drawn = 4 THEN 1 ELSE 0

\* Board(): two random tiles.
NewGame ==
    /\ phase = "new"
    /\ phase' = "playing"
    /\ \E first \in WithRandomTile(board) :
          \E second \in WithRandomTile(first[1]) :
             /\ board' = second[1]
             /\ fours' = FoursIn(first[2]) + FoursIn(second[2])
    /\ UNCHANGED score

-----------------------------------------------------------------------------
\* TilesUpTo(row)[n] is the tiles of the first n squares.
TilesUpTo(row) ==
    LET tiles[n \in 0 .. Len(row)] ==
            IF n = 0 THEN << >>
            ELSE IF row[n] = 0 THEN tiles[n - 1] ELSE Append(tiles[n - 1], row[n])
    IN  tiles

Tiles(row) == TilesUpTo(row)[Len(row)]

\* Mutant: the merged tile moves on and may merge again.
MergeAt_Chain(m, c) ==
    IF m.row[c] = m.row[c + 1]
    THEN [row |-> [m.row EXCEPT ![c] = 0, ![c + 1] = 2 * @],
          gained |-> m.gained + 2 * m.row[c]]
    ELSE m

\* Mutant: a merge scores one of the two tiles.
MergeAt_HalfScore(m, c) ==
    IF m.row[c] = m.row[c + 1]
    THEN [row |-> [m.row EXCEPT ![c] = 2 * @, ![c + 1] = 0],
          gained |-> m.gained + m.row[c]]
    ELSE m

\* One round of the loop over the tiles of a row.
MergeAt(m, c) ==
    IF m.row[c] = m.row[c + 1]
    THEN [row |-> [m.row EXCEPT ![c] = 2 * @, ![c + 1] = 0],
          gained |-> m.gained + 2 * m.row[c]]
    ELSE m

\* Merging(tiles)[c] is the row and the points before the round of tile c.
Merging(tiles) ==
    LET before[c \in 0 .. Len(tiles)] ==
            IF c <= 1 THEN [row |-> tiles, gained |-> 0]
            ELSE MergeAt(before[c - 1], c - 1)
    IN  before

Merged(tiles) == Merging(tiles)[Len(tiles)]

Gained(row) == Merged(Tiles(row)).gained

\* A row after left_pressed(): the tiles left of zeros.
Slid(row) ==
    LET tiles == Tiles(Merged(Tiles(row)).row)
    IN  [c \in DOMAIN row |-> IF c <= Len(tiles) THEN tiles[c] ELSE 0]

Transposed(b)   == [c \in DOMAIN b[1] |-> [r \in DOMAIN b |-> b[r][c]]]
RowsReversed(b) == [r \in DOMAIN b |-> [c \in DOMAIN b[r] |-> b[r][Len(b[r]) + 1 - c]]]

\* Total(f)[n] is the sum of f[1] to f[n].
Total(f) ==
    LET sum[n \in 0 .. Len(f)] == IF n = 0 THEN 0 ELSE sum[n - 1] + f[n]
    IN  sum

\* The board as left_pressed() must see it to press in a direction, and back.
Turned(b, direction) ==
    CASE direction = "a" -> b
      [] direction = "d" -> RowsReversed(b)
      [] direction = "w" -> Transposed(b)
      [] direction = "s" -> RowsReversed(Transposed(b))

TurnedBack(b, direction) ==
    CASE direction = "a" -> b
      [] direction = "d" -> RowsReversed(b)
      [] direction = "w" -> Transposed(b)
      [] direction = "s" -> Transposed(RowsReversed(b))

\* The board after move(direction), and what the merges add to the score.
Moved(b, direction) ==
    LET rows == Turned(b, direction)
    IN  TurnedBack([r \in DOMAIN rows |-> Slid(rows[r])], direction)

GainedBy(b, direction) ==
    LET rows == Turned(b, direction)
    IN  Total([r \in DOMAIN rows |-> Gained(rows[r])])[Len(rows)]

\* Mutant: only neighbours in a row are compared.
has_valid_moves_Rows(b) ==
    \/ Empty(b) # {}
    \/ \E r \in 1 .. ROWS, c \in 2 .. COLS : b[r][c] = b[r][c - 1]

has_valid_moves(b) ==
    \/ Empty(b) # {}
    \/ \E r \in 2 .. ROWS, c \in 1 .. COLS : b[r][c] = b[r - 1][c]
    \/ \E r \in 1 .. ROWS, c \in 2 .. COLS : b[r][c] = b[r][c - 1]

\* A tile is drawn only if the board changed.
play_turn(direction) ==
    /\ score' = score + GainedBy(board, direction)
    /\ \E result \in IF Moved(board, direction) = board THEN {<<board, 0>>}
                     ELSE WithRandomTile(Moved(board, direction)) :
          /\ board' = result[1]
          /\ fours' = fours + FoursIn(result[2])
    /\ UNCHANGED phase

Turn ==
    /\ phase = "playing" /\ has_valid_moves(board)
    /\ score <= MaxScore
    /\ \E direction \in Directions : play_turn(direction)

\* An input that is none of the letters is asked for again.
InvalidMove ==
    /\ phase = "playing" /\ has_valid_moves(board)
    /\ UNCHANGED boardVars

Over ==
    /\ phase = "playing" /\ ~has_valid_moves(board)
    /\ phase' = "over"
    /\ UNCHANGED <<board, score, fours>>

GameOver == phase = "over" /\ UNCHANGED boardVars

GameNext == NewGame \/ Turn \/ InvalidMove \/ Over \/ GameOver

GameSpec == GameInit /\ [][GameNext]_boardVars

-----------------------------------------------------------------------------
\* The points of all the merges that make a tile out of tiles of value 2.
WorthOf[v \in Nat] == IF v <= 2 THEN 0 ELSE 2 * WorthOf[v \div 2] + v

Worth(row) == Total([c \in DOMAIN row |-> WorthOf[row[c]]])[Len(row)]

(***************************************************************************)
(* The score is what the tiles on the board cost to make out of the tiles   *)
(* that were drawn: no slide in any direction loses, invents or miscounts   *)
(* one (game.py:50-98).                                                     *)
(***************************************************************************)
TilesAccounted ==
    score + 4 * fours = Total([r \in DOMAIN board |-> Worth(board[r])])[Len(board)]

\* The tiles of a row after merging the first pair of equal neighbours, then
\* the first pair after it, and so on: Greedily(tiles)[n] is the last n tiles.
Greedily(tiles) ==
    LET last[n \in 0 .. Len(tiles)] ==
            LET k == Len(tiles) - n + 1
            IN  IF n = 0 THEN << >>
                ELSE IF n > 1 /\ tiles[k] = tiles[k + 1]
                     THEN <<2 * tiles[k]>> \o last[n - 2]
                     ELSE <<tiles[k]>> \o last[n - 1]
    IN  last

(***************************************************************************)
(* A slide in any direction merges pairs of equal neighbours from the wall  *)
(* it slides to, each tile at most once, and moves all tiles to that wall:  *)
(* the zeros the loop writes while it compares never count as a tile        *)
(* (game.py:59-64).                                                         *)
(***************************************************************************)
SlidesGreedily ==
    phase = "playing" =>
        \A direction \in Directions :
            LET before == Turned(board, direction)
                after  == Turned(Moved(board, direction), direction)
            IN  \A r \in DOMAIN before :
                    /\ Tiles(after[r]) = Greedily(Tiles(before[r]))[Len(Tiles(before[r]))]
                    /\ \A c \in 2 .. Len(after[r]) : after[r][c] # 0 => after[r][c - 1] # 0

(***************************************************************************)
(* The game is declared over exactly when no direction changes the board    *)
(* any more: neither too early nor in a state where every turn is idle      *)
(* (game.py:124-141 and 160).                                               *)
(***************************************************************************)
OverMeansStuck ==
    phase # "new" =>
        (has_valid_moves(board) <=>
            \E direction \in Directions : Moved(board, direction) # board)

=============================================================================
