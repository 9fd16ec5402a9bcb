------------------------------ MODULE GameProofs ------------------------------
(***************************************************************************)
(* Proofs about the two games, for every size of their boards: tic-tac-toe, *)
(* and below it 2048.                                                       *)
(***************************************************************************)
EXTENDS TicTacToe, Game2048, FiniteSetTheorems, SequenceTheorems, WellFoundedInduction,
        TLAPS

(***************************************************************************)
(* Every cell that is_win looks at is in the array, line 136 included, and  *)
(* each line has one.                                                       *)
(***************************************************************************)
LEMMA CellInBoard ==
    ASSUME NEW row \in Index, NEW col \in Index
    PROVE  Cell(row, col) \in Cells
<1> DEFINE N == BOARD_DIM
<1>1. N \in Nat /\ N >= 2 /\ row \in Int /\ col \in Int
  BY BoardAssumption DEF Index
<1>2. row * N \in Int /\ N * N \in Int
  BY <1>1
<1>3. 0 <= row * N /\ row * N <= N * N - N
  <2>1. row >= 0 /\ N - 1 - row >= 0
    BY <1>1 DEF Index
  <2>2. row * N >= 0 /\ (N - 1 - row) * N >= 0
    BY <1>1, <2>1
  <2>3. (N - 1 - row) * N = N * N - N - row * N
    BY <1>1
  <2> DEFINE x == row * N
             y == N * N
             z == (N - 1 - row) * N
  <2>4. x \in Int /\ y \in Int /\ x >= 0 /\ z >= 0 /\ z = y - N - x
    BY <1>2, <2>2, <2>3
  <2> HIDE DEF x, y, z
  <2>5. 0 <= x /\ x <= y - N
    BY <1>1, <2>4
  <2> QED
    BY <2>5 DEF x, y
<1> QED
  BY <1>1, <1>2, <1>3 DEF Cell, Cells, Index

LEMMA CrossInBoard ==
    ASSUME NEW i \in Index
    PROVE  Cell(i, BOARD_DIM - i) \in Cells
<1> DEFINE N == BOARD_DIM
<1>1. N \in Nat /\ N >= 2 /\ i \in Int /\ i >= 0 /\ N - 1 - i >= 0
  BY BoardAssumption DEF Index
<1>2. i * N \in Int /\ N * N \in Int /\ i * (N - 1) \in Int
  BY <1>1
<1>3. i * (N - 1) >= 0 /\ (N - 1 - i) * (N - 1) >= 0
  BY <1>1
<1>4. i * (N - 1) = i * N - i /\ (N - 1 - i) * (N - 1) = N * N - N - N + 1 - i * N + i
  BY <1>1
<1> QED
  BY <1>1, <1>2, <1>3, <1>4 DEF Cell, Cells

LEMMA LinesInBoard ==
    \A line \in WinLines : line \subseteq Cells /\ line # {}
<1>1. 0 \in Index
  BY BoardAssumption DEF Index
<1>2. \A i \in Index : RowLine(i) \subseteq Cells /\ RowLine(i) # {}
  BY <1>1, CellInBoard DEF RowLine
<1>3. \A i \in Index : ColLine(i) \subseteq Cells /\ ColLine(i) # {}
  BY <1>1, CellInBoard DEF ColLine
<1>4. TraceLine \subseteq Cells /\ TraceLine # {}
  BY <1>1, CellInBoard DEF TraceLine
<1>5. CrossLine \subseteq Cells /\ CrossLine # {}
  BY <1>1, CrossInBoard DEF CrossLine
<1> QED
  BY <1>2, <1>3, <1>4, <1>5 DEF WinLines

-----------------------------------------------------------------------------
(***************************************************************************)
(* The inductive invariant: whose turn it is and the number of moves follow *)
(* from the marks on the board, and the winner moved last.                  *)
(***************************************************************************)
MovesCounted == num_moves = Game!Moves /\ current_turn = Game!Turn

Inv == TypeOK /\ MovesCounted /\ WinnerMovedLast

Marked == {c \in Cells : spaces[c] # EMPTY_SPACE}

LEMMA SameCardinality == \A S : Game!Cardinality(S) = Cardinality(S)
  BY DEF Game!Cardinality, Cardinality

LEMMA MarkedFinite ==
    IsFiniteSet(Marked) /\ Game!Moves = Cardinality(Marked) /\ Game!Moves \in Nat
<1>1. BOARD_DIM * BOARD_DIM - 1 \in Int
  BY BoardAssumption
<1>2. IsFiniteSet(Cells)
  BY <1>1, FS_Interval DEF Cells
<1>3. IsFiniteSet(Marked)
  BY <1>2, FS_Subset DEF Marked
<1>4. Game!Moves = Cardinality(Marked)
  BY SameCardinality DEF Game!Moves, Marked
<1> QED
  BY <1>3, <1>4, FS_CardinalityType

LEMMA PlayersDiffer ==
    /\ X_SPACE # O_SPACE /\ X_SPACE # EMPTY_SPACE /\ O_SPACE # EMPTY_SPACE
    /\ \A p \in Players : get_opposing_player(p) \in Players \ {p}
  BY DEF X_SPACE, O_SPACE, EMPTY_SPACE, Players, get_opposing_player

LEMMA InitInv == Init => Inv
<1> SUFFICES ASSUME Init
             PROVE  Inv
  OBVIOUS
<1>1. TypeOK
  BY DEF Init, TypeOK, Players
<1>2. MovesCounted
  <2>1. Marked = {}
    BY DEF Init, Marked
  <2>2. Game!Moves = 0
    BY <2>1, MarkedFinite, FS_EmptySet
  <2> QED
    BY <2>2 DEF MovesCounted, Game!Turn, Init
<1>3. WinnerMovedLast
  BY LinesInBoard, PlayersDiffer DEF Init, WinnerMovedLast, is_win
<1> QED
  BY <1>1, <1>2, <1>3 DEF Inv

\* A move adds one mark and passes the turn.
LEMMA MoveCounts ==
    ASSUME Inv, NEW row, NEW col, move(row, col)
    PROVE  MovesCounted'
<1> DEFINE k == Cell(row, col)
<1>1. k \in Cells /\ spaces[k] = EMPTY_SPACE
  BY CellInBoard DEF move, is_valid_space, is_empty_space
<1>2. Marked' = Marked \cup {k} /\ k \notin Marked
  BY <1>1, PlayersDiffer DEF Inv, TypeOK, Marked, move, Players
<1>3. Game!Moves' = Game!Moves + 1 /\ Game!Moves \in Nat
  <2>1. Cardinality(Marked') = Cardinality(Marked) + 1
    BY <1>2, MarkedFinite, FS_AddElement
  <2>2. Game!Moves' = Cardinality(Marked')
    BY SameCardinality DEF Game!Moves, Marked
  <2> QED
    BY <2>1, <2>2, MarkedFinite
<1>4. num_moves' = num_moves + 1
  BY DEF move
<1>5. current_turn' = Game!Turn'
  <2>1. current_turn' = get_opposing_player(current_turn) /\ current_turn = Game!Turn
    BY DEF move, next_move, Inv, MovesCounted
  <2>2. Game!Turn' = IF Game!Moves' % 2 = 0 THEN X_SPACE ELSE O_SPACE
    BY DEF Game!Turn
  <2>3. (Game!Moves + 1) % 2 = 0 <=> Game!Moves % 2 # 0
    BY <1>3
  <2> QED
    BY <1>3, <2>1, <2>2, <2>3, PlayersDiffer DEF Game!Turn, get_opposing_player
<1> QED
  BY <1>3, <1>4, <1>5 DEF Inv, MovesCounted

\* A move completes no line of the other player.
LEMMA MoveWins ==
    ASSUME Inv, ~game_over, NEW row, NEW col, move(row, col)
    PROVE  WinnerMovedLast'
<1> DEFINE k == Cell(row, col)
           q == get_opposing_player(current_turn)
<1>1. k \in Cells
  BY CellInBoard DEF move, is_valid_space
<1>2. q \in Players /\ q # current_turn /\ current_turn' = q
  BY PlayersDiffer DEF Inv, TypeOK, move, next_move
<1>3. SUFFICES ASSUME NEW line \in WinLines, \A c \in line : spaces'[c] = q
               PROVE  FALSE
  BY <1>2 DEF WinnerMovedLast, is_win
<1>4. \A c \in line : spaces[c] = q
  BY <1>1, <1>2, <1>3, LinesInBoard DEF Inv, TypeOK, move
<1>5. is_win(q)
  BY <1>4 DEF is_win
<1> QED
  BY <1>2, <1>5 DEF game_over, Players

LEMMA InvStep == Inv /\ [Next]_vars => Inv'
<1> SUFFICES ASSUME Inv, [Next]_vars
             PROVE  Inv'
  OBVIOUS
<1>1. ASSUME NEW row \in Numbers, NEW col \in Numbers, PlayTurn(row, col)
      PROVE  Inv'
  <2>1. ~game_over /\ move(row, col)
    BY <1>1 DEF PlayTurn, Looping
  <2>2. MovesCounted' /\ WinnerMovedLast'
    BY <2>1, MoveCounts, MoveWins
  <2>3. TypeOK'
    <3>1. current_turn \in Players /\ current_turn' \in Players
      BY <2>1, PlayersDiffer DEF Inv, TypeOK, move, next_move
    <3>2. spaces' \in [Cells -> Players \cup {EMPTY_SPACE}]
      BY <2>1, <3>1 DEF Inv, TypeOK, move
    <3>3. num_moves' \in Nat
      BY <2>1 DEF Inv, TypeOK, move
    <3> QED
      BY <1>1, <3>1, <3>2, <3>3 DEF Inv, TypeOK, PlayTurn
  <2> QED
    BY <2>2, <2>3 DEF Inv
<1>2. ASSUME UNCHANGED gameVars
      PROVE  MovesCounted' /\ WinnerMovedLast'
  BY <1>2 DEF Inv, gameVars, MovesCounted, WinnerMovedLast, is_win, Game!Moves, Game!Turn
<1>3. CASE UNCHANGED vars
  BY <1>2, <1>3 DEF vars, Inv, TypeOK, gameVars
<1>4. CASE EndInput
  BY <1>2, <1>4 DEF EndInput, Inv, TypeOK, gameVars
<1>5. CASE StartFlush
  BY <1>2, <1>5 DEF StartFlush, Inv, TypeOK, gameVars
<1>6. CASE Announce
  <2>1. TypeOK'
    BY <1>6, PlayersDiffer DEF Announce, Inv, TypeOK, gameVars
  <2> QED
    BY <1>2, <1>6, <2>1 DEF Announce, Inv
<1> QED
  BY <1>1, <1>3, <1>4, <1>5, <1>6 DEF Next, Reprompt, Flushing, Exited

(***************************************************************************)
(* The types, and that the board and the two other fields of the state      *)
(* always agree (setup_state, move).                                        *)
(***************************************************************************)
THEOREM TicTacToeInv == Spec => []Inv
  BY InitInv, InvStep, PTL DEF Spec

(***************************************************************************)
(* player_win may ask about the opposing player alone                       *)
(* (tic_tac_toe.c:176-181).                                                 *)
(***************************************************************************)
THEOREM WinnerMovedLastHolds == Spec => []WinnerMovedLast
<1>1. Inv => WinnerMovedLast
  BY DEF Inv
<1> QED
  BY <1>1, TicTacToeInv, PTL

-----------------------------------------------------------------------------
(***************************************************************************)
(* The game of the header.                                                  *)
(***************************************************************************)
LEMMA LineGameInit == Init => Game!Init
  BY DEF Init, Game!Init

LEMMA LineGameOver ==
    /\ game_over <=> ~Game!Undecided
    /\ is_full <=> Game!Full
    /\ \A p \in Players : is_win(p) <=> Game!Wins(p)
  BY DEF game_over, is_full, is_win, Players, Game!Undecided, Game!Full, Game!Wins

\* A turn of the loop is a mark of the player whose turn it is.
LEMMA LineGameMark ==
    ASSUME Inv, NEW row, NEW col, PlayTurn(row, col)
    PROVE  \E c \in Cells : Game!Mark(c)
<1>1. Cell(row, col) \in Cells
  BY CellInBoard DEF PlayTurn, move, is_valid_space
<1>2. Game!Mark(Cell(row, col))
  BY LineGameOver DEF Game!Mark, PlayTurn, Looping, move, is_empty_space, Inv, MovesCounted
<1> QED
  BY <1>1, <1>2

\* The announcement after the loop is the right one.
LEMMA LineGameAnnounce ==
    ASSUME Inv, Announce
    PROVE  Game!Announce
<1> DEFINE q == get_opposing_player(current_turn)
<1>1. q \in Players /\ Players = {q, current_turn} /\ ~is_win(current_turn)
  BY PlayersDiffer DEF Inv, TypeOK, WinnerMovedLast, Players, get_opposing_player
<1>2. num_moves = Game!Moves /\ UNCHANGED spaces
  BY DEF Inv, MovesCounted, Announce, gameVars
<1>3. CASE player_win
  <2>1. Game!Wins(q)
    BY <1>1, <1>3, LineGameOver DEF player_win
  <2>2. printed' = {<<q, Game!Moves>>}
    BY <1>2, <1>3 DEF Announce
  <2>3. Game!AnnounceWin(q)
    BY <1>2, <2>1, <2>2 DEF Game!AnnounceWin
  <2> QED
    BY <1>1, <2>3 DEF Game!Announce, Players
<1>4. CASE ~player_win
  <2>1. ~is_win(X_SPACE) /\ ~is_win(O_SPACE)
    BY <1>1, <1>4 DEF player_win, Players
  <2>2. Game!Full /\ ~Game!Wins(X_SPACE) /\ ~Game!Wins(O_SPACE)
    BY <2>1, LineGameOver DEF Announce, game_over, Players
  <2>3. printed' = {<<EMPTY_SPACE, Game!Moves>>}
    BY <1>2, <1>4 DEF Announce
  <2> QED
    BY <1>2, <2>2, <2>3 DEF Game!Announce, Game!AnnounceDraw
<1> QED
  BY <1>3, <1>4

LEMMA LineGameStep == Inv /\ [Next]_vars => [Game!Next]_(Game!vars)
<1> SUFFICES ASSUME Inv, [Next]_vars
             PROVE  Game!Next \/ UNCHANGED <<spaces, printed>>
  BY DEF Game!vars
<1>1. CASE \E row \in Numbers, col \in Numbers : PlayTurn(row, col)
  BY <1>1, LineGameMark DEF Game!Next
<1>2. CASE Announce
  BY <1>2, LineGameAnnounce DEF Game!Next
<1>3. CASE EndInput \/ StartFlush \/ UNCHANGED vars
  BY <1>3 DEF EndInput, StartFlush, vars, gameVars
<1> QED
  BY <1>1, <1>2, <1>3 DEF Next, Reprompt, Flushing, Exited

(***************************************************************************)
(* The library plays the abstract game: turns alternate, no mark is made on *)
(* an occupied cell or after the end, and the winner and the number of      *)
(* moves that are printed are the game's (run_tic_tac_toe.c:13-29).         *)
(***************************************************************************)
THEOREM TicTacToeIsLineGame == Spec => Game!Safety
<1>1. Init => Game!Init
  BY LineGameInit
<1>2. Inv /\ [Next]_vars => [Game!Next]_(Game!vars)
  BY LineGameStep
<1> QED
  BY <1>1, <1>2, TicTacToeInv, PTL DEF Spec, Game!Safety

-----------------------------------------------------------------------------
(***************************************************************************)
(* 2048.  The definitions of the model recurse over the squares of a row:   *)
(* what they are is proved from the principle that a set of natural         *)
(* numbers has a least element, for rows of every length.                   *)
(***************************************************************************)

(***************************************************************************)
(* Induction and recursion over the natural numbers, from the principle     *)
(* that a set of natural numbers has a least element.                       *)
(***************************************************************************)
LEMMA Least ==
    ASSUME NEW T \in SUBSET Nat, T # {}
    PROVE  \E n \in T : \A m \in T : n <= m
<1>1. PICK n \in T : \A m \in T : ~(<<m, n>> \in OpToRel(<, Nat))
  BY WFMin, NatLessThanWellFounded
<1>2. \A m \in T : ~(m < n)
  BY <1>1 DEF OpToRel
<1> QED
  BY <1>2

\* A set of natural numbers that has 0 and every successor has them all.
LEMMA SetInduction ==
    ASSUME NEW S, 0 \in S, \A n \in Nat : n \in S => n + 1 \in S
    PROVE  Nat \subseteq S
<1> SUFFICES ASSUME Nat \ S # {}
             PROVE  FALSE
  OBVIOUS
<1>1. PICK n \in Nat \ S : \A m \in Nat \ S : n <= m
  BY Least
<1>2. n - 1 \in Nat /\ n - 1 \in S
  BY <1>1
<1> QED
  BY <1>1, <1>2

\* The two functions are the same below n.
SameBelow(f, g, n) == \A k \in 0 .. n - 1 : f[k] = g[k]

\* f follows the recursion below n.
Follows(f, step, n) == \A k \in 0 .. n - 1 : f[k] = step[k][f]

\* A set of natural numbers that has each whose smaller numbers it has, has all.
LEMMA StrongInduction ==
    ASSUME NEW S, \A n \in Nat : (\A k \in 0 .. n - 1 : k \in S) => n \in S
    PROVE  Nat \subseteq S
<1> SUFFICES ASSUME Nat \ S # {}
             PROVE  FALSE
  OBVIOUS
<1>1. PICK n \in Nat \ S : \A m \in Nat \ S : n <= m
  BY Least
<1>2. \A k \in 0 .. n - 1 : k \in S
  BY <1>1
<1> QED
  BY <1>1, <1>2

(***************************************************************************)
(* A function may be defined from its values at smaller arguments.          *)
(***************************************************************************)
LooksBelow(step, N, D) ==
    /\ step \in [0 .. N -> [[0 .. N -> D] -> D]]
    /\ \A f, g \in [0 .. N -> D] : \A n \in 0 .. N :
          SameBelow(f, g, n) => step[n][f] = step[n][g]

Solvable(step, N, D) == \E f \in [0 .. N -> D] : \A n \in 0 .. N : f[n] = step[n][f]

\* Such a definition has a solution.
LEMMA Recursion ==
    ASSUME NEW N \in Nat, NEW D, NEW d \in D, NEW step, LooksBelow(step, N, D)
    PROVE  Solvable(step, N, D)
<1>0. /\ step \in [0 .. N -> [[0 .. N -> D] -> D]]
      /\ \A f, g \in [0 .. N -> D] : \A n \in 0 .. N :
            SameBelow(f, g, n) => step[n][f] = step[n][g]
  BY DEF LooksBelow
<1> DEFINE F == [0 .. N -> D]
           S == {n \in Nat : n <= N + 1 => \E f \in F : Follows(f, step, n)}
<1>1. 0 \in S
  <2> DEFINE c == [k \in 0 .. N |-> d]
  <2>1. c \in F
    OBVIOUS
  <2> HIDE DEF c, F
  <2>2. Follows(c, step, 0)
    BY DEF Follows
  <2> QED
    BY <2>1, <2>2
<1>2. ASSUME NEW n \in Nat, n \in S
      PROVE  n + 1 \in S
  <2> SUFFICES ASSUME n + 1 <= N + 1
               PROVE  \E f \in F : Follows(f, step, n + 1)
    OBVIOUS
  <2>1. PICK f \in F : Follows(f, step, n)
    BY <1>2
  <2> DEFINE g == [f EXCEPT ![n] = step[n][f]]
  <2>2. n \in 0 .. N /\ step[n][f] \in D
    BY <1>0
  <2>3. g \in F /\ g[n] = step[n][f] /\ \A k \in 0 .. N : k # n => g[k] = f[k]
    BY <2>2
  <2> HIDE DEF g
  <2>4. ASSUME NEW k \in 0 .. n
        PROVE  g[k] = step[k][g]
    <3>1. SameBelow(f, g, k) /\ k \in 0 .. N
      BY <2>2, <2>3 DEF SameBelow
    <3>2. step[k][f] = step[k][g]
      BY <1>0, <2>3, <3>1
    <3>3. CASE k = n
      BY <2>3, <3>2, <3>3
    <3>4. CASE k # n
      BY <2>1, <2>3, <3>1, <3>2, <3>4 DEF Follows
    <3> QED
      BY <3>3, <3>4
  <2> QED
    BY <2>3, <2>4 DEF Follows
<1> HIDE DEF S
<1>3. Nat \subseteq S
  BY <1>1, <1>2, SetInduction
<1>4. PICK f \in F : Follows(f, step, N + 1)
  BY <1>3 DEF S
<1> QED
  BY <1>4 DEF Follows, Solvable

(***************************************************************************)
(* A function on the natural numbers may be defined from its values at      *)
(* smaller arguments.                                                       *)
(***************************************************************************)
LooksBack(step, D) ==
    /\ step \in [Nat -> [[Nat -> D] -> D]]
    /\ \A f, g \in [Nat -> D] : \A n \in Nat : SameBelow(f, g, n) => step[n][f] = step[n][g]

\* Such a definition has a solution.
LEMMA NatRecursion ==
    ASSUME NEW D, NEW d \in D, NEW step, LooksBack(step, D)
    PROVE  \E f \in [Nat -> D] : \A n \in Nat : f[n] = step[n][f]
<1> DEFINE F == [Nat -> D]
           S == {n \in Nat : \E f \in F : Follows(f, step, n)}
<1>0. /\ \A n \in Nat : \A f \in F : step[n][f] \in D
      /\ \A f, g \in F : \A n \in Nat : SameBelow(f, g, n) => step[n][f] = step[n][g]
  BY DEF LooksBack
<1>1. 0 \in S
  <2> DEFINE c == [k \in Nat |-> d]
  <2>1. c \in F
    OBVIOUS
  <2> HIDE DEF c, F
  <2>2. Follows(c, step, 0)
    BY DEF Follows
  <2> QED BY <2>1, <2>2
<1>2. ASSUME NEW n \in Nat, n \in S
      PROVE  n + 1 \in S
  <2>1. PICK f \in F : Follows(f, step, n)
    BY <1>2
  <2> DEFINE g == [f EXCEPT ![n] = step[n][f]]
  <2>2. g \in F /\ g[n] = step[n][f] /\ \A k \in Nat : k # n => g[k] = f[k]
    BY <1>0
  <2> HIDE DEF g
  <2>3. ASSUME NEW k \in 0 .. n
        PROVE  g[k] = step[k][g]
    <3>1. SameBelow(f, g, k) /\ k \in Nat
      BY <2>2 DEF SameBelow
    <3>2. step[k][f] = step[k][g]
      BY <1>0, <2>2, <3>1
    <3>3. CASE k = n
      BY <2>2, <3>2, <3>3
    <3>4. CASE k # n
      BY <2>1, <2>2, <3>1, <3>2, <3>4 DEF Follows
    <3> QED BY <3>3, <3>4
  <2>4. Follows(g, step, n + 1)
    BY <2>3 DEF Follows
  <2> QED BY <2>2, <2>4
<1> HIDE DEF S
<1>3. Nat \subseteq S
  BY <1>1, <1>2, SetInduction
<1> DEFINE G(n) == CHOOSE f \in F : Follows(f, step, n)
<1>4. \A n \in Nat : G(n) \in F /\ Follows(G(n), step, n)
  BY <1>3 DEF S
<1> HIDE DEF G
<1>5. ASSUME NEW m \in Nat, NEW n \in Nat, m <= n
      PROVE  SameBelow(G(m), G(n), m)
  <2> DEFINE E == {k \in Nat : k < m => G(m)[k] = G(n)[k]}
  <2>1. ASSUME NEW k \in Nat, \A j \in 0 .. k - 1 : j \in E
        PROVE  k \in E
    <3> SUFFICES ASSUME k < m
                 PROVE  G(m)[k] = G(n)[k]
      OBVIOUS
    <3>1. SameBelow(G(m), G(n), k)
      BY <2>1 DEF SameBelow
    <3>2. k \in 0 .. m - 1 /\ k \in 0 .. n - 1
      BY <1>5
    <3>3. G(m)[k] = step[k][G(m)] /\ G(n)[k] = step[k][G(n)]
      BY <1>4, <3>2 DEF Follows
    <3> QED BY <1>0, <1>4, <3>1, <3>3
  <2> HIDE DEF E
  <2>2. Nat \subseteq E
    BY <2>1, StrongInduction
  <2> QED BY <2>2 DEF E, SameBelow
<1> DEFINE h == [n \in Nat |-> G(n + 1)[n]]
<1>6. h \in F
  <2>1. \A n \in Nat : G(n + 1) \in F
    BY <1>4
  <2> QED BY <2>1
<1>7. ASSUME NEW n \in Nat
      PROVE  h[n] = step[n][h]
  <2>1. n + 1 \in Nat /\ n \in 0 .. (n + 1) - 1
    OBVIOUS
  <2>2. G(n + 1) \in F /\ G(n + 1)[n] = step[n][G(n + 1)]
    BY <1>4, <2>1 DEF Follows
  <2>3. SameBelow(G(n + 1), h, n)
    <3> SUFFICES ASSUME NEW k \in 0 .. n - 1
                 PROVE  G(n + 1)[k] = h[k]
      BY DEF SameBelow
    <3>1. k \in Nat /\ k + 1 \in Nat /\ k + 1 <= n + 1 /\ k \in 0 .. (k + 1) - 1
      OBVIOUS
    <3>2. SameBelow(G(k + 1), G(n + 1), k + 1)
      BY <1>5, <2>1, <3>1
    <3> QED BY <3>1, <3>2 DEF SameBelow
  <2>4. step[n][G(n + 1)] = step[n][h]
    BY <1>0, <1>6, <2>2, <2>3
  <2> QED BY <2>2, <2>4
<1> HIDE DEF h
<1> QED
  BY <1>6, <1>7

-----------------------------------------------------------------------------
(***************************************************************************)
(* The recursive definitions are what they say.                             *)
(***************************************************************************)
LEMMA SeqOf ==
    ASSUME NEW n \in Nat, NEW S, NEW s \in [1 .. n -> S]
    PROVE  s \in Seq(S) /\ Len(s) = n /\ DOMAIN s = 1 .. n
<1>1. s \in Seq(S)
  BY SeqDef
<1> QED
  BY <1>1, LenProperties

\* The sums of the first elements of a sequence are natural numbers, each the
\* one before and an element.
LEMMA TotalDef ==
    ASSUME NEW N \in Nat, NEW f \in [1 .. N -> Nat]
    PROVE  /\ Total(f) \in [0 .. N -> Nat]
           /\ Total(f)[0] = 0
           /\ \A n \in 1 .. N : Total(f)[n] = Total(f)[n - 1] + f[n]
<1> DEFINE step == [n \in 0 .. N |-> [g \in [0 .. N -> Nat] |->
                       IF n = 0 THEN 0 ELSE g[n - 1] + f[n]]]
<1>0. Len(f) = N
  BY SeqOf
<1>1. LooksBelow(step, N, Nat)
  <2>1. step \in [0 .. N -> [[0 .. N -> Nat] -> Nat]]
    OBVIOUS
  <2>2. \A g, h \in [0 .. N -> Nat] : \A n \in 0 .. N :
           SameBelow(g, h, n) => step[n][g] = step[n][h]
    BY DEF SameBelow
  <2> HIDE DEF step
  <2> QED BY <2>1, <2>2 DEF LooksBelow
<1> HIDE DEF step
<1>2. Solvable(step, N, Nat)
  BY <1>1, Recursion, Zenon
<1>3. \E g \in [0 .. N -> Nat] : \A n \in 0 .. N : g[n] = step[n][g]
  BY <1>2 DEF Solvable
<1> USE DEF step
<1>4. PICK g \in [0 .. N -> Nat] : \A n \in 0 .. N : g[n] = step[n][g]
  BY <1>3
<1>5. g = [n \in 0 .. N |-> IF n = 0 THEN 0 ELSE g[n - 1] + f[n]]
  BY <1>4
<1>6. Total(f) = [n \in 0 .. N |-> IF n = 0 THEN 0 ELSE Total(f)[n - 1] + f[n]]
  BY <1>0, <1>5, Zenon DEF Total
<1>7. /\ Total(f)[0] = 0
      /\ \A n \in 1 .. N : Total(f)[n] = Total(f)[n - 1] + f[n]
  <2> DEFINE t == Total(f)
  <2> HIDE DEF t
  <2> QED BY <1>6 DEF t
<1>8. Total(f) \in [0 .. N -> Nat]
  <2> DEFINE t == Total(f)
             E == {n \in Nat : n <= N => t[n] \in Nat}
  <2> HIDE DEF t
  <2>1. 0 \in E
    BY <1>7 DEF t
  <2>2. \A n \in Nat : n \in E => n + 1 \in E
    <3> SUFFICES ASSUME NEW n \in Nat, n \in E, n + 1 <= N
                 PROVE  t[n + 1] \in Nat
      OBVIOUS
    <3>1. n + 1 \in 1 .. N /\ (n + 1) - 1 = n /\ n <= N
      OBVIOUS
    <3>2. t[n + 1] = t[n] + f[n + 1] /\ f[n + 1] \in Nat
      BY <1>7, <3>1 DEF t
    <3> QED BY <3>1, <3>2
  <2> HIDE DEF E
  <2>3. Nat \subseteq E
    BY <2>1, <2>2, SetInduction
  <2>4. \A n \in 0 .. N : t[n] \in Nat
    BY <2>3 DEF E
  <2>5. t = [n \in 0 .. N |-> IF n = 0 THEN 0 ELSE t[n - 1] + f[n]]
    BY <1>6, Zenon DEF t
  <2> QED BY <2>4, <2>5 DEF t
<1> QED
  BY <1>7, <1>8

-----------------------------------------------------------------------------
\* Powers of two.
LEMMA PowerDef ==
    /\ Power \in [Nat -> Nat]
    /\ Power[0] = 1
    /\ \A k \in Nat : Power[k + 1] = 2 * Power[k]
<1> DEFINE Rest(k, g) == IF k = 0 THEN 1 ELSE 2 * g[k - 1]
           step == [k \in Nat |-> [g \in [Nat -> Nat] |-> Rest(k, g)]]
<1>1. step \in [Nat -> [[Nat -> Nat] -> Nat]]
  <2>1. ASSUME NEW k \in Nat, NEW g \in [Nat -> Nat]
        PROVE  Rest(k, g) \in Nat
    <3>1. k # 0 => k - 1 \in Nat
      OBVIOUS
    <3> QED BY <3>1
  <2> HIDE DEF Rest
  <2> QED BY <2>1
<1>2. ASSUME NEW g \in [Nat -> Nat], NEW h \in [Nat -> Nat], NEW k \in Nat, SameBelow(g, h, k)
      PROVE  step[k][g] = step[k][h]
  BY <1>2 DEF SameBelow
<1>3. \A k \in Nat : \A g \in [Nat -> Nat] : step[k][g] = Rest(k, g)
  BY DEF Rest
<1> HIDE DEF step, Rest
<1>4. LooksBack(step, Nat)
  BY <1>1, <1>2 DEF LooksBack
<1>5. PICK f \in [Nat -> Nat] : \A k \in Nat : f[k] = step[k][f]
  BY <1>4, NatRecursion
<1>6. f = [k \in Nat |-> Rest(k, f)]
  BY <1>3, <1>5
<1>7. Power = [k \in Nat |-> Rest(k, Power)]
  BY <1>6, Zenon DEF Power, Rest
<1>8. \A k \in Nat : Power[k] = IF k = 0 THEN 1 ELSE 2 * Power[k - 1]
  BY <1>7, Zenon DEF Rest
<1>9. Power[0] = 1
  BY <1>8
<1>10. \A k \in Nat : Power[k + 1] = 2 * Power[k]
  <2> SUFFICES ASSUME NEW k \in Nat
               PROVE  Power[k + 1] = 2 * Power[k]
    OBVIOUS
  <2>1. k + 1 \in Nat /\ k + 1 # 0 /\ (k + 1) - 1 = k
    OBVIOUS
  <2> QED BY <1>8, <2>1
<1>11. \A k \in Nat : Power[k] \in Nat
  <2> DEFINE E == {k \in Nat : Power[k] \in Nat}
  <2>1. 0 \in E
    BY <1>9
  <2>2. \A k \in Nat : k \in E => k + 1 \in E
    BY <1>10
  <2> HIDE DEF E
  <2>3. Nat \subseteq E
    BY <2>1, <2>2, SetInduction
  <2> QED BY <2>3 DEF E
<1>12. Power = [k \in Nat |-> Power[k]]
  BY <1>7, <1>8
<1> QED
  BY <1>9, <1>10, <1>11, <1>12

\* The powers of two grow, from 1.
LEMMA PowersGrow ==
    /\ \A k \in Nat : Power[k] \in Nat /\ Power[k] >= 1
    /\ \A i, k \in Nat : Power[i + k] >= Power[i]
<1>1. \A k \in Nat : Power[k] \in Nat /\ Power[k] >= 1
  <2> DEFINE E == {k \in Nat : Power[k] >= 1}
  <2>1. 0 \in E
    BY PowerDef
  <2>2. \A k \in Nat : k \in E => k + 1 \in E
    BY PowerDef
  <2> HIDE DEF E
  <2>3. Nat \subseteq E
    BY <2>1, <2>2, SetInduction
  <2> QED BY <2>3, PowerDef DEF E
<1>2. ASSUME NEW i \in Nat
      PROVE  \A k \in Nat : Power[i + k] >= Power[i]
  <2> DEFINE E == {k \in Nat : Power[i + k] >= Power[i]}
  <2>1. 0 \in E
    BY PowerDef
  <2>2. ASSUME NEW k \in Nat, k \in E
        PROVE  k + 1 \in E
    <3>1. i + k \in Nat /\ i + (k + 1) = (i + k) + 1
      OBVIOUS
    <3>2. Power[i + (k + 1)] = 2 * Power[i + k] /\ Power[i + k] \in Nat /\ Power[i] \in Nat
      BY <3>1, PowerDef
    <3> QED BY <2>2, <3>2
  <2> HIDE DEF E
  <2>3. Nat \subseteq E
    BY <2>1, <2>2, SetInduction
  <2> QED BY <2>3 DEF E
<1> QED
  BY <1>1, <1>2

\* The tiles, and what a square may hold.
TileValues == {Power[k] : k \in Nat \ {0}}
Values     == {0} \cup TileValues

\* A tile is a number above 1, and twice a tile is a tile.
LEMMA TileFacts ==
    /\ TileValues \subseteq Nat \ {0, 1} /\ Values \subseteq Nat
    /\ \A v \in Values : v # 0 => v \in TileValues
    /\ TileValues \subseteq Values /\ 0 \in Values /\ 0 \notin TileValues
    /\ \A v \in TileValues : 2 * v \in TileValues
    /\ 2 \in TileValues /\ 4 \in TileValues
<1>1. ASSUME NEW k \in Nat \ {0}
      PROVE  Power[k] \in Nat \ {0, 1} /\ 2 * Power[k] \in TileValues
  <2>1. k - 1 \in Nat /\ (k - 1) + 1 = k /\ k + 1 \in Nat \ {0}
    OBVIOUS
  <2>2. Power[k] = 2 * Power[k - 1] /\ Power[k - 1] \in Nat /\ Power[k - 1] >= 1
    BY <2>1, PowerDef, PowersGrow
  <2>3. 2 * Power[k] = Power[k + 1]
    BY PowerDef
  <2>4. 2 * Power[k] \in TileValues
    <3>1. Power[k + 1] \in TileValues
      BY <2>1 DEF TileValues
    <3> QED BY <3>1, <2>3
  <2> QED BY <2>2, <2>4
<1>2. Power[1] = 2 /\ Power[2] = 4
  <2>1. 0 \in Nat /\ 1 \in Nat /\ 0 + 1 = 1 /\ 1 + 1 = 2
    OBVIOUS
  <2>2. Power[1] = 2 * Power[0] /\ Power[2] = 2 * Power[1] /\ Power[0] = 1
    BY <2>1, PowerDef, Zenon
  <2> QED BY <2>2
<1>3. TileValues \subseteq Nat \ {0, 1} /\ \A v \in TileValues : 2 * v \in TileValues
  BY <1>1 DEF TileValues
<1>4. 2 \in TileValues /\ 4 \in TileValues
  BY <1>2 DEF TileValues
<1> QED
  BY <1>3, <1>4 DEF Values

\* The tiles of the first n squares are those of the first n - 1, and the
\* tile of square n if it has one (game.py:55-56).
LEMMA TilesUpToDef ==
    ASSUME NEW N \in Nat, NEW row \in [1 .. N -> Values]
    PROVE  /\ TilesUpTo(row) \in [0 .. N -> Seq(TileValues)]
           /\ TilesUpTo(row)[0] = << >>
           /\ \A n \in 1 .. N :
                 TilesUpTo(row)[n] = IF row[n] = 0 THEN TilesUpTo(row)[n - 1]
                                     ELSE Append(TilesUpTo(row)[n - 1], row[n])
<1> DEFINE D == Seq(TileValues)
           step == [n \in 0 .. N |-> [g \in [0 .. N -> D] |->
                       IF n = 0 THEN << >>
                       ELSE IF row[n] = 0 THEN g[n - 1] ELSE Append(g[n - 1], row[n])]]
<1>0. Len(row) = N
  BY SeqOf
<1>a. << >> \in D /\ \A s \in D : \A e \in TileValues : Append(s, e) \in D
  BY EmptySeq, AppendProperties
<1>b. \A n \in 1 .. N : row[n] # 0 => row[n] \in TileValues
  BY TileFacts
<1> HIDE DEF D
<1>1. LooksBelow(step, N, D)
  <2>1. ASSUME NEW n \in 0 .. N, NEW g \in [0 .. N -> D]
        PROVE  step[n][g] \in D
    <3>1. n # 0 => n - 1 \in 0 .. N /\ n \in 1 .. N
      OBVIOUS
    <3> QED BY <3>1, <1>a, <1>b
  <2>2. \A g, h \in [0 .. N -> D] : \A n \in 0 .. N :
           SameBelow(g, h, n) => step[n][g] = step[n][h]
    BY DEF SameBelow
  <2>3. step \in [0 .. N -> [[0 .. N -> D] -> D]]
    BY <2>1
  <2> HIDE DEF step
  <2> QED BY <2>2, <2>3 DEF LooksBelow
<1> HIDE DEF step
<1>2. Solvable(step, N, D)
  BY <1>1, <1>a, Recursion, Zenon
<1>3. PICK g \in [0 .. N -> D] : \A n \in 0 .. N : g[n] = step[n][g]
  BY <1>2 DEF Solvable
<1> USE DEF step
<1>4. g = [n \in 0 .. N |-> IF n = 0 THEN << >>
                            ELSE IF row[n] = 0 THEN g[n - 1] ELSE Append(g[n - 1], row[n])]
  <2>1. ASSUME NEW n \in 0 .. N
        PROVE  g[n] = IF n = 0 THEN << >>
                      ELSE IF row[n] = 0 THEN g[n - 1] ELSE Append(g[n - 1], row[n])
    BY <1>3
  <2> HIDE DEF step
  <2> QED BY <2>1
<1>5. TilesUpTo(row) = [n \in 0 .. N |-> IF n = 0 THEN << >>
                            ELSE IF row[n] = 0 THEN TilesUpTo(row)[n - 1]
                            ELSE Append(TilesUpTo(row)[n - 1], row[n])]
  BY <1>0, <1>4, Zenon DEF TilesUpTo
<1> DEFINE t == TilesUpTo(row)
<1> HIDE DEF t
<1>6. /\ t[0] = << >>
      /\ \A n \in 1 .. N :
            t[n] = IF row[n] = 0 THEN t[n - 1] ELSE Append(t[n - 1], row[n])
  <2>1. t = [n \in 0 .. N |-> IF n = 0 THEN << >>
                              ELSE IF row[n] = 0 THEN t[n - 1] ELSE Append(t[n - 1], row[n])]
    BY <1>5, Zenon DEF t
  <2>2. ASSUME NEW n \in 0 .. N
        PROVE  t[n] = IF n = 0 THEN << >>
                      ELSE IF row[n] = 0 THEN t[n - 1] ELSE Append(t[n - 1], row[n])
    BY <2>1, Zenon
  <2> QED BY <2>2
<1>7. t \in [0 .. N -> D]
  <2> DEFINE E == {n \in Nat : n <= N => t[n] \in D}
  <2>1. 0 \in E
    BY <1>6, <1>a
  <2>2. ASSUME NEW n \in Nat, n \in E
        PROVE  n + 1 \in E
    BY <2>2, <1>6, <1>a, <1>b
  <2> HIDE DEF E
  <2>3. Nat \subseteq E
    BY <2>1, <2>2, SetInduction
  <2>4. \A n \in 0 .. N : t[n] \in D
    BY <2>3 DEF E
  <2>5. t = [n \in 0 .. N |-> t[n]]
    BY <1>5, Zenon DEF t
  <2> QED BY <2>4, <2>5
<1> QED
  BY <1>6, <1>7 DEF t, D

\* A row and the points its merges have scored.
MergeStates(N) == [row : [1 .. N -> Values], gained : Nat]

\* A round of the loop over the tiles leaves a row of tiles and empty
\* squares, and points (game.py:59-63).
LEMMA MergeAtType ==
    ASSUME NEW N \in Nat, NEW m \in MergeStates(N), NEW c \in 1 .. N - 1
    PROVE  MergeAt(m, c) \in MergeStates(N)
<1>1. m.row \in [1 .. N -> Values] /\ m.gained \in Nat /\ c \in 1 .. N /\ c + 1 \in 1 .. N
  BY DEF MergeStates
<1>2. m.row[c] \in Nat /\ 2 * m.row[c] \in Values
  <2> DEFINE v == m.row[c]
  <2>1. v \in Values
    BY <1>1
  <2> HIDE DEF v
  <2>2. v = 0 => v \in Nat /\ 2 * v \in Values
    BY TileFacts
  <2>3. v # 0 => v \in Nat /\ 2 * v \in Values
    BY <2>1, TileFacts
  <2> QED BY <2>2, <2>3 DEF v
<1>3. [m.row EXCEPT ![c] = 2 * @, ![c + 1] = 0] \in [1 .. N -> Values]
  <2>1. 0 \in Values
    BY TileFacts
  <2>2. [m.row EXCEPT ![c] = 2 * @] \in [1 .. N -> Values]
    BY <1>1, <1>2
  <2> QED BY <1>1, <2>1, <2>2
<1>4. m.gained + 2 * m.row[c] \in Nat
  BY <1>1, <1>2
<1>5. \A r, g : r \in [1 .. N -> Values] /\ g \in Nat => [row |-> r, gained |-> g] \in MergeStates(N)
  BY DEF MergeStates
<1>6. CASE m.row[c] = m.row[c + 1]
  <2> DEFINE r == [m.row EXCEPT ![c] = 2 * @, ![c + 1] = 0]
             g == m.gained + 2 * m.row[c]
  <2>1. MergeAt(m, c) = [row |-> r, gained |-> g]
    BY <1>6, Zenon DEF MergeAt
  <2>2. r \in [1 .. N -> Values] /\ g \in Nat
    BY <1>3, <1>4
  <2> HIDE DEF r, g
  <2>3. [row |-> r, gained |-> g] \in MergeStates(N)
    BY <1>5, <2>2
  <2> QED BY <2>1, <2>3
<1>7. CASE m.row[c] # m.row[c + 1]
  BY <1>7, Zenon DEF MergeAt
<1> QED
  BY <1>6, <1>7

\* The loop over the tiles of a row runs its rounds in order (game.py:58-63).
LEMMA MergingDef ==
    ASSUME NEW N \in Nat, NEW tiles \in [1 .. N -> Values]
    PROVE  /\ Merging(tiles) \in [0 .. N -> MergeStates(N)]
           /\ \A c \in 0 .. N : c <= 1 => Merging(tiles)[c] = [row |-> tiles, gained |-> 0]
           /\ \A c \in 1 .. N - 1 : Merging(tiles)[c + 1] = MergeAt(Merging(tiles)[c], c)
<1> DEFINE D == MergeStates(N)
           start == [row |-> tiles, gained |-> 0]
           step == [c \in 0 .. N |-> [g \in [0 .. N -> D] |->
                       IF c <= 1 THEN start ELSE MergeAt(g[c - 1], c - 1)]]
<1>0. Len(tiles) = N
  BY SeqOf
<1>a. start \in D /\ \A m \in D : \A c \in 1 .. N - 1 : MergeAt(m, c) \in D
  BY MergeAtType DEF MergeStates
<1> HIDE DEF D, start
<1>1. LooksBelow(step, N, D)
  <2>1. ASSUME NEW c \in 0 .. N, NEW g \in [0 .. N -> D]
        PROVE  step[c][g] \in D
    <3>1. ~(c <= 1) => c - 1 \in 0 .. N /\ c - 1 \in 1 .. N - 1
      OBVIOUS
    <3> QED BY <3>1, <1>a
  <2>2. \A g, h \in [0 .. N -> D] : \A c \in 0 .. N :
           SameBelow(g, h, c) => step[c][g] = step[c][h]
    BY DEF SameBelow
  <2>3. step \in [0 .. N -> [[0 .. N -> D] -> D]]
    BY <2>1
  <2> HIDE DEF step
  <2> QED BY <2>2, <2>3 DEF LooksBelow
<1> HIDE DEF step
<1>2. Solvable(step, N, D)
  BY <1>1, <1>a, Recursion, Zenon
<1>3. PICK g \in [0 .. N -> D] : \A c \in 0 .. N : g[c] = step[c][g]
  BY <1>2 DEF Solvable
<1> USE DEF step
<1>4. g = [c \in 0 .. N |-> IF c <= 1 THEN start ELSE MergeAt(g[c - 1], c - 1)]
  <2>1. ASSUME NEW c \in 0 .. N
        PROVE  g[c] = IF c <= 1 THEN start ELSE MergeAt(g[c - 1], c - 1)
    BY <1>3
  <2> HIDE DEF step
  <2> QED BY <2>1
<1> DEFINE t == Merging(tiles)
<1>5. t = [c \in 0 .. N |-> IF c <= 1 THEN start ELSE MergeAt(t[c - 1], c - 1)]
  BY <1>0, <1>4, Zenon DEF Merging, start
<1> HIDE DEF t
<1>6. \A c \in 0 .. N : t[c] = IF c <= 1 THEN start ELSE MergeAt(t[c - 1], c - 1)
  BY <1>5, Zenon
<1>7. t \in [0 .. N -> D]
  <2> DEFINE E == {c \in Nat : c <= N => t[c] \in D}
  <2>1. 0 \in E
    BY <1>6, <1>a
  <2>2. ASSUME NEW c \in Nat, c \in E
        PROVE  c + 1 \in E
    BY <2>2, <1>6, <1>a
  <2> HIDE DEF E
  <2>3. Nat \subseteq E
    BY <2>1, <2>2, SetInduction
  <2>4. \A c \in 0 .. N : t[c] \in D
    BY <2>3 DEF E
  <2>5. t = [c \in 0 .. N |-> t[c]]
    BY <1>5, Zenon
  <2> QED BY <2>4, <2>5
<1>8. \A c \in 1 .. N - 1 : t[c + 1] = MergeAt(t[c], c)
  BY <1>6
<1> QED
  BY <1>6, <1>7, <1>8 DEF t, D, start

\* The reference merges the first pair of equal neighbours of the last n
\* tiles, or keeps the first of them.
LEMMA GreedilyDef ==
    ASSUME NEW N \in Nat, NEW tiles \in [1 .. N -> TileValues]
    PROVE  LET t == Greedily(tiles)
           IN  /\ t \in [0 .. N -> Seq(TileValues)]
               /\ t[0] = << >>
               /\ \A n \in 1 .. N :
                     LET k == N - n + 1
                     IN  t[n] = IF n > 1 /\ tiles[k] = tiles[k + 1]
                                THEN <<2 * tiles[k]>> \o t[n - 2]
                                ELSE <<tiles[k]>> \o t[n - 1]
<1> DEFINE D == Seq(TileValues)
           Rest(n, g) == LET k == N - n + 1
                         IN  IF n = 0 THEN << >>
                             ELSE IF n > 1 /\ tiles[k] = tiles[k + 1]
                                  THEN <<2 * tiles[k]>> \o g[n - 2]
                                  ELSE <<tiles[k]>> \o g[n - 1]
           step == [n \in 0 .. N |-> [g \in [0 .. N -> D] |-> Rest(n, g)]]
<1>0. Len(tiles) = N
  BY SeqOf
<1>a. << >> \in D /\ \A s \in D : \A e \in TileValues : <<e>> \o s \in D
  <2>1. ASSUME NEW s \in D, NEW e \in TileValues
        PROVE  <<e>> \o s \in D
    <3>1. <<e>> \in Seq(TileValues)
      OBVIOUS
    <3> QED BY <3>1, ConcatProperties
  <2> QED BY <2>1, EmptySeq
<1>b. \A n \in 1 .. N : tiles[N - n + 1] \in TileValues /\ 2 * tiles[N - n + 1] \in TileValues
  <2>1. ASSUME NEW k \in 1 .. N
        PROVE  tiles[k] \in TileValues /\ 2 * tiles[k] \in TileValues
    <3>1. tiles[k] \in TileValues
      OBVIOUS
    <3> QED BY <3>1, TileFacts
  <2>2. \A n \in 1 .. N : N - n + 1 \in 1 .. N
    OBVIOUS
  <2> QED BY <2>1, <2>2
<1> HIDE DEF D
<1>c. ASSUME NEW n \in 0 .. N, NEW g, \A k \in 0 .. n - 1 : g[k] \in D
      PROVE  Rest(n, g) \in D
  <2>1. CASE n = 0
    BY <2>1, <1>a
  <2>2. CASE n > 1 /\ tiles[N - n + 1] = tiles[(N - n + 1) + 1]
    BY <2>2, <1>a, <1>b, <1>c
  <2>3. CASE n # 0 /\ ~(n > 1 /\ tiles[N - n + 1] = tiles[(N - n + 1) + 1])
    BY <2>3, <1>a, <1>b, <1>c
  <2> QED BY <2>1, <2>2, <2>3
<1>d. ASSUME NEW g, NEW h, NEW n \in 0 .. N, SameBelow(g, h, n)
      PROVE  Rest(n, g) = Rest(n, h)
  <2>1. \A k \in 0 .. n - 1 : g[k] = h[k]
    BY <1>d DEF SameBelow
  <2>2. n # 0 => g[n - 1] = h[n - 1]
    BY <2>1
  <2>3. n > 1 => g[n - 2] = h[n - 2]
    BY <2>1
  <2> QED BY <2>2, <2>3
<1> HIDE DEF Rest
<1>1. LooksBelow(step, N, D)
  <2>1. \A n \in 0 .. N : \A g \in [0 .. N -> D] : step[n][g] = Rest(n, g) /\ step[n][g] \in D
    BY <1>c
  <2>2. step \in [0 .. N -> [[0 .. N -> D] -> D]]
    BY <1>c
  <2> HIDE DEF step
  <2>3. \A g, h \in [0 .. N -> D] : \A n \in 0 .. N :
           SameBelow(g, h, n) => step[n][g] = step[n][h]
    BY <1>d, <2>1
  <2> QED BY <2>2, <2>3 DEF LooksBelow
<1>2. Solvable(step, N, D)
  <2> HIDE DEF step
  <2> QED BY <1>1, <1>a, Recursion, Zenon
<1>3. PICK g \in [0 .. N -> D] : \A n \in 0 .. N : g[n] = step[n][g]
  <2> HIDE DEF step
  <2> QED BY <1>2 DEF Solvable
<1>4. g = [n \in 0 .. N |-> Rest(n, g)]
  <2>1. \A n \in 0 .. N : g[n] = Rest(n, g)
    BY <1>3
  <2> HIDE DEF step
  <2> QED BY <2>1
<1> HIDE DEF step
<1> DEFINE t == Greedily(tiles)
<1>5. t = [n \in 0 .. N |-> Rest(n, t)]
  BY <1>0, <1>4, Zenon DEF Greedily, Rest
<1> HIDE DEF t
<1>6. \A n \in 0 .. N : t[n] = Rest(n, t)
  BY <1>5, Zenon
<1>7. t \in [0 .. N -> D]
  <2> DEFINE E == {n \in Nat : n <= N => \A k \in 0 .. n : t[k] \in D}
  <2>1. 0 \in E
    BY <1>6, <1>c
  <2>2. ASSUME NEW n \in Nat, n \in E, n + 1 <= N
        PROVE  \A k \in 0 .. n + 1 : t[k] \in D
    <3>1. \A k \in 0 .. n : t[k] \in D
      BY <2>2
    <3>2. t[n + 1] \in D
      BY <3>1, <2>2, <1>6, <1>c
    <3> QED BY <3>1, <3>2
  <2>3. \A n \in Nat : n \in E => n + 1 \in E
    BY <2>2
  <2> HIDE DEF E
  <2>4. Nat \subseteq E
    BY <2>1, <2>3, SetInduction
  <2>5. \A n \in 0 .. N : t[n] \in D
    BY <2>4 DEF E
  <2>6. t = [n \in 0 .. N |-> t[n]]
    BY <1>5, <1>6, Zenon
  <2> QED BY <2>5, <2>6
<1>8. t[0] = << >>
  <2>1. t[0] = Rest(0, t)
    BY <1>6
  <2> QED BY <2>1, Zenon DEF Rest
<1>9. ASSUME NEW n \in 1 .. N
      PROVE  LET k == N - n + 1
             IN  t[n] = IF n > 1 /\ tiles[k] = tiles[k + 1]
                        THEN <<2 * tiles[k]>> \o t[n - 2]
                        ELSE <<tiles[k]>> \o t[n - 1]
  <2>1. n \in 0 .. N /\ n # 0
    OBVIOUS
  <2>2. t[n] = Rest(n, t)
    BY <1>6, <2>1
  <2> QED BY <2>1, <2>2, Zenon DEF Rest
<1> HIDE DEF t
<1> QED
  BY <1>7, <1>8, <1>9, Zenon DEF t, D

\* What a tile is worth: what the tile of half its value is worth, twice, and
\* its own value.
LEMMA WorthOfDef ==
    /\ WorthOf \in [Nat -> Nat]
    /\ \A v \in Nat : WorthOf[v] = IF v <= 2 THEN 0 ELSE 2 * WorthOf[v \div 2] + v
<1> DEFINE Rest(v, g) == IF v <= 2 THEN 0 ELSE 2 * g[v \div 2] + v
           step == [v \in Nat |-> [g \in [Nat -> Nat] |-> Rest(v, g)]]
<1>0. \A v \in Nat : v > 2 => v \div 2 \in 0 .. v - 1 /\ v \div 2 \in Nat
  OBVIOUS
<1>1. step \in [Nat -> [[Nat -> Nat] -> Nat]]
  <2>1. ASSUME NEW v \in Nat, NEW g \in [Nat -> Nat]
        PROVE  Rest(v, g) \in Nat
    BY <1>0
  <2> HIDE DEF Rest
  <2> QED BY <2>1
<1>2. ASSUME NEW g \in [Nat -> Nat], NEW h \in [Nat -> Nat], NEW v \in Nat, SameBelow(g, h, v)
      PROVE  step[v][g] = step[v][h]
  <2>1. v > 2 => g[v \div 2] = h[v \div 2]
    BY <1>0, <1>2 DEF SameBelow
  <2> QED BY <2>1
<1>3. \A v \in Nat : \A g \in [Nat -> Nat] : step[v][g] = Rest(v, g)
  BY DEF Rest
<1> HIDE DEF step, Rest
<1>4. LooksBack(step, Nat)
  BY <1>1, <1>2 DEF LooksBack
<1>5. PICK f \in [Nat -> Nat] : \A v \in Nat : f[v] = step[v][f]
  BY <1>4, NatRecursion
<1>6. f = [v \in Nat |-> Rest(v, f)]
  BY <1>3, <1>5
<1>7. WorthOf = [v \in Nat |-> Rest(v, WorthOf)]
  BY <1>6, Zenon DEF WorthOf, Rest
<1>8. \A v \in Nat : WorthOf[v] = IF v <= 2 THEN 0 ELSE 2 * WorthOf[v \div 2] + v
  BY <1>7, Zenon DEF Rest
<1>9. \A v \in Nat : WorthOf[v] \in Nat
  <2> DEFINE E == {v \in Nat : WorthOf[v] \in Nat}
  <2>1. ASSUME NEW v \in Nat, \A u \in 0 .. v - 1 : u \in E
        PROVE  v \in E
    <3>1. v > 2 => WorthOf[v \div 2] \in Nat
      BY <1>0, <2>1
    <3> QED BY <1>8, <3>1
  <2> HIDE DEF E
  <2>2. Nat \subseteq E
    BY <2>1, StrongInduction
  <2> QED BY <2>2 DEF E
<1>10. WorthOf = [v \in Nat |-> WorthOf[v]]
  BY <1>7, <1>8
<1> QED
  BY <1>8, <1>9, <1>10

\* Induction up to a bound.
LEMMA UpTo ==
    ASSUME NEW N \in Nat, NEW S, 0 \in S, \A n \in 0 .. N - 1 : n \in S => n + 1 \in S
    PROVE  \A n \in 0 .. N : n \in S
<1> DEFINE T == {n \in Nat : n <= N => n \in S}
<1>1. 0 \in T
  OBVIOUS
<1>2. \A n \in Nat : n \in T => n + 1 \in T
  OBVIOUS
<1> HIDE DEF T
<1>3. Nat \subseteq T
  BY <1>1, <1>2, SetInduction
<1> QED
  BY <1>3 DEF T

(***************************************************************************)
(* Sums.                                                                    *)
(***************************************************************************)
LEMMA TotalSame ==
    ASSUME NEW M \in Nat, NEW N \in Nat, NEW f \in [1 .. M -> Nat], NEW g \in [1 .. N -> Nat],
           NEW K \in Nat, K <= M, K <= N, \A k \in 1 .. K : f[k] = g[k]
    PROVE  Total(f)[K] = Total(g)[K]
<1>a. /\ Total(f) \in [0 .. M -> Nat] /\ Total(f)[0] = 0
      /\ \A n \in 1 .. M : Total(f)[n] = Total(f)[n - 1] + f[n]
  BY TotalDef, Zenon
<1>b. /\ Total(g) \in [0 .. N -> Nat] /\ Total(g)[0] = 0
      /\ \A n \in 1 .. N : Total(g)[n] = Total(g)[n - 1] + g[n]
  BY TotalDef, Zenon
<1> DEFINE S == {n \in 0 .. K : Total(f)[n] = Total(g)[n]}
<1>1. 0 \in S
  BY <1>a, <1>b
<1>2. ASSUME NEW n \in 0 .. K - 1, n \in S
      PROVE  n + 1 \in S
  <2>1. n + 1 \in 1 .. M /\ n + 1 \in 1 .. N /\ n + 1 \in 1 .. K /\ (n + 1) - 1 = n
    OBVIOUS
  <2>2. Total(f)[n + 1] = Total(f)[n] + f[n + 1] /\ Total(g)[n + 1] = Total(g)[n] + g[n + 1]
    BY <2>1, <1>a, <1>b
  <2> QED BY <1>2, <2>1, <2>2
<1> HIDE DEF S
<1>3. K \in S
  <2>1. \A n \in 0 .. K - 1 : n \in S => n + 1 \in S
    BY <1>2
  <2>2. \A n \in 0 .. K : n \in S
    BY <1>1, <2>1, UpTo, Zenon
  <2> QED BY <2>2
<1> QED
  BY <1>3 DEF S

\* Zeros at the end add nothing.
LEMMA TotalZeros ==
    ASSUME NEW N \in Nat, NEW f \in [1 .. N -> Nat], NEW M \in 0 .. N,
           \A k \in M + 1 .. N : f[k] = 0
    PROVE  Total(f)[N] = Total(f)[M]
<1>a. /\ Total(f) \in [0 .. N -> Nat] /\ Total(f)[0] = 0
      /\ \A n \in 1 .. N : Total(f)[n] = Total(f)[n - 1] + f[n]
  BY TotalDef, Zenon
<1> DEFINE S == {n \in 0 .. N : n >= M => Total(f)[n] = Total(f)[M]}
<1>1. 0 \in S
  OBVIOUS
<1>2. ASSUME NEW n \in 0 .. N - 1, n \in S
      PROVE  n + 1 \in S
  <2>1. Total(f)[n + 1] = Total(f)[n] + f[n + 1] /\ Total(f)[n] \in Nat
    BY <1>a
  <2>2. CASE n >= M
    BY <1>2, <2>1, <2>2
  <2>3. CASE n + 1 = M
    BY <2>3
  <2>4. CASE n + 1 < M
    BY <2>4
  <2> QED BY <2>2, <2>3, <2>4
<1> HIDE DEF S
<1>3. N \in S
  <2>1. \A n \in 0 .. N - 1 : n \in S => n + 1 \in S
    BY <1>2
  <2>2. \A n \in 0 .. N : n \in S
    BY <1>1, <2>1, UpTo, Zenon
  <2> QED BY <2>2
<1> QED
  BY <1>3 DEF S

\* Changing one element changes the sum by as much.
LEMMA TotalOneChange ==
    ASSUME NEW N \in Nat, NEW f \in [1 .. N -> Nat], NEW g \in [1 .. N -> Nat],
           NEW i \in 1 .. N,
           \A k \in 1 .. N : k # i => g[k] = f[k]
    PROVE  Total(g)[N] + f[i] = Total(f)[N] + g[i]
<1>a. /\ Total(f) \in [0 .. N -> Nat] /\ Total(f)[0] = 0
      /\ \A n \in 1 .. N : Total(f)[n] = Total(f)[n - 1] + f[n]
  BY TotalDef, Zenon
<1>b. /\ Total(g) \in [0 .. N -> Nat] /\ Total(g)[0] = 0
      /\ \A n \in 1 .. N : Total(g)[n] = Total(g)[n - 1] + g[n]
  BY TotalDef, Zenon
<1> DEFINE S == {n \in 0 .. N : IF n >= i THEN Total(g)[n] + f[i] = Total(f)[n] + g[i]
                                ELSE Total(g)[n] = Total(f)[n]}
<1>1. 0 \in S
  BY <1>a, <1>b
<1>2. ASSUME NEW n \in 0 .. N - 1, n \in S
      PROVE  n + 1 \in S
  <2>0. n \in 0 .. N /\ n + 1 \in 1 .. N /\ (n + 1) - 1 = n
    OBVIOUS
  <2>1. /\ Total(f)[n + 1] = Total(f)[n] + f[n + 1] /\ Total(f)[n] \in Nat
        /\ Total(g)[n + 1] = Total(g)[n] + g[n + 1] /\ Total(g)[n] \in Nat
    BY <2>0, <1>a, <1>b
  <2>2. f[i] \in Nat /\ g[i] \in Nat /\ f[n + 1] \in Nat /\ g[n + 1] \in Nat
    BY <2>0
  <2>3. n + 1 # i => g[n + 1] = f[n + 1]
    BY <2>0
  <2> DEFINE F == Total(f)[n]  F1 == Total(f)[n + 1]  G == Total(g)[n]  G1 == Total(g)[n + 1]
             x == f[i]  y == g[i]  v == f[n + 1]  w == g[n + 1]
  <2>4. /\ F \in Nat /\ G \in Nat /\ x \in Nat /\ y \in Nat /\ v \in Nat /\ w \in Nat
        /\ F1 = F + v /\ G1 = G + w /\ (n + 1 # i => w = v) /\ (n + 1 = i => v = x /\ w = y)
    BY <2>1, <2>2, <2>3
  <2>5. IF n >= i THEN G + x = F + y ELSE G = F
    BY <1>2
  <2> HIDE DEF F, F1, G, G1, x, y, v, w, S
  <2>6. IF n + 1 >= i THEN G1 + x = F1 + y ELSE G1 = F1
    <3>1. CASE n >= i
      <4>1. n + 1 # i /\ n + 1 >= i /\ G + x = F + y
        BY <2>0, <2>5, <3>1
      <4> QED BY <2>4, <4>1
    <3>2. CASE n + 1 = i
      <4>1. G = F /\ n + 1 >= i
        BY <2>0, <2>5, <3>2
      <4> QED BY <2>4, <3>2, <4>1
    <3>3. CASE n + 1 < i
      <4>1. G = F /\ n + 1 # i /\ ~(n + 1 >= i)
        BY <2>0, <2>5, <3>3
      <4> QED BY <2>4, <4>1
    <3> QED BY <2>0, <3>1, <3>2, <3>3
  <2> QED BY <2>0, <2>6 DEF S, F1, G1, x, y
<1> HIDE DEF S
<1>3. N \in S
  <2>1. \A n \in 0 .. N - 1 : n \in S => n + 1 \in S
    BY <1>2
  <2>2. \A n \in 0 .. N : n \in S
    BY <1>1, <2>1, UpTo, Zenon
  <2> QED BY <2>2
<1> QED
  BY <1>3 DEF S

\* The order of the elements does not matter: backwards.
LEMMA TotalReversed ==
    ASSUME NEW N \in Nat, NEW f \in [1 .. N -> Nat], NEW g \in [1 .. N -> Nat],
           \A k \in 1 .. N : g[k] = f[N + 1 - k]
    PROVE  Total(g)[N] = Total(f)[N]
<1>a. /\ Total(f) \in [0 .. N -> Nat] /\ Total(f)[0] = 0
      /\ \A n \in 1 .. N : Total(f)[n] = Total(f)[n - 1] + f[n]
  BY TotalDef, Zenon
<1>b. /\ Total(g) \in [0 .. N -> Nat] /\ Total(g)[0] = 0
      /\ \A n \in 1 .. N : Total(g)[n] = Total(g)[n - 1] + g[n]
  BY TotalDef, Zenon
<1> DEFINE S == {n \in 0 .. N : Total(g)[n] + Total(f)[N - n] = Total(f)[N]}
<1>1. 0 \in S
  BY <1>a, <1>b
<1>2. ASSUME NEW n \in 0 .. N - 1, n \in S
      PROVE  n + 1 \in S
  <2>1. n + 1 \in 1 .. N /\ N - n \in 1 .. N /\ (N - n) - 1 = N - (n + 1)
    OBVIOUS
  <2>2. /\ Total(g)[n + 1] = Total(g)[n] + g[n + 1] /\ Total(g)[n] \in Nat
        /\ Total(f)[N - n] = Total(f)[N - (n + 1)] + f[N - n] /\ Total(f)[N - (n + 1)] \in Nat
    BY <2>1, <1>a, <1>b
  <2>3. g[n + 1] = f[N - n] /\ f[N - n] \in Nat
    BY <2>1
  <2> QED BY <1>2, <2>2, <2>3
<1> HIDE DEF S
<1>3. N \in S
  <2>1. \A n \in 0 .. N - 1 : n \in S => n + 1 \in S
    BY <1>2
  <2>2. \A n \in 0 .. N : n \in S
    BY <1>1, <2>1, UpTo, Zenon
  <2> QED BY <2>2
<1>4. Total(g)[N] + Total(f)[N - N] = Total(f)[N]
  BY <1>3 DEF S
<1> QED
  BY <1>4, <1>a, <1>b

\* The sum of the sums of two sequences, element by element.
LEMMA TotalSum ==
    ASSUME NEW N \in Nat, NEW f \in [1 .. N -> Nat], NEW g \in [1 .. N -> Nat],
           NEW h \in [1 .. N -> Nat], \A k \in 1 .. N : h[k] = f[k] + g[k]
    PROVE  Total(h)[N] = Total(f)[N] + Total(g)[N]
<1>a. /\ Total(f) \in [0 .. N -> Nat] /\ Total(f)[0] = 0
      /\ \A n \in 1 .. N : Total(f)[n] = Total(f)[n - 1] + f[n]
  BY TotalDef, Zenon
<1>b. /\ Total(g) \in [0 .. N -> Nat] /\ Total(g)[0] = 0
      /\ \A n \in 1 .. N : Total(g)[n] = Total(g)[n - 1] + g[n]
  BY TotalDef, Zenon
<1>c. /\ Total(h) \in [0 .. N -> Nat] /\ Total(h)[0] = 0
      /\ \A n \in 1 .. N : Total(h)[n] = Total(h)[n - 1] + h[n]
  BY TotalDef, Zenon
<1> DEFINE S == {n \in 0 .. N : Total(h)[n] = Total(f)[n] + Total(g)[n]}
<1>1. 0 \in S
  BY <1>a, <1>b, <1>c
<1>2. ASSUME NEW n \in 0 .. N - 1, n \in S
      PROVE  n + 1 \in S
  <2>0. n \in 0 .. N /\ n + 1 \in 1 .. N /\ (n + 1) - 1 = n
    OBVIOUS
  <2>1. /\ Total(f)[n + 1] = Total(f)[n] + f[n + 1] /\ Total(f)[n] \in Nat
        /\ Total(g)[n + 1] = Total(g)[n] + g[n + 1] /\ Total(g)[n] \in Nat
        /\ Total(h)[n + 1] = Total(h)[n] + h[n + 1]
    BY <2>0, <1>a, <1>b, <1>c
  <2>2. f[n + 1] \in Nat /\ g[n + 1] \in Nat /\ h[n + 1] = f[n + 1] + g[n + 1]
    BY <2>0
  <2> QED BY <1>2, <2>1, <2>2
<1> HIDE DEF S
<1>3. N \in S
  <2>1. \A n \in 0 .. N - 1 : n \in S => n + 1 \in S
    BY <1>2
  <2>2. \A n \in 0 .. N : n \in S
    BY <1>1, <2>1, UpTo, Zenon
  <2> QED BY <2>2
<1> QED
  BY <1>3 DEF S

\* rows holds the sums of the rows of F, and cols those of its columns.
RowSums(F, R, C, rows) ==
    rows \in [1 .. R -> Nat] /\ \A r \in 1 .. R : rows[r] = Total(F[r])[C]

ColumnSums(F, R, C, cols) ==
    /\ cols \in [1 .. C -> Nat]
    /\ \A c \in 1 .. C : cols[c] = Total([r \in 1 .. R |-> F[r][c]])[R]

SumsBothWays(F, R, C, rows, cols) ==
    /\ R \in Nat /\ C \in Nat /\ F \in [1 .. R -> [1 .. C -> Nat]]
    /\ RowSums(F, R, C, rows) /\ ColumnSums(F, R, C, cols)

\* The sums of the rows and the sums of the columns have the same sum.
LEMMA TotalSwap ==
    ASSUME NEW R, NEW C, NEW F, NEW rows, NEW cols, SumsBothWays(F, R, C, rows, cols)
    PROVE  Total(rows)[R] = Total(cols)[C]
<1> USE DEF SumsBothWays, RowSums, ColumnSums
<1> DEFINE Column(c) == [r \in 1 .. R |-> F[r][c]]
           Upper(n)  == [c \in 1 .. C |-> Total(Column(c))[n]]
           S == {n \in 0 .. R : Total(rows)[n] = Total(Upper(n))[C]}
<1>1. \A c \in 1 .. C : Column(c) \in [1 .. R -> Nat]
  OBVIOUS
<1> HIDE DEF Column
<1>2. \A c \in 1 .. C : /\ Total(Column(c)) \in [0 .. R -> Nat]
                        /\ Total(Column(c))[0] = 0
                        /\ \A n \in 1 .. R :
                              Total(Column(c))[n] = Total(Column(c))[n - 1] + Column(c)[n]
  BY <1>1, TotalDef
<1>3. \A n \in 0 .. R : Upper(n) \in [1 .. C -> Nat]
  BY <1>2
<1>4. \A n \in 0 .. R - 1 : \A c \in 1 .. C :
         Upper(n + 1)[c] = Upper(n)[c] + F[n + 1][c] /\ Upper(0)[c] = 0
  <2> SUFFICES ASSUME NEW n \in 0 .. R - 1, NEW c \in 1 .. C
               PROVE  Upper(n + 1)[c] = Upper(n)[c] + F[n + 1][c] /\ Upper(0)[c] = 0
    OBVIOUS
  <2>1. n + 1 \in 1 .. R /\ (n + 1) - 1 = n
    OBVIOUS
  <2>2. Total(Column(c))[n + 1] = Total(Column(c))[n] + Column(c)[n + 1] /\ Total(Column(c))[0] = 0
    BY <1>2, <2>1
  <2>3. Column(c)[n + 1] = F[n + 1][c]
    BY <2>1 DEF Column
  <2> QED BY <2>2, <2>3
<1>5. /\ Total(rows) \in [0 .. R -> Nat] /\ Total(rows)[0] = 0
      /\ \A n \in 1 .. R : Total(rows)[n] = Total(rows)[n - 1] + rows[n]
  BY TotalDef, Zenon
<1>6. 0 \in S
  <2>1. Upper(0) \in [1 .. C -> Nat] /\ \A c \in 1 .. C : Upper(0)[c] = 0
    BY <1>2, <1>3
  <2> DEFINE u == Upper(0)
  <2> HIDE DEF u
  <2>2. u \in [1 .. C -> Nat] /\ \A c \in 0 + 1 .. C : u[c] = 0
    BY <2>1 DEF u
  <2>3. 0 \in 0 .. C
    OBVIOUS
  <2>4. Total(u)[C] = Total(u)[0]
    BY <2>2, <2>3, TotalZeros, Zenon
  <2>5. Total(u)[0] = 0
    BY <2>2, TotalDef, Zenon
  <2> QED BY <1>5, <2>4, <2>5 DEF u
<1>7. ASSUME NEW n \in 0 .. R - 1, n \in S
      PROVE  n + 1 \in S
  <2> DEFINE u == Upper(n)  v == Upper(n + 1)  w == F[n + 1]
  <2>1. n \in 0 .. R /\ n + 1 \in 0 .. R /\ n + 1 \in 1 .. R /\ (n + 1) - 1 = n
    OBVIOUS
  <2>2. u \in [1 .. C -> Nat] /\ v \in [1 .. C -> Nat] /\ w \in [1 .. C -> Nat]
    BY <1>3, <2>1
  <2>3. \A c \in 1 .. C : v[c] = u[c] + w[c]
    BY <1>4
  <2>4. Total(rows)[n + 1] = Total(rows)[n] + Total(w)[C]
    BY <1>5, <2>1
  <2>5. Total(rows)[n] = Total(u)[C]
    BY <1>7
  <2> HIDE DEF u, v, w
  <2>6. Total(v)[C] = Total(u)[C] + Total(w)[C]
    BY <2>2, <2>3, TotalSum, Zenon
  <2>7. Total(rows)[n + 1] = Total(v)[C]
    BY <2>4, <2>5, <2>6
  <2> QED BY <2>1, <2>7 DEF v
<1> HIDE DEF S
<1>8. \A n \in 0 .. R - 1 : n \in S => n + 1 \in S
  BY <1>7
<1>9. \A n \in 0 .. R : n \in S
  BY <1>6, <1>8, UpTo, Zenon
<1>10. Total(rows)[R] = Total(Upper(R))[C]
  BY <1>9 DEF S
<1>11. Upper(R) = cols
  BY DEF Column
<1> QED
  BY <1>10, <1>11

-----------------------------------------------------------------------------
(***************************************************************************)
(* What a row is worth, by any weight of the tiles that gives none to an    *)
(* empty square.  A weight doubles if merging two tiles adds to what they   *)
(* weigh what it adds to the score.                                         *)
(***************************************************************************)
Weights == {w \in [Nat -> Nat] : w[0] = 0}

\* Merging two tiles makes a tile that weighs more by what the merge scores.
Doubles(w) == \A v \in TileValues : w[2 * v] = 2 * w[v] + 2 * v

Worths(w, row)  == [c \in DOMAIN row |-> w[row[c]]]
WorthBy(w, row) == Total(Worths(w, row))[Len(row)]

\* What a weight is.
LEMMA WeightIs == \A w \in Weights : w \in [Nat -> Nat] /\ w[0] = 0 /\ \A v \in Values : w[v] \in Nat
  BY TileFacts DEF Weights

\* A row is worth the sum of what its squares are worth.
LEMMA WorthIs ==
    ASSUME NEW w \in Weights, NEW N \in Nat, NEW row \in [1 .. N -> Values]
    PROVE  /\ Worths(w, row) \in [1 .. N -> Nat]
           /\ \A c \in 1 .. N : Worths(w, row)[c] = w[row[c]]
           /\ WorthBy(w, row) = Total(Worths(w, row))[N]
           /\ WorthBy(w, row) \in Nat
<1>1. Len(row) = N /\ DOMAIN row = 1 .. N
  BY SeqOf
<1>2. Worths(w, row) \in [1 .. N -> Nat] /\ \A c \in 1 .. N : Worths(w, row)[c] = w[row[c]]
  BY <1>1, WeightIs DEF Worths
<1>3. WorthBy(w, row) = Total(Worths(w, row))[N]
  BY <1>1, Zenon DEF WorthBy
<1>4. Total(Worths(w, row)) \in [0 .. N -> Nat]
  BY <1>2, TotalDef, Zenon
<1> QED
  BY <1>2, <1>3, <1>4

\* The same, by one name.
RowSum(w, N, row) ==
    /\ Worths(w, row) \in [1 .. N -> Nat]
    /\ \A c \in 1 .. N : Worths(w, row)[c] = w[row[c]]
    /\ WorthBy(w, row) = Total(Worths(w, row))[N]

LEMMA RowIs ==
    ASSUME NEW w \in Weights, NEW N \in Nat, NEW row \in [1 .. N -> Values]
    PROVE  RowSum(w, N, row)
  BY WorthIs DEF RowSum

\* Two tiles are worth a tile of twice their value, less what merging them scores.
LEMMA WorthOfTwice ==
    /\ WorthOf[0] = 0 /\ WorthOf[2] = 0 /\ WorthOf[4] = 4
    /\ \A v \in TileValues : WorthOf[2 * v] = 2 * WorthOf[v] + 2 * v
<1>1. WorthOf[0] = 0 /\ WorthOf[2] = 0
  BY WorthOfDef
<1>2. ASSUME NEW v \in TileValues
      PROVE  WorthOf[2 * v] = 2 * WorthOf[v] + 2 * v
  <2>1. 2 * v \in Nat /\ 2 * v > 2 /\ (2 * v) \div 2 = v
    BY TileFacts
  <2> QED BY <2>1, WorthOfDef
<1>3. WorthOf[4] = 4
  <2>1. 2 \in TileValues
    BY TileFacts
  <2>2. WorthOf[2 * 2] = 2 * WorthOf[2] + 2 * 2
    BY <1>2, <2>1
  <2> QED BY <1>1, <2>2
<1> QED
  BY <1>1, <1>2, <1>3

\* So it is a weight.
LEMMA WorthOfWeighs == WorthOf \in Weights /\ Doubles(WorthOf)
  BY WorthOfDef, WorthOfTwice DEF Weights, Doubles

\* A sequence of tiles is a row without empty squares.
LEMMA TilesAreRow ==
    ASSUME NEW t \in Seq(TileValues)
    PROVE  /\ Len(t) \in Nat /\ t \in [1 .. Len(t) -> TileValues]
           /\ t \in [1 .. Len(t) -> Values]
<1>1. Len(t) \in Nat /\ t \in [1 .. Len(t) -> TileValues]
  BY LenProperties
<1>2. TileValues \subseteq Values
  BY TileFacts
<1> QED
  BY <1>1, <1>2

\* What Append does to a sequence of tiles.
LEMMA AppendIs ==
    ASSUME NEW t \in Seq(TileValues), NEW v \in TileValues
    PROVE  /\ Append(t, v) \in Seq(TileValues)
           /\ Len(Append(t, v)) = Len(t) + 1
           /\ \A k \in 1 .. Len(t) : Append(t, v)[k] = t[k]
           /\ Append(t, v)[Len(t) + 1] = v
  BY AppendProperties

\* A tile more is worth as much more.
LEMMA WorthAppend ==
    ASSUME NEW w \in Weights, NEW t \in Seq(TileValues), NEW v \in TileValues
    PROVE  WorthBy(w, Append(t, v)) = WorthBy(w, t) + w[v]
<1> DEFINE L == Len(t)
           a == Append(t, v)
<1>1. L \in Nat /\ t \in [1 .. L -> Values]
  BY TilesAreRow
<1>2. /\ a \in Seq(TileValues) /\ Len(a) = L + 1
      /\ (\A k \in 1 .. L : a[k] = t[k]) /\ a[L + 1] = v
  BY AppendIs
<1>3. L + 1 \in Nat /\ a \in [1 .. L + 1 -> Values]
  BY <1>1, <1>2, TilesAreRow
<1> HIDE DEF L, a
<1>4. /\ Worths(w, a) \in [1 .. L + 1 -> Nat] /\ (\A c \in 1 .. L + 1 : Worths(w, a)[c] = w[a[c]])
      /\ WorthBy(w, a) = Total(Worths(w, a))[L + 1]
  BY <1>3, WorthIs, Zenon
<1>5. /\ Worths(w, t) \in [1 .. L -> Nat] /\ (\A c \in 1 .. L : Worths(w, t)[c] = w[t[c]])
      /\ WorthBy(w, t) = Total(Worths(w, t))[L]
  BY <1>1, WorthIs, Zenon
<1>6. Total(Worths(w, a))[L] = Total(Worths(w, t))[L]
  <2>1. L <= L + 1 /\ L <= L /\ \A k \in 1 .. L : Worths(w, a)[k] = Worths(w, t)[k]
    <3>1. L <= L + 1 /\ L <= L /\ \A k \in 1 .. L : k \in 1 .. L + 1
      BY <1>1
    <3>2. \A k \in 1 .. L : Worths(w, a)[k] = w[a[k]] /\ a[k] = t[k]
      BY <1>2, <1>4, <3>1
    <3> QED BY <1>5, <3>1, <3>2
  <2>2. L \in Nat /\ L + 1 \in Nat
    BY <1>1
  <2>3. Worths(w, a) \in [1 .. L + 1 -> Nat] /\ Worths(w, t) \in [1 .. L -> Nat]
    BY <1>4, <1>5
  <2> QED BY <2>1, <2>2, <2>3, TotalSame, Zenon
<1>7. \A n \in 1 .. L + 1 : Total(Worths(w, a))[n] = Total(Worths(w, a))[n - 1] + Worths(w, a)[n]
  BY <1>3, <1>4, TotalDef, Zenon
<1>8. L + 1 \in 1 .. L + 1 /\ (L + 1) - 1 = L
  BY <1>1
<1>9. Total(Worths(w, a))[L + 1] = Total(Worths(w, a))[L] + w[v]
  BY <1>2, <1>4, <1>7, <1>8
<1> QED
  BY <1>4, <1>5, <1>6, <1>9 DEF a

(***************************************************************************)
(* The tiles of a row: never more than squares, as many exactly if no       *)
(* square is empty, and worth what the row is worth.                        *)
(***************************************************************************)
LEMMA TilesUpToFacts ==
    ASSUME NEW w \in Weights, NEW N \in Nat, NEW row \in [1 .. N -> Values], NEW n \in 0 .. N
    PROVE  /\ TilesUpTo(row)[n] \in Seq(TileValues)
           /\ Len(TilesUpTo(row)[n]) \in 0 .. n
           /\ Len(TilesUpTo(row)[n]) = n => \A k \in 1 .. n : TilesUpTo(row)[n][k] = row[k]
           /\ Len(TilesUpTo(row)[n]) = n <=> \A k \in 1 .. n : row[k] # 0
           /\ WorthBy(w, TilesUpTo(row)[n]) = Total(Worths(w, row))[n]
<1> DEFINE t == TilesUpTo(row)
           ws == Worths(w, row)
           Fact(i) == /\ Len(t[i]) \in 0 .. i
                      /\ Len(t[i]) = i => \A k \in 1 .. i : t[i][k] = row[k]
                      /\ Len(t[i]) = i <=> \A k \in 1 .. i : row[k] # 0
                      /\ WorthBy(w, t[i]) = Total(ws)[i]
           S == {i \in 0 .. N : Fact(i)}
<1>1. /\ t \in [0 .. N -> Seq(TileValues)] /\ t[0] = << >>
      /\ \A i \in 1 .. N : t[i] = IF row[i] = 0 THEN t[i - 1] ELSE Append(t[i - 1], row[i])
  BY TilesUpToDef, Zenon
<1>2. ws \in [1 .. N -> Nat] /\ \A c \in 1 .. N : ws[c] = w[row[c]]
  BY WorthIs, Zenon
<1>3. /\ Total(ws) \in [0 .. N -> Nat] /\ Total(ws)[0] = 0
      /\ \A i \in 1 .. N : Total(ws)[i] = Total(ws)[i - 1] + ws[i]
  <2> HIDE DEF ws
  <2> QED BY <1>2, TotalDef, Zenon
<1> HIDE DEF t, ws
<1>4. 0 \in S
  <2>1. Len(<< >>) = 0 /\ << >> \in [1 .. 0 -> Values] /\ 0 \in Nat
    OBVIOUS
  <2> DEFINE e == << >>
  <2> HIDE DEF e
  <2>2. Worths(w, e) \in [1 .. 0 -> Nat] /\ WorthBy(w, e) = Total(Worths(w, e))[0]
    <3>1. RowSum(w, 0, e)
      BY <2>1, RowIs, Zenon DEF e
    <3> QED BY <3>1 DEF RowSum
  <2>3. Total(Worths(w, e))[0] = 0
    BY <2>1, <2>2, TotalDef, Zenon
  <2>4. WorthBy(w, t[0]) = Total(ws)[0]
    BY <1>1, <1>3, <2>2, <2>3 DEF e
  <2>5. Len(t[0]) = 0
    BY <1>1, <2>1
  <2> QED BY <2>4, <2>5
<1>5. ASSUME NEW i \in 0 .. N - 1, i \in S
      PROVE  i + 1 \in S
  <2>0. i \in 0 .. N /\ i + 1 \in 0 .. N /\ i + 1 \in 1 .. N /\ (i + 1) - 1 = i
    OBVIOUS
  <2>1. t[i] \in Seq(TileValues) /\ Fact(i)
    BY <1>1, <1>5, <2>0
  <2>2. Total(ws)[i + 1] = Total(ws)[i] + w[row[i + 1]] /\ Total(ws)[i] \in Nat
    BY <1>2, <1>3, <2>0
  <2>3. CASE row[i + 1] = 0
    <3>1. t[i + 1] = t[i]
      BY <1>1, <2>0, <2>3
    <3>2. WorthBy(w, t[i + 1]) = Total(ws)[i + 1]
      <4>1. w[row[i + 1]] = 0
        BY <2>3, WeightIs
      <4> QED BY <2>1, <2>2, <3>1, <4>1
    <3>3. Len(t[i + 1]) \in 0 .. i
      BY <2>1, <3>1
    <3>4. Len(t[i + 1]) \in 0 .. i + 1 /\ Len(t[i + 1]) # i + 1
      BY <2>0, <3>3
    <3>5. i + 1 \in 1 .. i + 1
      BY <2>0
    <3>6. Fact(i + 1)
      BY <2>3, <3>2, <3>4, <3>5
    <3> QED BY <2>0, <3>6
  <2>4. CASE row[i + 1] # 0
    <3>1. row[i + 1] \in TileValues
      BY <2>0, <2>4, TileFacts
    <3>2. t[i + 1] = Append(t[i], row[i + 1])
      BY <1>1, <2>0, <2>4
    <3>3. /\ Len(t[i + 1]) = Len(t[i]) + 1
          /\ (\A k \in 1 .. Len(t[i]) : t[i + 1][k] = t[i][k])
          /\ t[i + 1][Len(t[i]) + 1] = row[i + 1]
      BY <2>1, <3>1, <3>2, AppendIs
    <3>4. WorthBy(w, t[i + 1]) = Total(ws)[i + 1]
      BY <2>1, <2>2, <3>1, <3>2, WorthAppend
    <3>5. Len(t[i + 1]) \in 0 .. i + 1 /\ (Len(t[i + 1]) = i + 1 <=> Len(t[i]) = i)
      BY <2>0, <2>1, <3>3
    <3>6. Len(t[i + 1]) = i + 1 => \A k \in 1 .. i + 1 : t[i + 1][k] = row[k]
      <4> SUFFICES ASSUME Len(t[i]) = i, NEW k \in 1 .. i + 1
                   PROVE  t[i + 1][k] = row[k]
        BY <3>5
      <4>1. CASE k = i + 1
        BY <3>3, <4>1
      <4>2. CASE k # i + 1
        <5>1. k \in 1 .. i
          BY <2>0, <4>2
        <5> QED BY <2>1, <3>3, <5>1
      <4> QED BY <4>1, <4>2
    <3>7. (\A k \in 1 .. i + 1 : row[k] # 0) <=> (\A k \in 1 .. i : row[k] # 0)
      BY <2>0, <2>4
    <3>8. Fact(i + 1)
      BY <2>1, <3>4, <3>5, <3>6, <3>7
    <3> QED BY <2>0, <3>8
  <2> QED BY <2>3, <2>4
<1> HIDE DEF S
<1>6. \A i \in 0 .. N - 1 : i \in S => i + 1 \in S
  BY <1>5
<1>7. n \in S
  BY <1>4, <1>6, UpTo, Zenon
<1>8. t[n] \in Seq(TileValues) /\ Fact(n)
  BY <1>1, <1>7 DEF S
<1> QED
  BY <1>8 DEF t, ws

-----------------------------------------------------------------------------
(***************************************************************************)
(* Merging the tiles of a row (game.py:58-63).                              *)
(***************************************************************************)

\* Changing one square changes the worth of the row by as much.
LEMMA WorthChange ==
    ASSUME NEW w \in Weights, NEW N \in Nat, NEW row \in [1 .. N -> Values],
           NEW i \in 1 .. N, NEW v \in Values,
           NEW other \in [1 .. N -> Values], other[i] = v,
           \A k \in 1 .. N : k # i => other[k] = row[k]
    PROVE  WorthBy(w, other) + w[row[i]] = WorthBy(w, row) + w[v]
<1>1. /\ Worths(w, row) \in [1 .. N -> Nat] /\ (\A c \in 1 .. N : Worths(w, row)[c] = w[row[c]])
      /\ WorthBy(w, row) = Total(Worths(w, row))[N]
  BY WorthIs, Zenon
<1>2. /\ Worths(w, other) \in [1 .. N -> Nat]
      /\ (\A c \in 1 .. N : Worths(w, other)[c] = w[other[c]])
      /\ WorthBy(w, other) = Total(Worths(w, other))[N]
  BY WorthIs, Zenon
<1>3. \A k \in 1 .. N : k # i => Worths(w, other)[k] = Worths(w, row)[k]
  BY <1>1, <1>2
<1>4. Total(Worths(w, other))[N] + Worths(w, row)[i] = Total(Worths(w, row))[N] + Worths(w, other)[i]
  BY <1>1, <1>2, <1>3, TotalOneChange, Zenon
<1> QED
  BY <1>1, <1>2, <1>4

\* A round that merges makes a zero of the second tile.
LEMMA MergeOnce ==
    ASSUME NEW w \in Weights, Doubles(w), NEW N \in Nat, NEW m \in MergeStates(N),
           NEW c \in 1 .. N - 1,
           m.row[c] = m.row[c + 1], m.row[c] # 0
    PROVE  LET next == MergeAt(m, c)
           IN  /\ next \in MergeStates(N)
               /\ next.row[c] = 2 * m.row[c] /\ next.row[c + 1] = 0
               /\ \A k \in 1 .. N : k # c /\ k # c + 1 => next.row[k] = m.row[k]
               /\ WorthBy(w, next.row) - next.gained = WorthBy(w, m.row) - m.gained
<1> DEFINE v  == m.row[c]
           r0 == m.row
           r1 == [r0 EXCEPT ![c] = 2 * v]
           r2 == [r0 EXCEPT ![c] = 2 * v, ![c + 1] = 0]
           next == MergeAt(m, c)
<1>1. c \in 1 .. N /\ c + 1 \in 1 .. N /\ c + 1 # c
  OBVIOUS
<1>2. r0 \in [1 .. N -> Values] /\ m.gained \in Nat
  BY DEF MergeStates
<1>3. v \in TileValues /\ v \in Values /\ v \in Nat /\ 2 * v \in Values /\ 0 \in Values
  <2>1. v \in Values /\ v # 0
    BY <1>1, <1>2
  <2> HIDE DEF v
  <2> QED BY <2>1, TileFacts
<1>4. next.row = r2 /\ next.gained = m.gained + 2 * v
  <2>1. next = [row |-> [m.row EXCEPT ![c] = 2 * @, ![c + 1] = 0],
                gained |-> m.gained + 2 * m.row[c]]
    BY Zenon DEF MergeAt
  <2>2. [m.row EXCEPT ![c] = 2 * @, ![c + 1] = 0] = r2
    OBVIOUS
  <2> HIDE DEF next
  <2> QED BY <2>1, <2>2
<1>5. next \in MergeStates(N)
  BY MergeAtType
<1>6. r1[c] = 2 * v /\ r2[c] = 2 * v /\ r2[c + 1] = 0 /\ r1[c + 1] = v
  BY <1>1, <1>2
<1>7. \A k \in 1 .. N : /\ k # c => r1[k] = r0[k]
                        /\ k # c + 1 => r2[k] = r1[k]
                        /\ k # c /\ k # c + 1 => r2[k] = r0[k]
  BY <1>1, <1>2
<1>8. r1 \in [1 .. N -> Values] /\ r2 \in [1 .. N -> Values]
  <2> DEFINE x == 2 * v
  <2>1. x \in Values /\ 0 \in Values /\ r0 \in [1 .. N -> Values]
    BY <1>2, <1>3
  <2> HIDE DEF Values, v, x, r0
  <2>2. [r0 EXCEPT ![c] = x] \in [1 .. N -> Values]
    BY <2>1
  <2>3. [r0 EXCEPT ![c] = x, ![c + 1] = 0] \in [1 .. N -> Values]
    BY <2>1
  <2> QED BY <2>2, <2>3 DEF x
<1>a. r0[c] = v
  OBVIOUS
<1> HIDE DEF v, r0, r1, r2, next
<1>9. WorthBy(w, r1) + w[v] = WorthBy(w, r0) + w[2 * v]
  <2>1. WorthBy(w, r1) + w[r0[c]] = WorthBy(w, r0) + w[2 * v]
    <3> DEFINE x == 2 * v
    <3>1. x \in Values /\ r1[c] = x /\ c \in 1 .. N
      BY <1>1, <1>3, <1>6
    <3>2. r0 \in [1 .. N -> Values] /\ r1 \in [1 .. N -> Values]
      BY <1>2, <1>8
    <3>3. \A k \in 1 .. N : k # c => r1[k] = r0[k]
      BY <1>7
    <3> HIDE DEF x
    <3>4. WorthBy(w, r1) + w[r0[c]] = WorthBy(w, r0) + w[x]
      BY <3>1, <3>2, <3>3, WorthChange, ZenonT(60)
    <3> QED BY <3>4 DEF x
  <2> QED BY <2>1, <1>a
<1>10. WorthBy(w, r2) + w[v] = WorthBy(w, r1) + w[0]
  <2>1. WorthBy(w, r2) + w[r1[c + 1]] = WorthBy(w, r1) + w[0]
    <3> DEFINE d == c + 1
    <3>1. 0 \in Values /\ r2[d] = 0 /\ d \in 1 .. N
      BY <1>1, <1>3, <1>6
    <3>2. r2 \in [1 .. N -> Values] /\ r1 \in [1 .. N -> Values]
      BY <1>8
    <3>3. \A k \in 1 .. N : k # d => r2[k] = r1[k]
      BY <1>7
    <3> HIDE DEF d
    <3>4. WorthBy(w, r2) + w[r1[d]] = WorthBy(w, r1) + w[0]
      BY <3>1, <3>2, <3>3, WorthChange, ZenonT(60)
    <3> QED BY <3>4 DEF d
  <2> QED BY <2>1, <1>6
<1>11. w[2 * v] = 2 * w[v] + 2 * v /\ w[0] = 0
  <2>1. w[2 * v] = 2 * w[v] + 2 * v
    BY <1>3 DEF Doubles
  <2> QED BY <2>1, WeightIs
<1>12. w[v] \in Nat /\ WorthBy(w, r0) \in Nat /\ WorthBy(w, r1) \in Nat /\ WorthBy(w, r2) \in Nat
  <2>1. w[v] \in Nat
    BY <1>3, WeightIs
  <2> QED BY <1>2, <1>8, <2>1, WorthIs
<1>13. WorthBy(w, r2) = WorthBy(w, r0) + 2 * v
  <2> DEFINE a == WorthBy(w, r0)
             b == WorthBy(w, r1)
             d == WorthBy(w, r2)
             e == w[v]
             f == w[2 * v]
  <2>1. b + e = a + f /\ d + e = b + 0 /\ f = 2 * e + 2 * v
    BY <1>9, <1>10, <1>11
  <2>2. a \in Nat /\ b \in Nat /\ d \in Nat /\ e \in Nat /\ v \in Nat
    BY <1>3, <1>12
  <2> HIDE DEF a, b, d, e, f
  <2>3. d = a + 2 * v
    BY <2>1, <2>2
  <2> QED BY <2>3 DEF a, d
<1>14. WorthBy(w, next.row) - next.gained = WorthBy(w, m.row) - m.gained
  BY <1>2, <1>3, <1>4, <1>12, <1>13 DEF r0
<1>15. next.row[c] = 2 * m.row[c] /\ next.row[c + 1] = 0
  BY <1>4, <1>6 DEF v
<1>16. \A k \in 1 .. N : k # c /\ k # c + 1 => next.row[k] = m.row[k]
  BY <1>4, <1>7 DEF r0
<1> QED
  BY <1>5, <1>14, <1>15, <1>16 DEF next

(***************************************************************************)
(* Before the round of tile c: the tiles after c are as they were, c is or  *)
(* has been merged away, and the row and the points are worth the tiles.    *)
(***************************************************************************)
MergedBefore(w, tiles, m, c) ==
    /\ m \in MergeStates(Len(tiles))
    /\ \A k \in c + 1 .. Len(tiles) : m.row[k] = tiles[k]
    /\ m.row[c] \in {0, tiles[c]}
    /\ WorthBy(w, m.row) - m.gained = WorthBy(w, tiles)
    /\ (\A k \in 1 .. c - 1 : tiles[k] # tiles[k + 1]) => m.row = tiles
    /\ (\E k \in 1 .. c - 1 : tiles[k] = tiles[k + 1]) => \E k \in 1 .. c : m.row[k] = 0

\* Every round of the loop keeps what is known of the row before it.
LEMMA MergeRound ==
    ASSUME NEW w \in Weights, Doubles(w), NEW N \in Nat,
           NEW tiles \in [1 .. N -> TileValues], NEW c \in 1 .. N - 1,
           NEW m, MergedBefore(w, tiles, m, c)
    PROVE  MergedBefore(w, tiles, MergeAt(m, c), c + 1)
<1>0. Len(tiles) = N /\ c \in 1 .. N /\ c + 1 \in 1 .. N /\ (c + 1) - 1 = c
  BY SeqOf
<1>1. /\ m \in MergeStates(N)
      /\ \A k \in c + 1 .. N : m.row[k] = tiles[k]
      /\ m.row[c] \in {0, tiles[c]}
      /\ WorthBy(w, m.row) - m.gained = WorthBy(w, tiles)
      /\ (\A k \in 1 .. c - 1 : tiles[k] # tiles[k + 1]) => m.row = tiles
      /\ (\E k \in 1 .. c - 1 : tiles[k] = tiles[k + 1]) => \E k \in 1 .. c : m.row[k] = 0
  BY <1>0 DEF MergedBefore
<1>2. m.row[c + 1] = tiles[c + 1] /\ tiles[c + 1] # 0 /\ tiles[c] # 0
  <2>1. tiles[c] \in TileValues /\ tiles[c + 1] \in TileValues
    BY <1>0
  <2>2. c + 1 \in c + 1 .. N
    BY <1>0
  <2>3. m.row[c + 1] = tiles[c + 1]
    BY <1>1, <2>2
  <2> QED BY <2>1, <2>3, TileFacts
<1>3. CASE m.row[c] = m.row[c + 1]
  <2> DEFINE n == MergeAt(m, c)
  <2>1. m.row[c] = tiles[c] /\ tiles[c] = tiles[c + 1] /\ m.row[c] # 0
    BY <1>1, <1>2, <1>3
  <2>2. /\ n \in MergeStates(N) /\ n.row[c + 1] = 0
        /\ \A k \in 1 .. N : k # c /\ k # c + 1 => n.row[k] = m.row[k]
        /\ WorthBy(w, n.row) - n.gained = WorthBy(w, m.row) - m.gained
    BY <1>1, <1>3, <2>1, MergeOnce
  <2> HIDE DEF n
  <2>3. \A k \in (c + 1) + 1 .. N : n.row[k] = tiles[k]
    <3> SUFFICES ASSUME NEW k \in (c + 1) + 1 .. N
                 PROVE  n.row[k] = tiles[k]
      OBVIOUS
    <3>1. k \in 1 .. N /\ k \in c + 1 .. N /\ k # c /\ k # c + 1
      OBVIOUS
    <3> QED BY <1>1, <2>2, <3>1
  <2>4. ~(\A k \in 1 .. c : tiles[k] # tiles[k + 1])
    BY <2>1
  <2>5. \E k \in 1 .. c + 1 : n.row[k] = 0
    BY <2>2
  <2>6. MergedBefore(w, tiles, n, c + 1)
    BY <1>0, <1>1, <2>2, <2>3, <2>4, <2>5 DEF MergedBefore
  <2> QED BY <2>6 DEF n
<1>4. CASE m.row[c] # m.row[c + 1]
  <2>1. MergeAt(m, c) = m
    BY <1>4, Zenon DEF MergeAt
  <2>2. \A k \in (c + 1) + 1 .. N : m.row[k] = tiles[k]
    BY <1>0, <1>1
  <2>3. (\A k \in 1 .. c : tiles[k] # tiles[k + 1]) => m.row = tiles
    BY <1>0, <1>1
  <2>4. ASSUME NEW k \in 1 .. c, tiles[k] = tiles[k + 1]
        PROVE  \E j \in 1 .. c + 1 : m.row[j] = 0
    <3>1. CASE k = c
      <4>1. m.row[c] = 0
        BY <1>1, <1>2, <1>4, <2>4, <3>1
      <4> QED BY <1>0, <4>1
    <3>2. CASE k # c
      <4>1. k \in 1 .. c - 1
        BY <3>2
      <4>2. PICK j \in 1 .. c : m.row[j] = 0
        BY <1>1, <2>4, <4>1
      <4> QED BY <4>2
    <3> QED BY <3>1, <3>2
  <2>5. MergedBefore(w, tiles, m, c + 1)
    BY <1>0, <1>1, <1>2, <2>2, <2>3, <2>4 DEF MergedBefore
  <2> QED BY <2>1, <2>5
<1> QED
  BY <1>3, <1>4

\* So it holds before every round.
LEMMA MergeFacts ==
    ASSUME NEW w \in Weights, Doubles(w), NEW N \in Nat,
           NEW tiles \in [1 .. N -> TileValues], NEW c \in 1 .. N
    PROVE  MergedBefore(w, tiles, Merging(tiles)[c], c)
<1> DEFINE m == Merging(tiles)
           S == {i \in 0 .. N : i >= 1 => MergedBefore(w, tiles, m[i], i)}
<1>0. Len(tiles) = N /\ tiles \in [1 .. N -> Values]
  BY SeqOf, TileFacts
<1>1. /\ m \in [0 .. N -> MergeStates(N)]
      /\ \A i \in 0 .. N : i <= 1 => m[i] = [row |-> tiles, gained |-> 0]
      /\ \A i \in 1 .. N - 1 : m[i + 1] = MergeAt(m[i], i)
  BY <1>0, MergingDef, Zenon
<1> HIDE DEF m
<1>2. 0 \in S
  OBVIOUS
<1>3. ASSUME NEW i \in 0 .. N - 1, i \in S
      PROVE  i + 1 \in S
  <2>1. CASE i = 0
    <3>1. 1 \in 0 .. N
      BY <2>1
    <3>2. m[1] = [row |-> tiles, gained |-> 0] /\ m[1] \in MergeStates(N)
      BY <1>1, <3>1
    <3>3. m[1].row = tiles /\ m[1].gained = 0 /\ WorthBy(w, tiles) \in Nat
      BY <1>0, <3>2, WorthIs
    <3>4. WorthBy(w, m[1].row) - m[1].gained = WorthBy(w, tiles)
      BY <3>3
    <3>5. MergedBefore(w, tiles, m[1], 1)
      BY <1>0, <3>2, <3>3, <3>4 DEF MergedBefore
    <3> QED BY <2>1, <3>1, <3>5
  <2>2. CASE i # 0
    <3>1. i \in 1 .. N - 1 /\ i >= 1 /\ i + 1 \in 0 .. N
      BY <2>2
    <3>2. MergedBefore(w, tiles, m[i], i)
      BY <1>3, <3>1
    <3>3. MergedBefore(w, tiles, MergeAt(m[i], i), i + 1)
      BY <3>1, <3>2, MergeRound, Zenon
    <3> QED BY <1>1, <3>1, <3>3
  <2> QED BY <2>1, <2>2
<1> HIDE DEF S
<1>4. \A i \in 0 .. N - 1 : i \in S => i + 1 \in S
  BY <1>3
<1>5. \A i \in 0 .. N : i \in S
  BY <1>2, <1>4, UpTo, Zenon
<1>6. c \in S
  BY <1>5
<1> QED
  BY <1>6 DEF S, m

-----------------------------------------------------------------------------
(***************************************************************************)
(* Sliding a row (game.py:50-66).                                           *)
(***************************************************************************)

\* The tiles of the first n squares depend on these squares only.
LEMMA TilesUpToSame ==
    ASSUME NEW M \in Nat, NEW N \in Nat, NEW row \in [1 .. M -> Values],
           NEW other \in [1 .. N -> Values], NEW K \in Nat, K <= M, K <= N,
           \A k \in 1 .. K : row[k] = other[k]
    PROVE  TilesUpTo(row)[K] = TilesUpTo(other)[K]
<1> DEFINE t == TilesUpTo(row)
           u == TilesUpTo(other)
           S == {n \in 0 .. K : t[n] = u[n]}
<1>1. /\ t[0] = << >>
      /\ \A n \in 1 .. M : t[n] = IF row[n] = 0 THEN t[n - 1] ELSE Append(t[n - 1], row[n])
  BY TilesUpToDef, Zenon
<1>2. /\ u[0] = << >>
      /\ \A n \in 1 .. N : u[n] = IF other[n] = 0 THEN u[n - 1] ELSE Append(u[n - 1], other[n])
  BY TilesUpToDef, Zenon
<1> HIDE DEF t, u
<1>3. 0 \in S
  BY <1>1, <1>2
<1>4. ASSUME NEW n \in 0 .. K - 1, n \in S
      PROVE  n + 1 \in S
  <2>1. n + 1 \in 1 .. M /\ n + 1 \in 1 .. N /\ n + 1 \in 1 .. K /\ n + 1 \in 0 .. K /\ (n + 1) - 1 = n
    OBVIOUS
  <2>2. t[n + 1] = IF row[n + 1] = 0 THEN t[n] ELSE Append(t[n], row[n + 1])
    BY <1>1, <2>1
  <2>3. u[n + 1] = IF other[n + 1] = 0 THEN u[n] ELSE Append(u[n], other[n + 1])
    BY <1>2, <2>1
  <2>4. row[n + 1] = other[n + 1] /\ t[n] = u[n]
    BY <1>4, <2>1
  <2>5. t[n + 1] = u[n + 1]
    BY <2>2, <2>3, <2>4, Zenon
  <2> QED BY <2>1, <2>5
<1> HIDE DEF S
<1>5. \A n \in 0 .. K - 1 : n \in S => n + 1 \in S
  BY <1>4
<1>6. \A n \in 0 .. K : n \in S
  BY <1>3, <1>5, UpTo, Zenon
<1>7. K \in S
  BY <1>6
<1> QED
  BY <1>7 DEF S, t, u

\* The tiles of a row: how many they are, and that they are worth what the
\* row is.
LEMMA TilesIs ==
    ASSUME NEW w \in Weights, NEW N \in Nat, NEW row \in [1 .. N -> Values]
    PROVE  /\ Tiles(row) = TilesUpTo(row)[N]
           /\ Tiles(row) \in Seq(TileValues)
           /\ Len(Tiles(row)) \in 0 .. N
           /\ Tiles(row) \in [1 .. Len(Tiles(row)) -> TileValues]
           /\ Len(Tiles(row)) = N => \A k \in 1 .. N : Tiles(row)[k] = row[k]
           /\ Len(Tiles(row)) = N <=> \A k \in 1 .. N : row[k] # 0
           /\ WorthBy(w, Tiles(row)) = WorthBy(w, row)
<1>1. Tiles(row) = TilesUpTo(row)[N]
  BY SeqOf, Zenon DEF Tiles
<1>2. N \in 0 .. N
  OBVIOUS
<1>3. /\ Tiles(row) \in Seq(TileValues)
      /\ Len(Tiles(row)) \in 0 .. N
      /\ Len(Tiles(row)) = N => \A k \in 1 .. N : Tiles(row)[k] = row[k]
      /\ Len(Tiles(row)) = N <=> \A k \in 1 .. N : row[k] # 0
      /\ WorthBy(w, Tiles(row)) = Total(Worths(w, row))[N]
  BY <1>1, <1>2, TilesUpToFacts
<1>4. WorthBy(w, row) = Total(Worths(w, row))[N]
  BY WorthIs, Zenon
<1> QED
  BY <1>1, <1>3, <1>4, TilesAreRow

\* The tiles of a row whose empty squares are all at its end.
LEMMA TilesThenZeros ==
    ASSUME NEW N \in Nat, NEW row \in [1 .. N -> Values], NEW P \in 0 .. N,
           \A k \in 1 .. P : row[k] # 0, \A k \in P + 1 .. N : row[k] = 0
    PROVE  Len(Tiles(row)) = P /\ \A k \in 1 .. P : Tiles(row)[k] = row[k]
<1> DEFINE t == TilesUpTo(row)
           S == {n \in 0 .. N : n >= P => t[n] = t[P]}
<1>1. \A n \in 1 .. N : t[n] = IF row[n] = 0 THEN t[n - 1] ELSE Append(t[n - 1], row[n])
  BY TilesUpToDef, Zenon
<1>2. Len(t[P]) = P /\ \A k \in 1 .. P : t[P][k] = row[k]
  BY TilesUpToFacts, WorthOfWeighs
<1> HIDE DEF t
<1>3. 0 \in S
  OBVIOUS
<1>4. ASSUME NEW n \in 0 .. N - 1, n \in S
      PROVE  n + 1 \in S
  <2>1. n + 1 \in 1 .. N /\ n + 1 \in 0 .. N /\ (n + 1) - 1 = n
    OBVIOUS
  <2>2. CASE n + 1 <= P
    <3>1. n + 1 >= P => n + 1 = P
      BY <2>1, <2>2
    <3> QED BY <2>1, <3>1
  <2>3. CASE n + 1 > P
    <3>1. n + 1 \in P + 1 .. N /\ n >= P
      BY <2>1, <2>3
    <3>2. t[n + 1] = t[n] /\ t[n] = t[P]
      BY <1>1, <1>4, <2>1, <3>1
    <3> QED BY <2>1, <3>2
  <2> QED BY <2>1, <2>2, <2>3
<1> HIDE DEF S
<1>5. \A n \in 0 .. N - 1 : n \in S => n + 1 \in S
  BY <1>4
<1>6. \A n \in 0 .. N : n \in S
  BY <1>3, <1>5, UpTo, Zenon
<1>7. N \in S
  BY <1>6
<1>8. t[N] = t[P]
  BY <1>7 DEF S
<1>9. Tiles(row) = t[N]
  BY TilesIs, WorthOfWeighs, Zenon DEF t
<1> QED
  BY <1>2, <1>8, <1>9

\* The row after left_pressed(), and what it scored.
LEMMA MergedIs ==
    ASSUME NEW w \in Weights, Doubles(w), NEW N \in Nat, NEW tiles \in [1 .. N -> TileValues]
    PROVE  /\ Merged(tiles) \in MergeStates(N)
           /\ WorthBy(w, Merged(tiles).row) - Merged(tiles).gained = WorthBy(w, tiles)
           /\ (\A k \in 1 .. N - 1 : tiles[k] # tiles[k + 1]) => Merged(tiles).row = tiles
           /\ (\E k \in 1 .. N - 1 : tiles[k] = tiles[k + 1]) =>
                 \E k \in 1 .. N : Merged(tiles).row[k] = 0
<1>0. Len(tiles) = N /\ tiles \in [1 .. N -> Values]
  BY SeqOf, TileFacts
<1>1. Merged(tiles) = Merging(tiles)[N]
  BY <1>0, Zenon DEF Merged
<1>2. CASE N = 0
  <2>1. /\ Merging(tiles) \in [0 .. N -> MergeStates(N)]
        /\ \A c \in 0 .. N : c <= 1 => Merging(tiles)[c] = [row |-> tiles, gained |-> 0]
    BY <1>0, MergingDef, Zenon
  <2>2. 0 \in 0 .. N /\ 0 <= 1
    OBVIOUS
  <2>3. Merged(tiles) = [row |-> tiles, gained |-> 0] /\ Merged(tiles) \in MergeStates(N)
    BY <1>1, <1>2, <2>1, <2>2
  <2>4. Merged(tiles).row = tiles /\ Merged(tiles).gained = 0 /\ WorthBy(w, tiles) \in Nat
    BY <1>0, <2>3, WorthIs
  <2> QED BY <1>2, <2>3, <2>4
<1>3. CASE N # 0
  <2>1. N \in 1 .. N
    BY <1>3
  <2>2. MergedBefore(w, tiles, Merging(tiles)[N], N)
    BY <2>1, MergeFacts
  <2> QED BY <1>0, <1>1, <2>2 DEF MergedBefore
<1> QED
  BY <1>2, <1>3

\* A slide leaves the merged tiles left of the empty squares, and the row is
\* worth more by what it scored.
LEMMA SlidFacts ==
    ASSUME NEW w \in Weights, Doubles(w), NEW N \in Nat, NEW row \in [1 .. N -> Values]
    PROVE  LET tiles == Tiles(Merged(Tiles(row)).row)
           IN  /\ tiles \in Seq(TileValues)
               /\ Len(tiles) \in 0 .. N
               /\ Slid(row) \in [1 .. N -> Values]
               /\ \A c \in 1 .. Len(tiles) : Slid(row)[c] = tiles[c] /\ Slid(row)[c] # 0
               /\ \A c \in Len(tiles) + 1 .. N : Slid(row)[c] = 0
               /\ Gained(row) \in Nat
               /\ WorthBy(w, Slid(row)) = WorthBy(w, row) + Gained(row)
<1> DEFINE T == Tiles(row)
           L == Len(T)
           m == Merged(T)
           K == Tiles(m.row)
           P == Len(K)
           s == Slid(row)
<1>1. T \in [1 .. L -> TileValues] /\ L \in 0 .. N /\ L \in Nat /\ WorthBy(w, T) = WorthBy(w, row)
  BY TilesIs
<1>2. m \in MergeStates(L) /\ WorthBy(w, m.row) - m.gained = WorthBy(w, T)
  <2> HIDE DEF T, L, m
  <2>1. Merged(T) \in MergeStates(L) /\ WorthBy(w, Merged(T).row) - Merged(T).gained = WorthBy(w, T)
    BY <1>1, MergedIs
  <2> QED BY <2>1 DEF m
<1>3. m.row \in [1 .. L -> Values] /\ m.gained \in Nat
  BY <1>2 DEF MergeStates
<1>4. /\ K \in Seq(TileValues) /\ P \in 0 .. L /\ P \in Nat /\ K \in [1 .. P -> TileValues]
      /\ WorthBy(w, K) = WorthBy(w, m.row)
  <2> HIDE DEF T, L, m
  <2> QED BY <1>1, <1>3, TilesIs
<1>5. DOMAIN row = 1 .. N
  OBVIOUS
<1>6. s = [c \in 1 .. N |-> IF c <= P THEN K[c] ELSE 0]
  BY <1>5, Zenon DEF Slid
<1>7. Gained(row) = m.gained
  BY Zenon DEF Gained
<1> HIDE DEF T, L, m, K, P, s
<1>8. /\ \A c \in 1 .. P : s[c] = K[c] /\ K[c] \in TileValues /\ c \in 1 .. N
      /\ \A c \in P + 1 .. N : s[c] = 0
  BY <1>1, <1>4, <1>6
<1>9. s \in [1 .. N -> Values] /\ K \in [1 .. P -> Values] /\ \A c \in 1 .. P : s[c] # 0
  <2>1. TileValues \subseteq Values /\ 0 \in Values /\ 0 \notin TileValues
    BY TileFacts
  <2>2. \A c \in 1 .. N : (IF c <= P THEN K[c] ELSE 0) \in Values
    BY <1>4, <2>1
  <2> QED BY <1>4, <1>6, <1>8, <2>1, <2>2
<1>10. /\ Worths(w, s) \in [1 .. N -> Nat] /\ (\A c \in 1 .. N : Worths(w, s)[c] = w[s[c]])
       /\ WorthBy(w, s) = Total(Worths(w, s))[N]
  BY <1>9, WorthIs, Zenon
<1>11. /\ Worths(w, K) \in [1 .. P -> Nat] /\ (\A c \in 1 .. P : Worths(w, K)[c] = w[K[c]])
       /\ WorthBy(w, K) = Total(Worths(w, K))[P]
  BY <1>4, <1>9, WorthIs, Zenon
<1>12. P \in 0 .. N /\ P <= N /\ P <= P
  BY <1>1, <1>4
<1>13. Total(Worths(w, s))[N] = Total(Worths(w, s))[P]
  <2>1. \A k \in P + 1 .. N : Worths(w, s)[k] = 0
    <3>1. \A k \in P + 1 .. N : k \in 1 .. N /\ s[k] = 0
      BY <1>8, <1>12
    <3>2. w[0] = 0
      BY WeightIs
    <3> QED BY <1>10, <3>1, <3>2
  <2> QED BY <1>10, <1>12, <2>1, TotalZeros, Zenon
<1>14. Total(Worths(w, s))[P] = Total(Worths(w, K))[P]
  <2>1. \A k \in 1 .. P : Worths(w, s)[k] = Worths(w, K)[k]
    BY <1>8, <1>10, <1>11
  <2> QED BY <1>4, <1>10, <1>11, <1>12, <2>1, TotalSame, Zenon
<1>15. WorthBy(w, row) \in Nat /\ WorthBy(w, m.row) \in Nat
  BY <1>1, <1>3, WorthIs
<1>16. WorthBy(w, s) = WorthBy(w, row) + Gained(row)
  BY <1>1, <1>2, <1>3, <1>4, <1>7, <1>10, <1>11, <1>13, <1>14, <1>15
<1> QED
  BY <1>3, <1>4, <1>7, <1>8, <1>9, <1>12, <1>16 DEF T, m, K, P, s

\* Tiles c and c + 1 would move or merge in a slide to the left.
Gap(row, c)  == row[c] = 0 /\ row[c + 1] # 0
Pair(row, c) == row[c] = row[c + 1] /\ row[c] # 0

\* Where the tiles of a row without gaps end.
LEMMA NoGap ==
    ASSUME NEW N \in Nat, NEW row \in [1 .. N -> Values], \A c \in 1 .. N - 1 : ~Gap(row, c)
    PROVE  \E P \in 0 .. N : /\ \A k \in 1 .. P : row[k] # 0
                             /\ \A k \in P + 1 .. N : row[k] = 0
<1> DEFINE Z == {k \in 1 .. N : row[k] = 0}
<1>1. CASE Z = {}
  <2>1. \A k \in 1 .. N : row[k] # 0
    BY <1>1
  <2> QED BY <2>1
<1>2. CASE Z # {}
  <2>1. PICK z \in Z : \A k \in Z : z <= k
    <3>1. Z \in SUBSET Nat
      OBVIOUS
    <3> HIDE DEF Z
    <3> QED BY <1>2, <3>1, Least
  <2>2. z \in 1 .. N /\ row[z] = 0 /\ \A k \in 1 .. z - 1 : row[k] # 0
    BY <2>1
  <2> DEFINE S == {n \in 0 .. N : n >= z => row[n] = 0}
  <2>3. 0 \in S
    BY <2>2
  <2>4. ASSUME NEW n \in 0 .. N - 1, n \in S
        PROVE  n + 1 \in S
    <3>1. n + 1 \in 0 .. N
      OBVIOUS
    <3>2. CASE n + 1 <= z
      BY <2>2, <3>1, <3>2
    <3>3. CASE n >= z
      <4>1. n \in 1 .. N - 1 /\ row[n] = 0
        BY <2>2, <2>4, <3>3
      <4> QED BY <4>1, <3>1 DEF Gap
    <3> QED BY <2>2, <3>2, <3>3
  <2> HIDE DEF S
  <2>5. \A n \in 0 .. N - 1 : n \in S => n + 1 \in S
    BY <2>4
  <2>6. \A n \in 0 .. N : n \in S
    BY <2>3, <2>5, UpTo, Zenon
  <2>7. \A k \in (z - 1) + 1 .. N : row[k] = 0
    BY <2>2, <2>6 DEF S
  <2>8. z - 1 \in 0 .. N
    BY <2>2
  <2> QED BY <2>2, <2>7, <2>8
<1> QED
  BY <1>1, <1>2

(***************************************************************************)
(* A slide leaves a row as it is exactly if no tile is behind an empty      *)
(* square and no two neighbours are equal.                                  *)
(***************************************************************************)
LEMMA SlidFixed ==
    ASSUME NEW N \in Nat, NEW row \in [1 .. N -> Values]
    PROVE  Slid(row) = row <=> \A c \in 1 .. N - 1 : ~Gap(row, c) /\ ~Pair(row, c)
<1> DEFINE T == Tiles(row)
           m == Merged(T)
           K == Tiles(m.row)
           s == Slid(row)
<1>1. /\ K \in Seq(TileValues) /\ Len(K) \in 0 .. N
      /\ s \in [1 .. N -> Values]
      /\ \A c \in 1 .. Len(K) : s[c] = K[c] /\ s[c] # 0
      /\ \A c \in Len(K) + 1 .. N : s[c] = 0
  BY SlidFacts, WorthOfWeighs
<1>2. T \in [1 .. Len(T) -> TileValues] /\ Len(T) \in Nat
  BY TilesIs, WorthOfWeighs
<1> HIDE DEF T, s
<1>3. /\ m \in MergeStates(Len(T))
      /\ (\A k \in 1 .. Len(T) - 1 : T[k] # T[k + 1]) => m.row = T
      /\ (\E k \in 1 .. Len(T) - 1 : T[k] = T[k + 1]) => \E k \in 1 .. Len(T) : m.row[k] = 0
  <2>1. WorthOf \in Weights /\ Doubles(WorthOf)
    BY WorthOfWeighs
  <2> QED BY <1>2, <2>1, MergedIs, ZenonT(60)
<1>4. m.row \in [1 .. Len(T) -> Values]
  BY <1>3 DEF MergeStates
<1> HIDE DEF m
<1>5. /\ Len(K) = Len(T) => \A k \in 1 .. Len(T) : K[k] = m.row[k]
      /\ Len(K) = Len(T) <=> \A k \in 1 .. Len(T) : m.row[k] # 0
  BY <1>2, <1>4, TilesIs, WorthOfWeighs
<1> HIDE DEF K
<1>6. ASSUME s = row
      PROVE  \A c \in 1 .. N - 1 : ~Gap(row, c) /\ ~Pair(row, c)
  <2>1. Len(T) = Len(K) /\ \A k \in 1 .. Len(K) : T[k] = row[k]
    <3>1. (\A k \in 1 .. Len(K) : row[k] # 0) /\ (\A k \in Len(K) + 1 .. N : row[k] = 0)
      BY <1>1, <1>6
    <3> QED BY <1>1, <3>1, TilesThenZeros DEF T
  <2>2. ASSUME NEW c \in 1 .. N - 1, row[c + 1] # 0
        PROVE  row[c] # 0 /\ row[c] # row[c + 1]
    <3>1. c \in 1 .. Len(K) - 1 /\ c \in 1 .. Len(K) /\ c + 1 \in 1 .. Len(K)
      <4>1. c + 1 <= Len(K)
        BY <1>1, <1>6, <2>2
      <4> QED BY <1>1, <4>1
    <3>2. row[c] # 0
      BY <1>1, <1>6, <3>1
    <3>3. T[c] # T[c + 1]
      BY <1>3, <1>5, <2>1, <3>1
    <3> QED BY <2>1, <3>1, <3>2, <3>3
  <2> QED BY <2>2 DEF Gap, Pair
<1>7. ASSUME \A c \in 1 .. N - 1 : ~Gap(row, c) /\ ~Pair(row, c)
      PROVE  s = row
  <2>1. PICK P \in 0 .. N : /\ \A k \in 1 .. P : row[k] # 0
                            /\ \A k \in P + 1 .. N : row[k] = 0
    BY <1>7, NoGap
  <2>2. Len(T) = P /\ \A k \in 1 .. P : T[k] = row[k]
    BY <2>1, TilesThenZeros DEF T
  <2>3. \A k \in 1 .. P - 1 : T[k] # T[k + 1]
    <3> SUFFICES ASSUME NEW k \in 1 .. P - 1
                 PROVE  T[k] # T[k + 1]
      OBVIOUS
    <3>1. k \in 1 .. N - 1 /\ k \in 1 .. P /\ k + 1 \in 1 .. P
      BY <2>1
    <3> QED BY <1>7, <2>1, <2>2, <3>1 DEF Pair
  <2>4. m.row = T
    BY <1>3, <2>2, <2>3
  <2>5. \A k \in 1 .. P : m.row[k] # 0 /\ m.row[k] = row[k]
    BY <2>1, <2>2, <2>4
  <2>6. Len(K) = P /\ \A k \in 1 .. P : K[k] = row[k]
    BY <1>5, <2>2, <2>5
  <2>7. \A k \in 1 .. N : s[k] = row[k]
    <3> SUFFICES ASSUME NEW k \in 1 .. N
                 PROVE  s[k] = row[k]
      OBVIOUS
    <3>1. k \in 1 .. P \/ k \in P + 1 .. N
      BY <2>1
    <3> QED BY <1>1, <2>1, <2>6, <3>1
  <2> QED BY <1>1, <2>7
<1> QED
  BY <1>6, <1>7 DEF s

-----------------------------------------------------------------------------
(***************************************************************************)
(* Before the round of tile c, the tiles up to it are the merges of the     *)
(* first pairs, and what remains is merged from c on, or from c + 1 on if c *)
(* is the second of a pair.                                                 *)
(***************************************************************************)
LEMMA GreedySoFar ==
    ASSUME NEW N \in Nat, NEW tiles \in [1 .. N -> TileValues], NEW c \in 1 .. N
    PROVE  LET m == Merging(tiles)[c]
               rest == Greedily(tiles)
           IN  rest[N] = TilesUpTo(m.row)[c - 1]
                           \o (IF m.row[c] = 0 THEN rest[N - c] ELSE rest[N - c + 1])
<1> DEFINE M == Merging(tiles)
           G == Greedily(tiles)
           U(i) == TilesUpTo(M[i].row)
           Claim(i) == G[N] = U(i)[i - 1]
                                \o (IF M[i].row[i] = 0 THEN G[N - i] ELSE G[N - i + 1])
           S == {i \in 0 .. N : i >= 1 => Claim(i)}
<1>0. Len(tiles) = N /\ tiles \in [1 .. N -> Values]
  BY SeqOf, TileFacts
<1>1. /\ \A i \in 0 .. N : i <= 1 => M[i] = [row |-> tiles, gained |-> 0]
      /\ \A i \in 1 .. N - 1 : M[i + 1] = MergeAt(M[i], i)
  BY <1>0, MergingDef, Zenon
<1>2. /\ G \in [0 .. N -> Seq(TileValues)]
      /\ \A n \in 1 .. N : LET k == N - n + 1
                           IN  G[n] = IF n > 1 /\ tiles[k] = tiles[k + 1]
                                      THEN <<2 * tiles[k]>> \o G[n - 2]
                                      ELSE <<tiles[k]>> \o G[n - 1]
  BY GreedilyDef, Zenon
<1>3. \A i \in 1 .. N : MergedBefore(WorthOf, tiles, M[i], i)
  BY MergeFacts, WorthOfWeighs
<1>4. \A i \in 1 .. N : /\ M[i] \in MergeStates(N) /\ M[i].row \in [1 .. N -> Values]
                        /\ \A k \in i + 1 .. N : M[i].row[k] = tiles[k]
                        /\ M[i].row[i] \in {0, tiles[i]}
  BY <1>0, <1>3 DEF MergedBefore, MergeStates
<1> HIDE DEF M, G
<1>5. \A i \in 1 .. N : /\ U(i) \in [0 .. N -> Seq(TileValues)] /\ U(i)[0] = << >>
                        /\ \A n \in 1 .. N :
                              U(i)[n] = IF M[i].row[n] = 0 THEN U(i)[n - 1]
                                        ELSE Append(U(i)[n - 1], M[i].row[n])
  <2> SUFFICES ASSUME NEW i \in 1 .. N
               PROVE  /\ U(i) \in [0 .. N -> Seq(TileValues)] /\ U(i)[0] = << >>
                      /\ \A n \in 1 .. N :
                            U(i)[n] = IF M[i].row[n] = 0 THEN U(i)[n - 1]
                                      ELSE Append(U(i)[n - 1], M[i].row[n])
    OBVIOUS
  <2> DEFINE r == M[i].row
  <2>1. r \in [1 .. N -> Values]
    BY <1>4
  <2> HIDE DEF r
  <2>2. /\ TilesUpTo(r) \in [0 .. N -> Seq(TileValues)] /\ TilesUpTo(r)[0] = << >>
        /\ \A n \in 1 .. N : TilesUpTo(r)[n] = IF r[n] = 0 THEN TilesUpTo(r)[n - 1]
                                               ELSE Append(TilesUpTo(r)[n - 1], r[n])
    BY <2>1, TilesUpToDef, Zenon
  <2> QED BY <2>2 DEF r
<1>6. 0 \in S
  OBVIOUS
<1>7. ASSUME NEW i \in 0 .. N - 1, i \in S
      PROVE  i + 1 \in S
  <2> DEFINE j == i + 1
  <2>0. j \in 1 .. N /\ j \in 0 .. N
    OBVIOUS
  <2>1. CASE i = 0
    <3>1. 1 \in 0 .. N /\ 1 \in 1 .. N /\ N \in 0 .. N /\ (N - 1) + 1 = N /\ 1 - 1 = 0
      BY <2>1
    <3>2. M[1].row = tiles
      BY <1>1, <3>1
    <3>3. M[1].row[1] # 0
      BY <3>1, <3>2, TileFacts
    <3>4. U(1)[0] = << >> /\ G[N] \in Seq(TileValues)
      BY <1>2, <1>5, <3>1
    <3>5. << >> \o G[N] = G[N]
      BY <3>4, ConcatEmptySeq
    <3> HIDE DEF U
    <3>6. Claim(1)
      BY <3>1, <3>3, <3>4, <3>5
    <3> HIDE DEF Claim
    <3> QED BY <2>1, <3>1, <3>6
  <2>2. CASE i # 0
    <3> DEFINE a == M[i].row  b == M[j].row  u == U(i)[i - 1]
    <3>0. /\ i \in 1 .. N - 1 /\ i \in 1 .. N /\ i - 1 \in 0 .. N /\ i \in 0 .. N
          /\ N - i \in 1 .. N /\ N - i + 1 \in 1 .. N /\ N - i + 1 > 1
          /\ N - (N - i + 1) + 1 = i /\ (N - i + 1) - 2 = N - j /\ (N - i + 1) - 1 = N - i
          /\ N - j + 1 = N - i /\ j - 1 = i /\ N - j \in 0 .. N
      BY <2>2
    <3>a. Claim(i)
      <4> HIDE DEF Claim
      <4>1. i >= 1
        BY <3>0
      <4> QED BY <1>7, <4>1
    <3>1. G[N] = u \o (IF a[i] = 0 THEN G[N - i] ELSE G[N - i + 1])
      BY <3>a, Zenon DEF Claim
    <3> HIDE DEF S, Claim
    <3>2. G[N - i + 1] = IF tiles[i] = tiles[i + 1] THEN <<2 * tiles[i]>> \o G[N - j]
                         ELSE <<tiles[i]>> \o G[N - i]
      BY <1>2, <3>0
    <3>3. /\ M[j] = MergeAt(M[i], i) /\ M[i] \in MergeStates(N)
          /\ a \in [1 .. N -> Values] /\ b \in [1 .. N -> Values]
          /\ a[j] = tiles[j] /\ tiles[j] # 0 /\ tiles[j] \in TileValues
          /\ a[i] \in {0, tiles[i]} /\ tiles[i] \in TileValues /\ tiles[i] # 0
      BY <1>1, <1>4, <2>0, <3>0, TileFacts
    <3>4. /\ u \in Seq(TileValues) /\ G[N - i] \in Seq(TileValues) /\ G[N - j] \in Seq(TileValues)
      <4>1. U(i) \in [0 .. N -> Seq(TileValues)]
        BY <1>5, <3>0
      <4>2. u \in Seq(TileValues)
        <5> HIDE DEF U
        <5> QED BY <4>1, <3>0
      <4> QED BY <1>2, <3>0, <4>2
    <3>5. U(j)[i] = IF b[i] = 0 THEN U(j)[i - 1] ELSE Append(U(j)[i - 1], b[i])
      BY <1>5, <2>0, <3>0
    <3>6. (\A k \in 1 .. i - 1 : a[k] = b[k]) => U(j)[i - 1] = u
      <4> SUFFICES ASSUME \A k \in 1 .. i - 1 : a[k] = b[k]
                   PROVE  U(j)[i - 1] = u
        OBVIOUS
      <4>1. i - 1 \in Nat /\ i - 1 <= N /\ \A k \in 1 .. i - 1 : b[k] = a[k]
        BY <3>0
      <4> HIDE DEF a, b
      <4>2. TilesUpTo(b)[i - 1] = TilesUpTo(a)[i - 1]
        BY <3>3, <4>1, TilesUpToSame, Zenon
      <4> QED BY <4>2 DEF a, b
    <3> HIDE DEF U
    <3>7. ASSUME NEW e \in TileValues, NEW g \in Seq(TileValues)
          PROVE  u \o (<<e>> \o g) = Append(u, e) \o g
      <4> DEFINE w == <<e>>
      <4>1. w \in Seq(TileValues) /\ u \in Seq(TileValues)
        BY <3>4
      <4>2. Append(u, e) = u \o w
        BY <3>4, AppendIsConcat
      <4> HIDE DEF u, w
      <4>3. (u \o w) \o g = u \o (w \o g)
        BY <4>1, ConcatAssociative, SMTT(60)
      <4> QED BY <4>2, <4>3 DEF w
    <3>8. G[N] = U(j)[i] \o (IF b[j] = 0 THEN G[N - j] ELSE G[N - i])
      <4>1. CASE a[i] = a[j]
        <5>1. a[i] = tiles[i] /\ tiles[i] = tiles[j] /\ a[i] # 0
          BY <3>3, <4>1
        <5>2. /\ b[i] = 2 * a[i] /\ b[j] = 0
              /\ \A k \in 1 .. N : k # i /\ k # j => b[k] = a[k]
          <6> DEFINE x == M[i]  y == M[j]
          <6>1. /\ x \in MergeStates(N) /\ x.row[i] = x.row[i + 1] /\ x.row[i] # 0
                /\ y = MergeAt(x, i) /\ i \in 1 .. N - 1
            BY <3>0, <3>3, <4>1, <5>1
          <6> HIDE DEF x, y
          <6>2. /\ y.row[i] = 2 * x.row[i] /\ y.row[i + 1] = 0
                /\ \A k \in 1 .. N : k # i /\ k # i + 1 => y.row[k] = x.row[k]
            BY <6>1, MergeOnce, WorthOfWeighs
          <6> QED BY <6>2 DEF x, y
        <5>3. \A k \in 1 .. i - 1 : a[k] = b[k]
          <6> SUFFICES ASSUME NEW k \in 1 .. i - 1
                       PROVE  a[k] = b[k]
            OBVIOUS
          <6>1. k \in 1 .. N /\ k # i /\ k # j
            BY <3>0
          <6> QED BY <5>2, <6>1
        <5>4. 2 * tiles[i] \in TileValues /\ 2 * tiles[i] # 0
          BY <3>3, TileFacts
        <5>5. U(j)[i] = Append(u, 2 * tiles[i])
          BY <3>5, <3>6, <5>1, <5>2, <5>3, <5>4
        <5>6. G[N] = u \o (<<2 * tiles[i]>> \o G[N - j])
          BY <3>1, <3>2, <5>1
        <5>7. u \o (<<2 * tiles[i]>> \o G[N - j]) = Append(u, 2 * tiles[i]) \o G[N - j]
          BY <3>4, <3>7, <5>4
        <5> QED BY <5>2, <5>5, <5>6, <5>7
      <4>2. CASE a[i] # a[j]
        <5>1. M[j] = M[i]
          BY <3>3, <4>2, Zenon DEF MergeAt
        <5>2. b = a /\ b[j] # 0
          BY <3>3, <5>1
        <5>3. U(j)[i - 1] = u
          BY <3>6, <5>2
        <5>4. CASE a[i] = 0
          <6>1. G[N] = u \o G[N - i]
            BY <3>1, <5>4
          <6>2. U(j)[i] = u
            BY <3>5, <5>2, <5>3, <5>4
          <6> QED BY <5>2, <6>1, <6>2
        <5>5. CASE a[i] # 0
          <6>1. a[i] = tiles[i] /\ tiles[i] # tiles[j]
            BY <3>3, <4>2, <5>5
          <6>2. G[N] = u \o (<<tiles[i]>> \o G[N - i])
            BY <3>1, <3>2, <5>5, <6>1
          <6>3. U(j)[i] = Append(u, tiles[i])
            BY <3>5, <5>2, <5>3, <5>5, <6>1
          <6>4. u \o (<<tiles[i]>> \o G[N - i]) = Append(u, tiles[i]) \o G[N - i]
            BY <3>3, <3>4, <3>7
          <6> QED BY <5>2, <6>2, <6>3, <6>4
        <5> QED BY <5>4, <5>5
      <4> QED BY <4>1, <4>2
    <3>9. Claim(j)
      BY <3>0, <3>8 DEF Claim
    <3> QED BY <2>0, <3>9 DEF S
  <2> QED BY <2>1, <2>2
<1> HIDE DEF S
<1>8. \A i \in 0 .. N - 1 : i \in S => i + 1 \in S
  BY <1>7
<1>9. \A i \in 0 .. N : i \in S
  BY <1>6, <1>8, UpTo, Zenon
<1>10. c \in S /\ c >= 1
  BY <1>9
<1>11. Claim(c)
  <2> HIDE DEF Claim
  <2> QED BY <1>10 DEF S
<1> QED
  BY <1>11, Zenon DEF M, G

\* After the loop the tiles are those of the reference (game.py:58-66).
LEMMA MergedIsGreedy ==
    ASSUME NEW N \in Nat, NEW tiles \in [1 .. N -> TileValues]
    PROVE  Tiles(Merged(tiles).row) = Greedily(tiles)[N]
<1> DEFINE G == Greedily(tiles)
           r == Merged(tiles).row
           t == TilesUpTo(r)
<1>0. Len(tiles) = N /\ tiles \in [1 .. N -> Values]
  BY SeqOf, TileFacts
<1>1. /\ G \in [0 .. N -> Seq(TileValues)] /\ G[0] = << >>
      /\ \A n \in 1 .. N : LET k == N - n + 1
                           IN  G[n] = IF n > 1 /\ tiles[k] = tiles[k + 1]
                                      THEN <<2 * tiles[k]>> \o G[n - 2]
                                      ELSE <<tiles[k]>> \o G[n - 1]
  BY GreedilyDef, Zenon
<1>2. r \in [1 .. N -> Values] /\ (N = 0 => r = tiles)
  BY MergedIs, WorthOfWeighs DEF MergeStates
<1> HIDE DEF r
<1>3. /\ t \in [0 .. N -> Seq(TileValues)] /\ t[0] = << >>
      /\ \A n \in 1 .. N : t[n] = IF r[n] = 0 THEN t[n - 1] ELSE Append(t[n - 1], r[n])
  BY <1>2, TilesUpToDef, Zenon
<1>4. Tiles(r) = t[N]
  BY <1>2, TilesIs, WorthOfWeighs
<1> HIDE DEF G, t
<1>5. CASE N = 0
  BY <1>1, <1>3, <1>4, <1>5 DEF G, r
<1>6. CASE N # 0
  <2>0. N \in 1 .. N /\ N - 1 \in 0 .. N /\ N - N = 0 /\ 1 \in 1 .. N /\ N - 1 + 1 = N /\ 1 - 1 = 0
    BY <1>6
  <2>1. Merged(tiles) = Merging(tiles)[N]
    BY <1>0, Zenon DEF Merged
  <2>2. G[N] = t[N - 1] \o (IF r[N] = 0 THEN G[N - N] ELSE G[N - N + 1])
    <3> DEFINE m == Merging(tiles)[N]
    <3>1. G[N] = TilesUpTo(m.row)[N - 1] \o (IF m.row[N] = 0 THEN G[N - N] ELSE G[N - N + 1])
      BY <2>0, GreedySoFar, Zenon DEF G
    <3>2. m.row = r
      BY <2>1, Zenon DEF r
    <3> HIDE DEF m
    <3> QED BY <3>1, <3>2 DEF t
  <2>3. r[N] \in {0, tiles[N]} /\ tiles[N] \in TileValues
    <3>1. MergedBefore(WorthOf, tiles, Merging(tiles)[N], N)
      BY <2>0, MergeFacts, WorthOfWeighs
    <3> QED BY <2>0, <2>1, <3>1 DEF MergedBefore, r
  <2>4. t[N - 1] \in Seq(TileValues)
    BY <1>3, <2>0
  <2>5. CASE r[N] = 0
    <3>1. t[N] = t[N - 1]
      BY <1>3, <2>0, <2>5
    <3>2. G[N] = t[N - 1] \o << >>
      BY <1>1, <2>0, <2>2, <2>5
    <3>3. t[N - 1] \o << >> = t[N - 1]
      BY <2>4, ConcatEmptySeq
    <3> QED BY <1>4, <3>1, <3>2, <3>3 DEF G, r
  <2>6. CASE r[N] # 0
    <3>1. t[N] = Append(t[N - 1], tiles[N])
      BY <1>3, <2>0, <2>3, <2>6
    <3>2. G[1] = <<tiles[N]>> \o << >>
      <4>1. G[1] = <<tiles[N - 1 + 1]>> \o G[1 - 1]
        <5>1. ~(1 > 1)
          OBVIOUS
        <5> QED BY <1>1, <2>0, <5>1
      <4> QED BY <1>1, <2>0, <4>1
    <3>3. <<tiles[N]>> \in Seq(TileValues)
      BY <2>3
    <3>4. <<tiles[N]>> \o << >> = <<tiles[N]>>
      BY <3>3, ConcatEmptySeq
    <3>5. G[N] = t[N - 1] \o G[1]
      <4>1. N - N + 1 = 1
        OBVIOUS
      <4> QED BY <2>2, <2>6, <4>1
    <3>6. t[N - 1] \o <<tiles[N]>> = Append(t[N - 1], tiles[N])
      BY <2>3, <2>4, AppendIsConcat
    <3>7. t[N] = G[N]
      BY <3>1, <3>2, <3>4, <3>5, <3>6
    <3> QED BY <1>4, <3>7 DEF G, r
  <2> QED BY <2>5, <2>6
<1> QED
  BY <1>5, <1>6

\* A slide to the left does to a row what the reference does, and moves all
\* tiles to the wall.
LEMMA SlidIsGreedy ==
    ASSUME NEW N \in Nat, NEW row \in [1 .. N -> Values]
    PROVE  /\ Tiles(Slid(row)) = Greedily(Tiles(row))[Len(Tiles(row))]
           /\ Len(Slid(row)) = N
           /\ \A c \in 2 .. N : Slid(row)[c] # 0 => Slid(row)[c - 1] # 0
<1> DEFINE T == Tiles(row)
           K == Tiles(Merged(T).row)
           s == Slid(row)
<1>1. /\ K \in Seq(TileValues) /\ Len(K) \in 0 .. N /\ s \in [1 .. N -> Values]
      /\ \A c \in 1 .. Len(K) : s[c] = K[c] /\ s[c] # 0
      /\ \A c \in Len(K) + 1 .. N : s[c] = 0
  BY SlidFacts, WorthOfWeighs
<1>2. T \in [1 .. Len(T) -> TileValues] /\ Len(T) \in Nat
  BY TilesIs, WorthOfWeighs
<1> HIDE DEF T, s
<1>3. K = Greedily(T)[Len(T)]
  BY <1>2, MergedIsGreedy
<1> HIDE DEF K
<1>4. Len(Tiles(s)) = Len(K) /\ \A k \in 1 .. Len(K) : Tiles(s)[k] = s[k]
  BY <1>1, TilesThenZeros
<1>5. Tiles(s) \in Seq(TileValues)
  BY <1>1, TilesIs, WorthOfWeighs
<1>6. Tiles(s) = K
  <2>1. \A k \in 1 .. Len(Tiles(s)) : Tiles(s)[k] = K[k]
    BY <1>1, <1>4
  <2> QED BY <1>1, <1>4, <1>5, <2>1, SeqEqual, Zenon
<1>7. Len(s) = N
  BY <1>1, SeqOf
<1>8. ASSUME NEW c \in 2 .. N, s[c] # 0
      PROVE  s[c - 1] # 0
  <2>1. c <= Len(K)
    BY <1>1, <1>8
  <2> QED BY <1>1, <2>1
<1> QED
  BY <1>3, <1>6, <1>7, <1>8 DEF T, s

-----------------------------------------------------------------------------
(***************************************************************************)
(* Turning the board.                                                       *)
(***************************************************************************)
Boards(R, C) == [1 .. R -> [1 .. C -> Values]]

\* What each row is worth, and all of them.
RowWorths(w, b)  == [r \in DOMAIN b |-> WorthBy(w, b[r])]
BoardWorth(w, b) == Total(RowWorths(w, b))[Len(b)]

\* Transposing swaps rows and columns.
LEMMA TransposedIs ==
    ASSUME NEW R \in Nat \ {0}, NEW C \in Nat \ {0}, NEW b \in Boards(R, C)
    PROVE  /\ Transposed(b) \in Boards(C, R)
           /\ \A r \in 1 .. R, c \in 1 .. C : Transposed(b)[c][r] = b[r][c]
<1>1. b \in [1 .. R -> [1 .. C -> Values]] /\ DOMAIN b = 1 .. R /\ 1 \in 1 .. R
  BY DEF Boards
<1>2. DOMAIN b[1] = 1 .. C
  BY <1>1
<1>3. Transposed(b) = [c \in 1 .. C |-> [r \in 1 .. R |-> b[r][c]]]
  BY <1>1, <1>2, Zenon DEF Transposed
<1> HIDE DEF Values
<1>4. \A r \in 1 .. R, c \in 1 .. C : b[r][c] \in Values
  BY <1>1
<1> QED
  BY <1>3, <1>4 DEF Boards

\* Reversing the rows counts the columns from the other wall.
LEMMA ReversedIs ==
    ASSUME NEW R \in Nat \ {0}, NEW C \in Nat \ {0}, NEW b \in Boards(R, C)
    PROVE  /\ RowsReversed(b) \in Boards(R, C)
           /\ \A r \in 1 .. R, c \in 1 .. C : RowsReversed(b)[r][c] = b[r][C + 1 - c]
<1>1. b \in [1 .. R -> [1 .. C -> Values]] /\ DOMAIN b = 1 .. R
  BY DEF Boards
<1>2. \A r \in 1 .. R : DOMAIN b[r] = 1 .. C /\ Len(b[r]) = C
  <2> SUFFICES ASSUME NEW r \in 1 .. R
               PROVE  DOMAIN b[r] = 1 .. C /\ Len(b[r]) = C
    OBVIOUS
  <2>1. C \in Nat /\ b[r] \in [1 .. C -> Values]
    BY <1>1
  <2> QED BY <2>1, SeqOf
<1>3. RowsReversed(b) = [r \in 1 .. R |-> [c \in 1 .. C |-> b[r][C + 1 - c]]]
  <2>1. RowsReversed(b) = [r \in 1 .. R |-> [c \in DOMAIN b[r] |-> b[r][Len(b[r]) + 1 - c]]]
    BY <1>1, Zenon DEF RowsReversed
  <2> QED BY <1>2, <2>1
<1> HIDE DEF Values
<1>4. \A r \in 1 .. R, c \in 1 .. C : b[r][C + 1 - c] \in Values
  <2>1. \A c \in 1 .. C : C + 1 - c \in 1 .. C
    OBVIOUS
  <2> QED BY <1>1, <2>1
<1> QED
  BY <1>3, <1>4 DEF Boards

\* Boards with the same squares are the same.
LEMMA BoardsEqual ==
    ASSUME NEW R \in Nat, NEW C \in Nat, NEW a \in Boards(R, C), NEW b \in Boards(R, C),
           \A r \in 1 .. R, c \in 1 .. C : a[r][c] = b[r][c]
    PROVE  a = b
<1>1. \A r \in 1 .. R : a[r] = b[r]
  <2> SUFFICES ASSUME NEW r \in 1 .. R
               PROVE  a[r] = b[r]
    OBVIOUS
  <2>1. a[r] \in [1 .. C -> Values] /\ b[r] \in [1 .. C -> Values]
    BY DEF Boards
  <2>2. \A c \in 1 .. C : a[r][c] = b[r][c]
    OBVIOUS
  <2> QED BY <2>1, <2>2
<1> QED
  BY <1>1 DEF Boards

\* Transposing undoes itself.
LEMMA TransposedTwice ==
    ASSUME NEW R \in Nat \ {0}, NEW C \in Nat \ {0}, NEW b \in Boards(R, C)
    PROVE  Transposed(Transposed(b)) = b
<1>1. /\ Transposed(b) \in Boards(C, R)
      /\ \A r \in 1 .. R, c \in 1 .. C : Transposed(b)[c][r] = b[r][c]
  BY TransposedIs
<1> DEFINE t == Transposed(b)
<1> HIDE DEF t
<1>2. /\ Transposed(t) \in Boards(R, C)
      /\ \A r \in 1 .. R, c \in 1 .. C : Transposed(t)[r][c] = t[c][r]
  BY <1>1, TransposedIs DEF t
<1>3. \A r \in 1 .. R, c \in 1 .. C : Transposed(t)[r][c] = b[r][c]
  BY <1>1, <1>2 DEF t
<1> QED
  BY <1>2, <1>3, BoardsEqual DEF t

\* Reversing the rows undoes itself.
LEMMA ReversedTwice ==
    ASSUME NEW R \in Nat \ {0}, NEW C \in Nat \ {0}, NEW b \in Boards(R, C)
    PROVE  RowsReversed(RowsReversed(b)) = b
<1>1. /\ RowsReversed(b) \in Boards(R, C)
      /\ \A r \in 1 .. R, c \in 1 .. C : RowsReversed(b)[r][c] = b[r][C + 1 - c]
  BY ReversedIs
<1> DEFINE t == RowsReversed(b)
<1> HIDE DEF t
<1>2. /\ RowsReversed(t) \in Boards(R, C)
      /\ \A r \in 1 .. R, c \in 1 .. C : RowsReversed(t)[r][c] = t[r][C + 1 - c]
  BY <1>1, ReversedIs DEF t
<1>3. \A c \in 1 .. C : C + 1 - c \in 1 .. C /\ C + 1 - (C + 1 - c) = c
  OBVIOUS
<1>4. \A r \in 1 .. R, c \in 1 .. C : RowsReversed(t)[r][c] = b[r][c]
  <2> SUFFICES ASSUME NEW r \in 1 .. R, NEW c \in 1 .. C
               PROVE  RowsReversed(t)[r][c] = b[r][c]
    OBVIOUS
  <2> DEFINE e == C + 1 - c
  <2>1. e \in 1 .. C /\ C + 1 - e = c
    BY <1>3
  <2>2. RowsReversed(t)[r][c] = t[r][e]
    BY <1>2
  <2> HIDE DEF e
  <2>3. t[r][e] = b[r][C + 1 - e]
    BY <1>1, <2>1 DEF t
  <2> QED BY <2>1, <2>2, <2>3
<1> QED
  BY <1>2, <1>4, BoardsEqual DEF t

\* What a board is worth is the sum of what its rows are worth.
LEMMA BoardIs ==
    ASSUME NEW w \in Weights, NEW R \in Nat \ {0}, NEW C \in Nat \ {0}, NEW b \in Boards(R, C)
    PROVE  /\ Len(b) = R /\ DOMAIN b = 1 .. R
           /\ \A r \in 1 .. R : b[r] \in [1 .. C -> Values] /\ Len(b[r]) = C
           /\ RowWorths(w, b) \in [1 .. R -> Nat]
           /\ \A r \in 1 .. R : RowWorths(w, b)[r] = WorthBy(w, b[r])
           /\ BoardWorth(w, b) = Total(RowWorths(w, b))[R]
           /\ BoardWorth(w, b) \in Nat
<1>0. R \in Nat /\ C \in Nat
  OBVIOUS
<1>1. b \in [1 .. R -> [1 .. C -> Values]]
  BY DEF Boards
<1>2. Len(b) = R /\ DOMAIN b = 1 .. R
  BY <1>0, <1>1, SeqOf, Zenon
<1>3. ASSUME NEW r \in 1 .. R
      PROVE  b[r] \in [1 .. C -> Values] /\ Len(b[r]) = C /\ WorthBy(w, b[r]) \in Nat
  <2>1. b[r] \in [1 .. C -> Values]
    BY <1>1
  <2>2. Len(b[r]) = C
    BY <1>0, <2>1, SeqOf, Zenon
  <2>3. WorthBy(w, b[r]) \in Nat
    BY <1>0, <2>1, WorthIs, Zenon
  <2> QED BY <2>1, <2>2, <2>3
<1> DEFINE ws == RowWorths(w, b)
<1>4. ws \in [1 .. R -> Nat] /\ \A r \in 1 .. R : ws[r] = WorthBy(w, b[r])
  <2>1. ws = [r \in 1 .. R |-> WorthBy(w, b[r])]
    BY <1>2 DEF RowWorths
  <2> HIDE DEF ws
  <2> QED BY <1>3, <2>1
<1>5. BoardWorth(w, b) = Total(ws)[R]
  BY <1>2, Zenon DEF BoardWorth
<1> HIDE DEF ws
<1>6. Total(ws) \in [0 .. R -> Nat] /\ R \in 0 .. R
  BY <1>0, <1>4, TotalDef
<1> QED
  BY <1>2, <1>3, <1>4, <1>5, <1>6 DEF ws

\* Boards whose rows are worth the same are worth the same.
LEMMA SameRowsSameWorth ==
    ASSUME NEW w \in Weights, NEW R \in Nat \ {0}, NEW C \in Nat \ {0},
           NEW a \in Boards(R, C), NEW b \in Boards(R, C),
           \A r \in 1 .. R : WorthBy(w, a[r]) = WorthBy(w, b[r])
    PROVE  BoardWorth(w, a) = BoardWorth(w, b)
<1>1. ASSUME NEW x \in Boards(R, C)
      PROVE  /\ Len(x) = R /\ DOMAIN x = 1 .. R
             /\ \A r \in 1 .. R : x[r] \in [1 .. C -> Values] /\ Len(x[r]) = C
             /\ RowWorths(w, x) \in [1 .. R -> Nat]
             /\ \A r \in 1 .. R : RowWorths(w, x)[r] = WorthBy(w, x[r])
             /\ BoardWorth(w, x) = Total(RowWorths(w, x))[R]
             /\ BoardWorth(w, x) \in Nat
  BY BoardIs, Zenon
<1>2. /\ RowWorths(w, a) \in [1 .. R -> Nat] /\ BoardWorth(w, a) = Total(RowWorths(w, a))[R]
      /\ \A r \in 1 .. R : RowWorths(w, a)[r] = WorthBy(w, a[r])
      /\ RowWorths(w, b) \in [1 .. R -> Nat] /\ BoardWorth(w, b) = Total(RowWorths(w, b))[R]
      /\ \A r \in 1 .. R : RowWorths(w, b)[r] = WorthBy(w, b[r])
  BY <1>1
<1>3. RowWorths(w, a) = RowWorths(w, b)
  BY <1>1, <1>2
<1> QED
  BY <1>1, <1>2, <1>3

\* Reversing the rows of a board leaves what it is worth.
LEMMA WorthReversed ==
    ASSUME NEW w \in Weights, NEW R \in Nat \ {0}, NEW C \in Nat \ {0}, NEW b \in Boards(R, C)
    PROVE  BoardWorth(w, RowsReversed(b)) = BoardWorth(w, b)
<1> DEFINE a == RowsReversed(b)
<1>1. /\ a \in Boards(R, C)
      /\ \A r \in 1 .. R, c \in 1 .. C : a[r][c] = b[r][C + 1 - c]
  BY ReversedIs
<1> HIDE DEF a
<1>2. ASSUME NEW r \in 1 .. R
      PROVE  WorthBy(w, a[r]) = WorthBy(w, b[r])
  <2> DEFINE x == a[r]  y == b[r]
  <2>1. x \in [1 .. C -> Values] /\ y \in [1 .. C -> Values]
    BY <1>1 DEF Boards
  <2>2. \A c \in 1 .. C : x[c] = y[C + 1 - c]
    BY <1>1
  <2> HIDE DEF x, y
  <2>0. C \in Nat
    OBVIOUS
  <2>3. /\ Worths(w, x) \in [1 .. C -> Nat] /\ \A c \in 1 .. C : Worths(w, x)[c] = w[x[c]]
        /\ WorthBy(w, x) = Total(Worths(w, x))[C]
    BY <2>0, <2>1, WorthIs, Zenon
  <2>4. /\ Worths(w, y) \in [1 .. C -> Nat] /\ \A c \in 1 .. C : Worths(w, y)[c] = w[y[c]]
        /\ WorthBy(w, y) = Total(Worths(w, y))[C]
    BY <2>0, <2>1, WorthIs, Zenon
  <2>5. \A c \in 1 .. C : Worths(w, x)[c] = Worths(w, y)[C + 1 - c]
    <3> SUFFICES ASSUME NEW c \in 1 .. C
                 PROVE  Worths(w, x)[c] = Worths(w, y)[C + 1 - c]
      OBVIOUS
    <3> DEFINE e == C + 1 - c
    <3>1. e \in 1 .. C
      OBVIOUS
    <3>2. x[c] = y[e]
      BY <2>2
    <3> HIDE DEF e
    <3>3. Worths(w, x)[c] = Worths(w, y)[e]
      BY <2>3, <2>4, <3>1, <3>2
    <3> QED BY <3>3 DEF e
  <2>6. Total(Worths(w, x))[C] = Total(Worths(w, y))[C]
    BY <2>0, <2>3, <2>4, <2>5, TotalReversed, Zenon
  <2> QED BY <2>3, <2>4, <2>6 DEF x, y
<1> QED
  BY <1>1, <1>2, SameRowsSameWorth DEF a

\* Transposing a board leaves what it is worth.
LEMMA WorthTransposed ==
    ASSUME NEW w \in Weights, NEW R \in Nat \ {0}, NEW C \in Nat \ {0}, NEW b \in Boards(R, C)
    PROVE  BoardWorth(w, Transposed(b)) = BoardWorth(w, b)
<1>0. R \in Nat /\ C \in Nat
  OBVIOUS
<1> DEFINE a == Transposed(b)
<1>1. /\ a \in Boards(C, R)
      /\ \A r \in 1 .. R, c \in 1 .. C : a[c][r] = b[r][c]
  BY TransposedIs
<1> HIDE DEF a
<1> DEFINE F    == [r \in 1 .. R |-> Worths(w, b[r])]
           rows == RowWorths(w, b)
           cols == RowWorths(w, a)
<1>2. /\ rows \in [1 .. R -> Nat] /\ BoardWorth(w, b) = Total(rows)[R]
      /\ \A r \in 1 .. R : rows[r] = WorthBy(w, b[r])
  BY BoardIs
<1>3. /\ cols \in [1 .. C -> Nat] /\ BoardWorth(w, a) = Total(cols)[C]
      /\ \A c \in 1 .. C : cols[c] = WorthBy(w, a[c])
  <2>1. a \in Boards(C, R)
    BY <1>1
  <2> QED BY <2>1, BoardIs
<1>4. ASSUME NEW r \in 1 .. R
      PROVE  /\ Worths(w, b[r]) \in [1 .. C -> Nat] /\ WorthBy(w, b[r]) = Total(Worths(w, b[r]))[C]
             /\ \A c \in 1 .. C : Worths(w, b[r])[c] = w[b[r][c]]
  <2>1. b[r] \in [1 .. C -> Values]
    BY DEF Boards
  <2> QED BY <1>0, <2>1, WorthIs, Zenon
<1>5. ASSUME NEW c \in 1 .. C
      PROVE  /\ Worths(w, a[c]) \in [1 .. R -> Nat] /\ WorthBy(w, a[c]) = Total(Worths(w, a[c]))[R]
             /\ \A r \in 1 .. R : Worths(w, a[c])[r] = w[a[c][r]]
  <2>1. a[c] \in [1 .. R -> Values]
    BY <1>1 DEF Boards
  <2> QED BY <1>0, <2>1, WorthIs, Zenon
<1>6. F \in [1 .. R -> [1 .. C -> Nat]]
  BY <1>4
<1>7. \A r \in 1 .. R : rows[r] = Total(F[r])[C]
  BY <1>2, <1>4
<1>8. ASSUME NEW c \in 1 .. C
      PROVE  cols[c] = Total([r \in 1 .. R |-> F[r][c]])[R]
  <2> DEFINE x == Worths(w, a[c])
  <2>1. x \in [1 .. R -> Nat] /\ WorthBy(w, a[c]) = Total(x)[R]
    BY <1>5
  <2>2. \A r \in 1 .. R : x[r] = F[r][c]
    <3> SUFFICES ASSUME NEW r \in 1 .. R
                 PROVE  x[r] = F[r][c]
      OBVIOUS
    <3>1. x[r] = w[a[c][r]]
      BY <1>5
    <3>2. Worths(w, b[r])[c] = w[b[r][c]]
      BY <1>4
    <3>3. F[r] = Worths(w, b[r])
      OBVIOUS
    <3> HIDE DEF x, F
    <3> QED BY <1>1, <3>1, <3>2, <3>3
  <2> HIDE DEF x, F
  <2>3. x = [r \in 1 .. R |-> F[r][c]]
    BY <2>1, <2>2
  <2> QED BY <1>3, <2>1, <2>3
<1> HIDE DEF F, rows, cols
<1>9. Total(rows)[R] = Total(cols)[C]
  <2>1. \A c \in 1 .. C : cols[c] = Total([r \in 1 .. R |-> F[r][c]])[R]
    BY <1>8
  <2>2. RowSums(F, R, C, rows) /\ ColumnSums(F, R, C, cols)
    BY <1>2, <1>3, <1>7, <2>1 DEF RowSums, ColumnSums
  <2>3. R \in Nat /\ C \in Nat /\ F \in [1 .. R -> [1 .. C -> Nat]]
    BY <1>0, <1>6
  <2>4. SumsBothWays(F, R, C, rows, cols)
    BY <2>2, <2>3 DEF SumsBothWays
  <2> QED BY <2>4, TotalSwap
<1> QED
  BY <1>2, <1>3, <1>9 DEF a

-----------------------------------------------------------------------------
(***************************************************************************)
(* Moving in a direction (game.py:74-98).                                   *)
(***************************************************************************)

\* The rows and the columns of a board turned for a direction.
TurnedRows(d) == IF d \in {"a", "d"} THEN ROWS ELSE COLS
TurnedCols(d) == IF d \in {"a", "d"} THEN COLS ELSE ROWS

\* Turning a board loses nothing, and turning it back undoes it
\* (game.py:74-98).
LEMMA TurnedIs ==
    ASSUME NEW w \in Weights, NEW d \in Directions, NEW b \in Boards(ROWS, COLS)
    PROVE  /\ Turned(b, d) \in Boards(TurnedRows(d), TurnedCols(d))
           /\ TurnedBack(Turned(b, d), d) = b
           /\ BoardWorth(w, Turned(b, d)) = BoardWorth(w, b)
<1>0. ROWS \in Nat \ {0} /\ COLS \in Nat \ {0}
  BY Game2048Assumption
<1>1. CASE d = "a"
  <2>1. Turned(b, d) = b /\ TurnedBack(b, d) = b
    BY <1>1 DEF Turned, TurnedBack
  <2> QED BY <1>1, <2>1 DEF TurnedRows, TurnedCols
<1>2. CASE d = "d"
  <2>1. Turned(b, d) = RowsReversed(b) /\ TurnedBack(RowsReversed(b), d) = RowsReversed(RowsReversed(b))
    BY <1>2 DEF Turned, TurnedBack
  <2>2. RowsReversed(b) \in Boards(ROWS, COLS)
    BY <1>0, ReversedIs
  <2>3. RowsReversed(RowsReversed(b)) = b
    BY <1>0, ReversedTwice
  <2>4. BoardWorth(w, RowsReversed(b)) = BoardWorth(w, b)
    BY <1>0, WorthReversed
  <2> QED BY <1>2, <2>1, <2>2, <2>3, <2>4 DEF TurnedRows, TurnedCols
<1>3. Transposed(b) \in Boards(COLS, ROWS)
  BY <1>0, TransposedIs
<1>4. Transposed(Transposed(b)) = b
  BY <1>0, TransposedTwice
<1>5. BoardWorth(w, Transposed(b)) = BoardWorth(w, b)
  BY <1>0, WorthTransposed
<1>6. CASE d = "w"
  <2>1. Turned(b, d) = Transposed(b) /\ TurnedBack(Transposed(b), d) = Transposed(Transposed(b))
    BY <1>6 DEF Turned, TurnedBack
  <2> QED BY <1>3, <1>4, <1>5, <1>6, <2>1 DEF TurnedRows, TurnedCols
<1>7. CASE d = "s"
  <2> DEFINE t == Transposed(b)
  <2>1. /\ Turned(b, d) = RowsReversed(t)
        /\ TurnedBack(RowsReversed(t), d) = Transposed(RowsReversed(RowsReversed(t)))
    BY <1>7 DEF Turned, TurnedBack
  <2> HIDE DEF t
  <2>2. RowsReversed(t) \in Boards(COLS, ROWS)
    BY <1>0, <1>3, ReversedIs DEF t
  <2>3. RowsReversed(RowsReversed(t)) = t
    BY <1>0, <1>3, ReversedTwice DEF t
  <2>4. BoardWorth(w, RowsReversed(t)) = BoardWorth(w, t)
    BY <1>0, <1>3, WorthReversed DEF t
  <2> QED BY <1>4, <1>5, <1>7, <2>1, <2>2, <2>3, <2>4 DEF TurnedRows, TurnedCols, t
<1> QED
  BY <1>1, <1>2, <1>6, <1>7 DEF Directions

\* Turning back, too, and is undone by turning.
LEMMA TurnedBackIs ==
    ASSUME NEW w \in Weights, NEW d \in Directions,
           NEW t \in Boards(TurnedRows(d), TurnedCols(d))
    PROVE  /\ TurnedBack(t, d) \in Boards(ROWS, COLS)
           /\ Turned(TurnedBack(t, d), d) = t
           /\ BoardWorth(w, TurnedBack(t, d)) = BoardWorth(w, t)
<1>0. ROWS \in Nat \ {0} /\ COLS \in Nat \ {0}
  BY Game2048Assumption
<1>1. CASE d = "a"
  <2>1. TurnedBack(t, d) = t /\ Turned(t, d) = t
    BY <1>1 DEF Turned, TurnedBack
  <2> QED BY <1>1, <2>1 DEF TurnedRows, TurnedCols
<1>2. CASE d = "d"
  <2>0. t \in Boards(ROWS, COLS)
    BY <1>2 DEF TurnedRows, TurnedCols
  <2>1. TurnedBack(t, d) = RowsReversed(t) /\ Turned(RowsReversed(t), d) = RowsReversed(RowsReversed(t))
    BY <1>2 DEF Turned, TurnedBack
  <2>2. RowsReversed(t) \in Boards(ROWS, COLS)
    BY <1>0, <2>0, ReversedIs
  <2>3. RowsReversed(RowsReversed(t)) = t
    BY <1>0, <2>0, ReversedTwice
  <2>4. BoardWorth(w, RowsReversed(t)) = BoardWorth(w, t)
    BY <1>0, <2>0, WorthReversed
  <2> QED BY <2>1, <2>2, <2>3, <2>4
<1>3. CASE d = "w"
  <2>0. t \in Boards(COLS, ROWS)
    BY <1>3 DEF TurnedRows, TurnedCols
  <2>1. TurnedBack(t, d) = Transposed(t) /\ Turned(Transposed(t), d) = Transposed(Transposed(t))
    BY <1>3 DEF Turned, TurnedBack
  <2>2. Transposed(t) \in Boards(ROWS, COLS)
    BY <1>0, <2>0, TransposedIs
  <2>3. Transposed(Transposed(t)) = t
    BY <1>0, <2>0, TransposedTwice
  <2>4. BoardWorth(w, Transposed(t)) = BoardWorth(w, t)
    BY <1>0, <2>0, WorthTransposed
  <2> QED BY <2>1, <2>2, <2>3, <2>4
<1>4. CASE d = "s"
  <2> DEFINE u == RowsReversed(t)
  <2>0. t \in Boards(COLS, ROWS)
    BY <1>4 DEF TurnedRows, TurnedCols
  <2>1. /\ TurnedBack(t, d) = Transposed(u)
        /\ Turned(Transposed(u), d) = RowsReversed(Transposed(Transposed(u)))
    BY <1>4 DEF Turned, TurnedBack
  <2>2. u \in Boards(COLS, ROWS)
    BY <1>0, <2>0, ReversedIs
  <2>3. RowsReversed(u) = t
    BY <1>0, <2>0, ReversedTwice
  <2>4. BoardWorth(w, u) = BoardWorth(w, t)
    BY <1>0, <2>0, WorthReversed
  <2> HIDE DEF u
  <2>5. Transposed(u) \in Boards(ROWS, COLS)
    BY <1>0, <2>2, TransposedIs
  <2>6. Transposed(Transposed(u)) = u
    BY <1>0, <2>2, TransposedTwice
  <2>7. BoardWorth(w, Transposed(u)) = BoardWorth(w, u)
    BY <1>0, <2>2, WorthTransposed
  <2> QED BY <2>1, <2>3, <2>4, <2>5, <2>6, <2>7
<1> QED
  BY <1>1, <1>2, <1>3, <1>4 DEF Directions

(***************************************************************************)
(* A move, seen from the wall it slides to.                                 *)
(***************************************************************************)
LEMMA MovedIs ==
    ASSUME NEW w \in Weights, Doubles(w), NEW d \in Directions, NEW b \in Boards(ROWS, COLS)
    PROVE  LET before == Turned(b, d)
           IN  /\ Moved(b, d) \in Boards(ROWS, COLS)
               /\ DOMAIN before = 1 .. TurnedRows(d)
               /\ Turned(Moved(b, d), d) = [r \in 1 .. TurnedRows(d) |-> Slid(before[r])]
               /\ Moved(b, d) = b <=> \A r \in 1 .. TurnedRows(d) : Slid(before[r]) = before[r]
               /\ GainedBy(b, d) \in Nat
               /\ BoardWorth(w, Moved(b, d)) = BoardWorth(w, b) + GainedBy(b, d)
<1> DEFINE R == TurnedRows(d)
           C == TurnedCols(d)
           t == Turned(b, d)
           u == [r \in 1 .. R |-> Slid(t[r])]
           gains == [r \in 1 .. R |-> Gained(t[r])]
<1>0. R \in Nat \ {0} /\ C \in Nat \ {0} /\ R \in Nat /\ C \in Nat
  BY Game2048Assumption DEF TurnedRows, TurnedCols
<1>1. t \in Boards(R, C) /\ TurnedBack(t, d) = b /\ BoardWorth(w, t) = BoardWorth(w, b)
  BY TurnedIs
<1> HIDE DEF R, C, t
<1>2. Len(t) = R /\ DOMAIN t = 1 .. R /\ \A r \in 1 .. R : t[r] \in [1 .. C -> Values]
  BY <1>0, <1>1, BoardIs
<1>3. ASSUME NEW r \in 1 .. R
      PROVE  /\ Slid(t[r]) \in [1 .. C -> Values] /\ Gained(t[r]) \in Nat
             /\ WorthBy(w, Slid(t[r])) = WorthBy(w, t[r]) + Gained(t[r])
  <2> DEFINE x == t[r]
  <2>1. x \in [1 .. C -> Values]
    BY <1>2
  <2> HIDE DEF x
  <2> QED BY <1>0, <2>1, SlidFacts DEF x
<1>4. u \in Boards(R, C)
  BY <1>3 DEF Boards
<1>5. Moved(b, d) = TurnedBack(u, d)
  BY <1>2, Zenon DEF Moved, t
<1>6. GainedBy(b, d) = Total(gains)[R]
  BY <1>2, Zenon DEF GainedBy, t
<1>7. /\ \A r \in 1 .. R : u[r] = Slid(t[r])
      /\ gains \in [1 .. R -> Nat] /\ \A r \in 1 .. R : gains[r] = Gained(t[r])
  BY <1>3
<1> HIDE DEF u, gains
<1>8. /\ TurnedBack(u, d) \in Boards(ROWS, COLS)
      /\ Turned(TurnedBack(u, d), d) = u
      /\ BoardWorth(w, TurnedBack(u, d)) = BoardWorth(w, u)
  BY <1>4, TurnedBackIs DEF R, C
<1>9. GainedBy(b, d) \in Nat
  BY <1>0, <1>6, <1>7, TotalDef
<1>10. BoardWorth(w, u) = BoardWorth(w, t) + GainedBy(b, d)
  <2> DEFINE x == RowWorths(w, t)
             y == RowWorths(w, u)
  <2>1. /\ x \in [1 .. R -> Nat] /\ BoardWorth(w, t) = Total(x)[R]
        /\ \A r \in 1 .. R : x[r] = WorthBy(w, t[r])
    <3>1. t \in Boards(R, C)
      BY <1>1
    <3> QED BY <1>0, <3>1, BoardIs
  <2>2. /\ y \in [1 .. R -> Nat] /\ BoardWorth(w, u) = Total(y)[R]
        /\ \A r \in 1 .. R : y[r] = WorthBy(w, u[r])
    BY <1>0, <1>4, BoardIs
  <2>3. \A r \in 1 .. R : y[r] = x[r] + gains[r]
    <3> SUFFICES ASSUME NEW r \in 1 .. R
                 PROVE  y[r] = x[r] + gains[r]
      OBVIOUS
    <3> HIDE DEF x, y
    <3> QED BY <1>3, <1>7, <2>1, <2>2
  <2> HIDE DEF x, y
  <2>4. Total(y)[R] = Total(x)[R] + Total(gains)[R]
    BY <1>0, <1>7, <2>1, <2>2, <2>3, TotalSum, Zenon
  <2> QED BY <1>6, <2>1, <2>2, <2>4
<1>11. Moved(b, d) = b <=> \A r \in 1 .. R : Slid(t[r]) = t[r]
  <2>1. Moved(b, d) = b <=> u = t
    BY <1>1, <1>5, <1>8 DEF t
  <2>2. u = t <=> \A r \in 1 .. R : Slid(t[r]) = t[r]
    <3>1. u = t => \A r \in 1 .. R : Slid(t[r]) = t[r]
      BY <1>7
    <3>2. (\A r \in 1 .. R : Slid(t[r]) = t[r]) => u = t
      <4> SUFFICES ASSUME \A r \in 1 .. R : Slid(t[r]) = t[r]
                   PROVE  u = t
        OBVIOUS
      <4>1. u = [r \in 1 .. R |-> u[r]] /\ t = [r \in 1 .. R |-> t[r]]
        BY <1>1, <1>4 DEF Boards
      <4>2. \A r \in 1 .. R : u[r] = t[r]
        BY <1>7
      <4> QED BY <4>1, <4>2
    <3> QED BY <3>1, <3>2
  <2> QED BY <2>1, <2>2
<1> QED
  BY <1>1, <1>2, <1>5, <1>8, <1>9, <1>10, <1>11 DEF R, t, u

-----------------------------------------------------------------------------
(***************************************************************************)
(* Whether any direction changes the board (game.py:124-141).               *)
(***************************************************************************)

\* Of two neighbours, one would move or both would merge, in one of the two directions.
Movable(x, y) == (x # 0 \/ y # 0) /\ (x = 0 \/ y = 0 \/ x = y)

\* Movable neighbours in a row, and in a column.
Across(b) == \E r \in 1 .. ROWS, c \in 1 .. COLS - 1 : Movable(b[r][c], b[r][c + 1])
Along(b)  == \E r \in 1 .. ROWS - 1, c \in 1 .. COLS : Movable(b[r][c], b[r + 1][c])

\* A move changes the board exactly if, seen from the wall, a tile is behind
\* an empty square or two neighbours are equal.
LEMMA MoveChanges ==
    ASSUME NEW d \in Directions, NEW b \in Boards(ROWS, COLS)
    PROVE  Moved(b, d) # b <=>
               \E r \in 1 .. TurnedRows(d), c \in 1 .. TurnedCols(d) - 1 :
                   Gap(Turned(b, d)[r], c) \/ Pair(Turned(b, d)[r], c)
<1> DEFINE R == TurnedRows(d)
           C == TurnedCols(d)
           t == Turned(b, d)
<1>0. R \in Nat \ {0} /\ C \in Nat \ {0} /\ R \in Nat /\ C \in Nat
  BY Game2048Assumption DEF TurnedRows, TurnedCols
<1>1. t \in Boards(R, C)
  BY TurnedIs, WorthOfWeighs
<1>2. Moved(b, d) = b <=> \A r \in 1 .. R : Slid(t[r]) = t[r]
  BY MovedIs, WorthOfWeighs
<1> HIDE DEF R, C, t
<1>3. ASSUME NEW r \in 1 .. R
      PROVE  Slid(t[r]) = t[r] <=> \A c \in 1 .. C - 1 : ~Gap(t[r], c) /\ ~Pair(t[r], c)
  <2> DEFINE x == t[r]
  <2>1. x \in [1 .. C -> Values]
    BY <1>1 DEF Boards
  <2> HIDE DEF x
  <2> QED BY <1>0, <2>1, SlidFixed DEF x
<1> QED
  BY <1>2, <1>3 DEF R, C, t

\* Left or right changes the board exactly if two neighbours in a row are
\* movable.
LEMMA AcrossChanges ==
    ASSUME NEW b \in Boards(ROWS, COLS)
    PROVE  Across(b) <=> Moved(b, "a") # b \/ Moved(b, "d") # b
<1>0. /\ ROWS \in Nat \ {0} /\ COLS \in Nat \ {0} /\ "a" \in Directions /\ "d" \in Directions
      /\ TurnedRows("a") = ROWS /\ TurnedCols("a") = COLS
      /\ TurnedRows("d") = ROWS /\ TurnedCols("d") = COLS
      /\ Turned(b, "a") = b /\ Turned(b, "d") = RowsReversed(b)
  BY Game2048Assumption DEF Directions, TurnedRows, TurnedCols, Turned
<1> DEFINE t == RowsReversed(b)
<1>1. \A r \in 1 .. ROWS, c \in 1 .. COLS : t[r][c] = b[r][COLS + 1 - c]
  BY <1>0, ReversedIs
<1> HIDE DEF t
<1>2. Moved(b, "a") # b <=>
         \E r \in 1 .. ROWS, c \in 1 .. COLS - 1 : Gap(b[r], c) \/ Pair(b[r], c)
  BY <1>0, MoveChanges, Zenon
<1>3. Moved(b, "d") # b <=>
         \E r \in 1 .. ROWS, c \in 1 .. COLS - 1 : Gap(t[r], c) \/ Pair(t[r], c)
  BY <1>0, MoveChanges, Zenon DEF t
<1>4. ASSUME NEW c \in 1 .. COLS - 1
      PROVE  /\ c \in 1 .. COLS /\ c + 1 \in 1 .. COLS /\ COLS - c \in 1 .. COLS - 1
             /\ COLS + 1 - c = (COLS - c) + 1 /\ COLS + 1 - (c + 1) = COLS - c
             /\ COLS - (COLS - c) = c
  BY <1>0
<1>5. ASSUME NEW r \in 1 .. ROWS, NEW c \in 1 .. COLS - 1
      PROVE  t[r][c] = b[r][(COLS - c) + 1] /\ t[r][c + 1] = b[r][COLS - c]
  BY <1>1, <1>4
<1>6. ASSUME NEW r \in 1 .. ROWS, NEW c \in 1 .. COLS - 1, Movable(b[r][c], b[r][c + 1])
      PROVE  Moved(b, "a") # b \/ Moved(b, "d") # b
  <2>1. CASE b[r][c + 1] # 0
    BY <1>2, <1>6, <2>1 DEF Movable, Gap, Pair
  <2>2. CASE b[r][c + 1] = 0
    <3> DEFINE e == COLS - c
    <3>1. e \in 1 .. COLS - 1 /\ COLS - e = c
      BY <1>4
    <3> HIDE DEF e
    <3>2. t[r][e] = b[r][c + 1] /\ t[r][e + 1] = b[r][c]
      BY <1>5, <3>1
    <3>3. Gap(t[r], e)
      BY <1>6, <2>2, <3>2 DEF Movable, Gap
    <3> QED BY <1>3, <3>1, <3>3
  <2> QED BY <2>1, <2>2
<1>7. ASSUME Moved(b, "a") # b
      PROVE  Across(b)
  BY <1>2, <1>7 DEF Across, Movable, Gap, Pair
<1>8. ASSUME Moved(b, "d") # b
      PROVE  Across(b)
  <2>1. PICK r \in 1 .. ROWS, c \in 1 .. COLS - 1 : Gap(t[r], c) \/ Pair(t[r], c)
    BY <1>3, <1>8
  <2> DEFINE e == COLS - c
  <2>2. e \in 1 .. COLS - 1
    BY <1>4
  <2>3. t[r][c] = b[r][e + 1] /\ t[r][c + 1] = b[r][e]
    BY <1>5
  <2> HIDE DEF e
  <2>4. Movable(b[r][e], b[r][e + 1])
    BY <2>1, <2>3 DEF Movable, Gap, Pair
  <2> QED BY <2>2, <2>4 DEF Across
<1> QED
  BY <1>6, <1>7, <1>8 DEF Across

\* Up or down changes the board exactly if two neighbours in a column are
\* movable.
LEMMA AlongChanges ==
    ASSUME NEW b \in Boards(ROWS, COLS)
    PROVE  Along(b) <=> Moved(b, "w") # b \/ Moved(b, "s") # b
<1> DEFINE u == Transposed(b)
           t == RowsReversed(u)
<1>0. /\ ROWS \in Nat \ {0} /\ COLS \in Nat \ {0} /\ "w" \in Directions /\ "s" \in Directions
      /\ TurnedRows("w") = COLS /\ TurnedCols("w") = ROWS
      /\ TurnedRows("s") = COLS /\ TurnedCols("s") = ROWS
      /\ Turned(b, "w") = u /\ Turned(b, "s") = t
  BY Game2048Assumption DEF Directions, TurnedRows, TurnedCols, Turned
<1>a. /\ u \in Boards(COLS, ROWS)
      /\ \A r \in 1 .. ROWS, c \in 1 .. COLS : u[c][r] = b[r][c]
  BY <1>0, TransposedIs
<1> HIDE DEF u
<1>b. \A c \in 1 .. COLS, r \in 1 .. ROWS : t[c][r] = u[c][ROWS + 1 - r]
  BY <1>0, <1>a, ReversedIs
<1> HIDE DEF t
<1>2. Moved(b, "w") # b <=>
         \E c \in 1 .. COLS, r \in 1 .. ROWS - 1 : Gap(u[c], r) \/ Pair(u[c], r)
  BY <1>0, MoveChanges, Zenon
<1>3. Moved(b, "s") # b <=>
         \E c \in 1 .. COLS, r \in 1 .. ROWS - 1 : Gap(t[c], r) \/ Pair(t[c], r)
  BY <1>0, MoveChanges, Zenon
<1>4. ASSUME NEW r \in 1 .. ROWS - 1
      PROVE  /\ r \in 1 .. ROWS /\ r + 1 \in 1 .. ROWS /\ ROWS - r \in 1 .. ROWS - 1
             /\ ROWS - r \in 1 .. ROWS /\ (ROWS - r) + 1 \in 1 .. ROWS
             /\ ROWS + 1 - r = (ROWS - r) + 1 /\ ROWS + 1 - (r + 1) = ROWS - r
             /\ ROWS - (ROWS - r) = r
  BY <1>0
<1>5. ASSUME NEW c \in 1 .. COLS, NEW r \in 1 .. ROWS - 1
      PROVE  /\ t[c][r] = b[(ROWS - r) + 1][c] /\ t[c][r + 1] = b[ROWS - r][c]
             /\ u[c][r] = b[r][c] /\ u[c][r + 1] = b[r + 1][c]
  <2>1. t[c][r] = u[c][(ROWS - r) + 1] /\ t[c][r + 1] = u[c][ROWS - r]
    BY <1>b, <1>4
  <2> QED BY <1>a, <1>4, <2>1
<1>6. ASSUME NEW r \in 1 .. ROWS - 1, NEW c \in 1 .. COLS, Movable(b[r][c], b[r + 1][c])
      PROVE  Moved(b, "w") # b \/ Moved(b, "s") # b
  <2>1. CASE b[r + 1][c] # 0
    <3>1. Gap(u[c], r) \/ Pair(u[c], r)
      BY <1>5, <1>6, <2>1 DEF Movable, Gap, Pair
    <3> QED BY <1>2, <3>1
  <2>2. CASE b[r + 1][c] = 0
    <3> DEFINE e == ROWS - r
    <3>1. e \in 1 .. ROWS - 1 /\ ROWS - e = r
      BY <1>4
    <3> HIDE DEF e
    <3>2. t[c][e] = b[r + 1][c] /\ t[c][e + 1] = b[r][c]
      BY <1>5, <3>1
    <3>3. Gap(t[c], e)
      BY <1>6, <2>2, <3>2 DEF Movable, Gap
    <3> QED BY <1>3, <3>1, <3>3
  <2> QED BY <2>1, <2>2
<1>7. ASSUME Moved(b, "w") # b
      PROVE  Along(b)
  <2>1. PICK c \in 1 .. COLS, r \in 1 .. ROWS - 1 : Gap(u[c], r) \/ Pair(u[c], r)
    BY <1>2, <1>7
  <2>2. Movable(b[r][c], b[r + 1][c])
    BY <1>5, <2>1 DEF Movable, Gap, Pair
  <2> QED BY <2>2 DEF Along
<1>8. ASSUME Moved(b, "s") # b
      PROVE  Along(b)
  <2>1. PICK c \in 1 .. COLS, r \in 1 .. ROWS - 1 : Gap(t[c], r) \/ Pair(t[c], r)
    BY <1>3, <1>8
  <2> DEFINE e == ROWS - r
  <2>2. e \in 1 .. ROWS - 1
    BY <1>4
  <2>3. t[c][r] = b[e + 1][c] /\ t[c][r + 1] = b[e][c]
    BY <1>5
  <2> HIDE DEF e
  <2>4. Movable(b[e][c], b[e + 1][c])
    BY <2>1, <2>3 DEF Movable, Gap, Pair
  <2> QED BY <2>2, <2>4 DEF Along
<1> QED
  BY <1>6, <1>7, <1>8 DEF Along

\* Neighbours are both empty or both not, so all squares are.
LEMMA AlikeAll ==
    ASSUME NEW N \in Nat \ {0}, NEW row \in [1 .. N -> Values],
           \A c \in 1 .. N - 1 : row[c] = 0 <=> row[c + 1] = 0
    PROVE  \A c \in 1 .. N : row[c] = 0 <=> row[1] = 0
<1> DEFINE S == {n \in 0 .. N : n >= 1 => (row[n] = 0 <=> row[1] = 0)}
<1>1. 0 \in S
  OBVIOUS
<1>2. ASSUME NEW n \in 0 .. N - 1, n \in S
      PROVE  n + 1 \in S
  <2>0. n + 1 \in 0 .. N
    OBVIOUS
  <2>1. CASE n = 0
    BY <2>0, <2>1
  <2>2. CASE n # 0
    <3>1. n \in 1 .. N - 1 /\ (row[n] = 0 <=> row[1] = 0)
      BY <1>2, <2>2
    <3>2. row[n] = 0 <=> row[n + 1] = 0
      BY <3>1
    <3> QED BY <2>0, <3>1, <3>2
  <2> QED BY <2>1, <2>2
<1> HIDE DEF S
<1>3. \A n \in 0 .. N : n \in S
  <2>1. \A n \in 0 .. N - 1 : n \in S => n + 1 \in S
    BY <1>2
  <2> QED BY <1>1, <2>1, UpTo, Zenon
<1> QED
  BY <1>3 DEF S

\* The board is not empty: after the first tile it never is.
HasTile(b) == \E r \in 1 .. ROWS, c \in 1 .. COLS : b[r][c] # 0

\* With tiles and empty squares, some tile is next to an empty square.
LEMMA EmptyBesideTile ==
    ASSUME NEW b \in Boards(ROWS, COLS), HasTile(b), Empty(b) # {}
    PROVE  Across(b) \/ Along(b)
<1> SUFFICES ASSUME ~Across(b), ~Along(b)
             PROVE  FALSE
  OBVIOUS
<1>0. /\ ROWS \in Nat \ {0} /\ COLS \in Nat \ {0} /\ 1 \in 1 .. COLS /\ 1 \in 1 .. ROWS
  BY Game2048Assumption
<1> DEFINE u == Transposed(b)
<1>1. /\ u \in Boards(COLS, ROWS)
      /\ \A r \in 1 .. ROWS, c \in 1 .. COLS : u[c][r] = b[r][c]
  BY <1>0, TransposedIs
<1> HIDE DEF u
<1>2. ASSUME NEW r \in 1 .. ROWS
      PROVE  \A c \in 1 .. COLS : b[r][c] = 0 <=> b[r][1] = 0
  <2> DEFINE x == b[r]
  <2>1. x \in [1 .. COLS -> Values]
    BY DEF Boards
  <2>2. \A c \in 1 .. COLS - 1 : x[c] = 0 <=> x[c + 1] = 0
    BY DEF Across, Movable
  <2> HIDE DEF x
  <2>3. \A c \in 1 .. COLS : x[c] = 0 <=> x[1] = 0
    BY <1>0, <2>1, <2>2, AlikeAll, Zenon
  <2> QED BY <2>3 DEF x
<1>3. \A r \in 1 .. ROWS : b[r][1] = 0 <=> b[1][1] = 0
  <2> DEFINE x == u[1]
  <2>1. x \in [1 .. ROWS -> Values]
    BY <1>0, <1>1 DEF Boards
  <2>2. \A r \in 1 .. ROWS : x[r] = b[r][1]
    BY <1>0, <1>1
  <2>3. \A r \in 1 .. ROWS - 1 : x[r] = 0 <=> x[r + 1] = 0
    <3> SUFFICES ASSUME NEW r \in 1 .. ROWS - 1
                 PROVE  x[r] = 0 <=> x[r + 1] = 0
      OBVIOUS
    <3>1. r \in 1 .. ROWS /\ r + 1 \in 1 .. ROWS
      BY <1>0
    <3>2. b[r][1] = 0 <=> b[r + 1][1] = 0
      BY <1>0 DEF Along, Movable
    <3> QED BY <2>2, <3>1, <3>2
  <2> HIDE DEF x
  <2>4. \A r \in 1 .. ROWS : x[r] = 0 <=> x[1] = 0
    BY <1>0, <2>1, <2>3, AlikeAll, Zenon
  <2> QED BY <1>0, <2>2, <2>4
<1>4. PICK r \in 1 .. ROWS, c \in 1 .. COLS : b[r][c] # 0
  BY DEF HasTile
<1>5. PICK s \in 1 .. ROWS, e \in 1 .. COLS : b[s][e] = 0
  BY DEF Empty, Squares
<1> QED
  BY <1>2, <1>3, <1>4, <1>5

(***************************************************************************)
(* has_valid_moves() knows whether some direction changes the board.        *)
(***************************************************************************)
LEMMA ValidMoves ==
    ASSUME NEW b \in Boards(ROWS, COLS), HasTile(b)
    PROVE  has_valid_moves(b) <=> \E d \in Directions : Moved(b, d) # b
<1>0. ROWS \in Nat \ {0} /\ COLS \in Nat \ {0}
  BY Game2048Assumption
<1>1. (\E d \in Directions : Moved(b, d) # b) <=> Across(b) \/ Along(b)
  <2>1. (\E d \in Directions : Moved(b, d) # b) <=>
           \/ Moved(b, "a") # b \/ Moved(b, "d") # b
           \/ Moved(b, "w") # b \/ Moved(b, "s") # b
    BY DEF Directions
  <2> QED BY <2>1, AcrossChanges, AlongChanges
<1>2. CASE Empty(b) # {}
  BY <1>1, <1>2, EmptyBesideTile DEF has_valid_moves
<1>3. CASE Empty(b) = {}
  <2>1. \A r \in 1 .. ROWS, c \in 1 .. COLS : b[r][c] # 0
    <3> SUFFICES ASSUME NEW r \in 1 .. ROWS, NEW c \in 1 .. COLS, b[r][c] = 0
                 PROVE  <<r, c>> \in Empty(b)
      BY <1>3
    <3> QED BY DEF Empty, Squares
  <2>2. Across(b) <=> \E r \in 1 .. ROWS, c \in 2 .. COLS : b[r][c] = b[r][c - 1]
    <3>1. ASSUME NEW r \in 1 .. ROWS, NEW c \in 1 .. COLS - 1, Movable(b[r][c], b[r][c + 1])
          PROVE  \E k \in 2 .. COLS : b[r][k] = b[r][k - 1]
      <4>1. c + 1 \in 2 .. COLS /\ (c + 1) - 1 = c /\ c + 1 \in 1 .. COLS /\ c \in 1 .. COLS
        BY <1>0
      <4>2. b[r][c] = b[r][c + 1]
        BY <2>1, <3>1, <4>1 DEF Movable
      <4> QED BY <4>1, <4>2
    <3>2. ASSUME NEW r \in 1 .. ROWS, NEW c \in 2 .. COLS, b[r][c] = b[r][c - 1]
          PROVE  \E k \in 1 .. COLS - 1 : Movable(b[r][k], b[r][k + 1])
      <4>1. c - 1 \in 1 .. COLS - 1 /\ (c - 1) + 1 = c /\ c \in 1 .. COLS
        BY <1>0
      <4>2. Movable(b[r][c - 1], b[r][c])
        BY <2>1, <3>2, <4>1 DEF Movable
      <4> QED BY <4>1, <4>2
    <3> QED BY <3>1, <3>2 DEF Across
  <2>3. Along(b) <=> \E r \in 2 .. ROWS, c \in 1 .. COLS : b[r][c] = b[r - 1][c]
    <3>1. ASSUME NEW r \in 1 .. ROWS - 1, NEW c \in 1 .. COLS, Movable(b[r][c], b[r + 1][c])
          PROVE  \E k \in 2 .. ROWS : b[k][c] = b[k - 1][c]
      <4>1. r + 1 \in 2 .. ROWS /\ (r + 1) - 1 = r /\ r + 1 \in 1 .. ROWS /\ r \in 1 .. ROWS
        BY <1>0
      <4>2. b[r][c] = b[r + 1][c]
        BY <2>1, <3>1, <4>1 DEF Movable
      <4> QED BY <4>1, <4>2
    <3>2. ASSUME NEW r \in 2 .. ROWS, NEW c \in 1 .. COLS, b[r][c] = b[r - 1][c]
          PROVE  \E k \in 1 .. ROWS - 1 : Movable(b[k][c], b[k + 1][c])
      <4>1. r - 1 \in 1 .. ROWS - 1 /\ (r - 1) + 1 = r /\ r \in 1 .. ROWS
        BY <1>0
      <4>2. Movable(b[r - 1][c], b[r][c])
        BY <2>1, <3>2, <4>1 DEF Movable
      <4> QED BY <4>1, <4>2
    <3> QED BY <3>1, <3>2 DEF Along
  <2> QED BY <1>1, <1>3, <2>2, <2>3 DEF has_valid_moves
<1> QED
  BY <1>2, <1>3

-----------------------------------------------------------------------------
(***************************************************************************)
(* Drawing tiles, and the invariant of the game.                            *)
(***************************************************************************)

\* Drawing a tile on an empty square makes the board worth that much more,
\* and leaves it a tile.
LEMMA DrawnTile ==
    ASSUME NEW w \in Weights, NEW b \in Boards(ROWS, COLS), NEW i \in 1 .. ROWS,
           NEW j \in 1 .. COLS,
           b[i][j] = 0, NEW v \in TileValues
    PROVE  LET after == WithTile(b, <<i, j>>, v)
           IN  /\ after \in Boards(ROWS, COLS)
               /\ HasTile(after)
               /\ BoardWorth(w, after) = BoardWorth(w, b) + w[v]
<1> DEFINE a == WithTile(b, <<i, j>>, v)
<1>0. /\ ROWS \in Nat \ {0} /\ COLS \in Nat \ {0} /\ ROWS \in Nat /\ COLS \in Nat
      /\ v \in Values /\ v \in Nat /\ v # 0
  BY Game2048Assumption, TileFacts
<1>1. a = [r \in 1 .. ROWS |-> [c \in 1 .. COLS |-> IF r = i /\ c = j THEN v ELSE b[r][c]]]
  BY DEF WithTile
<1>2. \A r \in 1 .. ROWS : b[r] \in [1 .. COLS -> Values] /\ \A c \in 1 .. COLS : b[r][c] \in Values
  BY DEF Boards
<1>3. /\ a \in Boards(ROWS, COLS)
      /\ a[i][j] = v
      /\ \A r \in 1 .. ROWS, c \in 1 .. COLS : (r # i \/ c # j) => a[r][c] = b[r][c]
  <2>1. \A r \in 1 .. ROWS, c \in 1 .. COLS : (IF r = i /\ c = j THEN v ELSE b[r][c]) \in Values
    BY <1>0, <1>2
  <2> HIDE DEF a
  <2>2. a \in Boards(ROWS, COLS)
    BY <1>1, <2>1 DEF Boards
  <2> QED BY <1>1, <2>2
<1> HIDE DEF a
<1>4. HasTile(a)
  BY <1>0, <1>3 DEF HasTile
<1>5. \A r \in 1 .. ROWS : a[r] \in [1 .. COLS -> Values]
  BY <1>3 DEF Boards
<1>6. ASSUME NEW r \in 1 .. ROWS, r # i
      PROVE  a[r] = b[r]
  <2>1. a[r] = [c \in 1 .. COLS |-> a[r][c]] /\ b[r] = [c \in 1 .. COLS |-> b[r][c]]
    BY <1>2, <1>5
  <2>2. \A c \in 1 .. COLS : a[r][c] = b[r][c]
    BY <1>3, <1>6
  <2> QED BY <2>1, <2>2
<1>7. WorthBy(w, a[i]) = WorthBy(w, b[i]) + w[v]
  <2> DEFINE x == a[i]  y == b[i]
  <2>1. x \in [1 .. COLS -> Values] /\ y \in [1 .. COLS -> Values]
    BY <1>2, <1>5
  <2>2. x[j] = v /\ y[j] = 0 /\ \A k \in 1 .. COLS : k # j => x[k] = y[k]
    BY <1>3
  <2> HIDE DEF x, y
  <2>3. WorthBy(w, x) + w[y[j]] = WorthBy(w, y) + w[v]
    BY <1>0, <2>1, <2>2, WorthChange, ZenonT(60)
  <2>4. w[0] = 0 /\ w[v] \in Nat
    BY <1>0, WeightIs, WeightIs
  <2>5. WorthBy(w, x) \in Nat /\ WorthBy(w, y) \in Nat
    BY <1>0, <2>1, WorthIs
  <2> QED BY <2>2, <2>3, <2>4, <2>5 DEF x, y
<1> DEFINE f == RowWorths(w, b)
           g == RowWorths(w, a)
<1>8. /\ f \in [1 .. ROWS -> Nat] /\ BoardWorth(w, b) = Total(f)[ROWS] /\ BoardWorth(w, b) \in Nat
      /\ \A r \in 1 .. ROWS : f[r] = WorthBy(w, b[r])
  BY <1>0, BoardIs
<1>9. /\ g \in [1 .. ROWS -> Nat] /\ BoardWorth(w, a) = Total(g)[ROWS] /\ BoardWorth(w, a) \in Nat
      /\ \A r \in 1 .. ROWS : g[r] = WorthBy(w, a[r])
  <2>1. ROWS \in Nat \ {0} /\ COLS \in Nat \ {0} /\ a \in Boards(ROWS, COLS)
    BY <1>0, <1>3
  <2> QED BY <2>1, BoardIs
<1>10. f[i] = WorthBy(w, b[i]) /\ g[i] = WorthBy(w, a[i]) /\ \A r \in 1 .. ROWS : r # i => g[r] = f[r]
  BY <1>6, <1>8, <1>9
<1>11. f[i] \in Nat /\ w[v] \in Nat
  BY <1>0, <1>8, WeightIs
<1> HIDE DEF f, g
<1>12. Total(g)[ROWS] + f[i] = Total(f)[ROWS] + g[i]
  <2>1. f \in [1 .. ROWS -> Nat] /\ g \in [1 .. ROWS -> Nat] /\ ROWS \in Nat
    BY <1>0, <1>8, <1>9
  <2>2. \A r \in 1 .. ROWS : r # i => g[r] = f[r]
    BY <1>10
  <2> QED BY <2>1, <2>2, TotalOneChange, Zenon
<1>13. BoardWorth(w, a) = BoardWorth(w, b) + w[v]
  BY <1>7, <1>8, <1>9, <1>10, <1>11, <1>12
<1> QED
  BY <1>3, <1>4, <1>13 DEF a

-----------------------------------------------------------------------------
(***************************************************************************)
(* The largest tile.  The sum of the tiles only grows by the tiles drawn;   *)
(* at most as many ones as there are tiles are in its binary numeral, and   *)
(* while a square is empty these are too few for the sums next to the bound.*)
(***************************************************************************)

\* What a tile shows, and the same with what it is worth.
Face     == [v \in Nat |-> v]
WithFace == [v \in Nat |-> WorthOf[v] + v]

\* Both are weights, and with the second a merge costs what it does by WorthOf.
LEMMA FaceWeighs ==
    /\ Face \in Weights /\ \A v \in Nat : Face[v] = v
    /\ WithFace \in Weights /\ Doubles(WithFace)
    /\ \A v \in Nat : WithFace[v] = WorthOf[v] + Face[v]
<1>1. Face \in Weights /\ \A v \in Nat : Face[v] = v
  BY DEF Face, Weights
<1>2. WithFace \in [Nat -> Nat] /\ \A v \in Nat : WithFace[v] = WorthOf[v] + v
  BY WorthOfDef DEF WithFace
<1>3. WithFace \in Weights
  BY <1>2, WorthOfTwice DEF Weights
<1>4. ASSUME NEW v \in TileValues
      PROVE  WithFace[2 * v] = 2 * WithFace[v] + 2 * v
  <2>1. v \in Nat /\ 2 * v \in Nat /\ WorthOf[v] \in Nat
    BY TileFacts, WorthOfDef
  <2>2. WorthOf[2 * v] = 2 * WorthOf[v] + 2 * v
    BY WorthOfTwice
  <2>3. WithFace[2 * v] = WorthOf[2 * v] + 2 * v /\ WithFace[v] = WorthOf[v] + v
    BY <1>2, <2>1
  <2> QED BY <2>1, <2>2, <2>3
<1> QED
  BY <1>1, <1>2, <1>3, <1>4 DEF Doubles

\* So what a board is worth with the values is what it is worth and its sum.
LEMMA WorthAndSum ==
    ASSUME NEW b \in Boards(ROWS, COLS)
    PROVE  BoardWorth(WithFace, b) = BoardWorth(WorthOf, b) + BoardWorth(Face, b)
<1>0. ROWS \in Nat \ {0} /\ COLS \in Nat \ {0} /\ ROWS \in Nat /\ COLS \in Nat
  BY Game2048Assumption
<1>a. WorthOf \in Weights /\ Face \in Weights /\ WithFace \in Weights
  BY WorthOfWeighs, FaceWeighs
<1> DEFINE f == RowWorths(WorthOf, b)
           g == RowWorths(Face, b)
           h == RowWorths(WithFace, b)
<1>1. /\ f \in [1 .. ROWS -> Nat] /\ BoardWorth(WorthOf, b) = Total(f)[ROWS]
      /\ \A r \in 1 .. ROWS : f[r] = WorthBy(WorthOf, b[r])
  BY <1>0, BoardIs, WorthOfWeighs
<1>2. /\ g \in [1 .. ROWS -> Nat] /\ BoardWorth(Face, b) = Total(g)[ROWS]
      /\ \A r \in 1 .. ROWS : g[r] = WorthBy(Face, b[r])
  BY <1>0, <1>a, BoardIs
<1>3. /\ h \in [1 .. ROWS -> Nat] /\ BoardWorth(WithFace, b) = Total(h)[ROWS]
      /\ \A r \in 1 .. ROWS : h[r] = WorthBy(WithFace, b[r])
  BY <1>0, <1>a, BoardIs
<1>4. ASSUME NEW r \in 1 .. ROWS
      PROVE  WorthBy(WithFace, b[r]) = WorthBy(WorthOf, b[r]) + WorthBy(Face, b[r])
  <2> DEFINE x == b[r]
             i == Worths(WorthOf, x)
             j == Worths(Face, x)
             k == Worths(WithFace, x)
  <2>1. x \in [1 .. COLS -> Values]
    BY DEF Boards
  <2> HIDE DEF x
  <2>2. /\ i \in [1 .. COLS -> Nat] /\ WorthBy(WorthOf, x) = Total(i)[COLS]
        /\ \A c \in 1 .. COLS : i[c] = WorthOf[x[c]]
    <3>1. RowSum(WorthOf, COLS, x)
      BY <1>0, <1>a, <2>1, RowIs, Zenon
    <3> QED BY <3>1 DEF RowSum
  <2>3. /\ j \in [1 .. COLS -> Nat] /\ WorthBy(Face, x) = Total(j)[COLS]
        /\ \A c \in 1 .. COLS : j[c] = Face[x[c]]
    <3>1. RowSum(Face, COLS, x)
      BY <1>0, <1>a, <2>1, RowIs, Zenon
    <3> QED BY <3>1 DEF RowSum
  <2>4. /\ k \in [1 .. COLS -> Nat] /\ WorthBy(WithFace, x) = Total(k)[COLS]
        /\ \A c \in 1 .. COLS : k[c] = WithFace[x[c]]
    <3>1. RowSum(WithFace, COLS, x)
      BY <1>0, <1>a, <2>1, RowIs, Zenon
    <3> QED BY <3>1 DEF RowSum
  <2>5. \A c \in 1 .. COLS : k[c] = i[c] + j[c]
    <3>1. \A c \in 1 .. COLS : x[c] \in Nat
      BY <2>1, TileFacts
    <3> HIDE DEF i, j, k
    <3> QED BY <2>2, <2>3, <2>4, <3>1, FaceWeighs
  <2> HIDE DEF i, j, k
  <2>6. Total(k)[COLS] = Total(i)[COLS] + Total(j)[COLS]
    BY <1>0, <2>2, <2>3, <2>4, <2>5, TotalSum, Zenon
  <2> QED BY <2>2, <2>3, <2>4, <2>6 DEF x
<1> HIDE DEF f, g, h
<1>5. \A r \in 1 .. ROWS : h[r] = f[r] + g[r]
  BY <1>1, <1>2, <1>3, <1>4
<1>6. Total(h)[ROWS] = Total(f)[ROWS] + Total(g)[ROWS]
  BY <1>0, <1>1, <1>2, <1>3, <1>5, TotalSum, Zenon
<1> QED
  BY <1>1, <1>2, <1>3, <1>6

\* A move leaves the sum of the tiles.
LEMMA MoveKeepsSum ==
    ASSUME NEW d \in Directions, NEW b \in Boards(ROWS, COLS)
    PROVE  BoardWorth(Face, Moved(b, d)) = BoardWorth(Face, b)
<1>0. ROWS \in Nat \ {0} /\ COLS \in Nat \ {0}
  BY Game2048Assumption
<1>1. /\ Moved(b, d) \in Boards(ROWS, COLS) /\ GainedBy(b, d) \in Nat
      /\ BoardWorth(WorthOf, Moved(b, d)) = BoardWorth(WorthOf, b) + GainedBy(b, d)
  BY MovedIs, WorthOfWeighs
<1>2. BoardWorth(WithFace, Moved(b, d)) = BoardWorth(WithFace, b) + GainedBy(b, d)
  BY MovedIs, FaceWeighs
<1> DEFINE m == Moved(b, d)
<1> HIDE DEF m
<1>3. BoardWorth(WithFace, m) = BoardWorth(WorthOf, m) + BoardWorth(Face, m)
  BY <1>1, WorthAndSum DEF m
<1>4. BoardWorth(WithFace, b) = BoardWorth(WorthOf, b) + BoardWorth(Face, b)
  BY WorthAndSum
<1>5. /\ BoardWorth(WorthOf, b) \in Nat /\ BoardWorth(Face, b) \in Nat
      /\ BoardWorth(WorthOf, m) \in Nat /\ BoardWorth(Face, m) \in Nat
  BY <1>0, <1>1, BoardIs, WorthOfWeighs, FaceWeighs DEF m
<1> QED
  BY <1>1, <1>2, <1>3, <1>4, <1>5 DEF m

\* No element of a sequence is above the sum.
LEMMA TotalAtLeast ==
    ASSUME NEW N \in Nat, NEW f \in [1 .. N -> Nat], NEW i \in 1 .. N
    PROVE  f[i] <= Total(f)[N]
<1>1. /\ Total(f) \in [0 .. N -> Nat]
      /\ \A n \in 1 .. N : Total(f)[n] = Total(f)[n - 1] + f[n]
  BY TotalDef, Zenon
<1> DEFINE S == {n \in 0 .. N : n >= i => f[i] <= Total(f)[n]}
<1>2. 0 \in S
  OBVIOUS
<1>3. ASSUME NEW n \in 0 .. N - 1, n \in S
      PROVE  n + 1 \in S
  <2>1. n + 1 \in 1 .. N /\ (n + 1) - 1 = n /\ n \in 0 .. N /\ f[i] \in Nat
    OBVIOUS
  <2>2. Total(f)[n + 1] = Total(f)[n] + f[n + 1] /\ Total(f)[n] \in Nat /\ f[n + 1] \in Nat
    BY <1>1, <2>1
  <2>3. CASE n >= i
    BY <1>3, <2>1, <2>2, <2>3
  <2>4. CASE n + 1 = i
    BY <2>1, <2>2, <2>4
  <2>5. CASE n + 1 < i
    BY <2>5
  <2> QED BY <2>3, <2>4, <2>5
<1> HIDE DEF S
<1>4. \A n \in 0 .. N - 1 : n \in S => n + 1 \in S
  BY <1>3
<1>5. \A n \in 0 .. N : n \in S
  BY <1>2, <1>4, UpTo, Zenon
<1> QED
  BY <1>5 DEF S

\* So no tile is above the sum of the tiles.
LEMMA TileBelowSum ==
    ASSUME NEW b \in Boards(ROWS, COLS), NEW r \in 1 .. ROWS, NEW c \in 1 .. COLS
    PROVE  b[r][c] <= BoardWorth(Face, b)
<1>0. ROWS \in Nat \ {0} /\ COLS \in Nat \ {0} /\ ROWS \in Nat /\ COLS \in Nat
  BY Game2048Assumption
<1>a. Face \in Weights
  BY FaceWeighs
<1> DEFINE x == b[r]
           f == Worths(Face, x)
           g == RowWorths(Face, b)
<1>1. /\ g \in [1 .. ROWS -> Nat] /\ BoardWorth(Face, b) = Total(g)[ROWS]
      /\ g[r] = WorthBy(Face, b[r])
  BY <1>0, <1>a, BoardIs
<1>2. x \in [1 .. COLS -> Values] /\ x[c] \in Nat
  BY TileFacts DEF Boards
<1> HIDE DEF x
<1>3. /\ f \in [1 .. COLS -> Nat] /\ WorthBy(Face, x) = Total(f)[COLS] /\ f[c] = Face[x[c]]
  <2>1. RowSum(Face, COLS, x)
    BY <1>0, <1>2, <1>a, RowIs, Zenon
  <2> QED BY <2>1 DEF RowSum
<1> HIDE DEF f, g
<1>4. f[c] <= Total(f)[COLS]
  BY <1>0, <1>3, TotalAtLeast, Zenon
<1>5. g[r] <= Total(g)[ROWS]
  BY <1>0, <1>1, TotalAtLeast, Zenon
<1>6. f[c] = x[c]
  BY <1>2, <1>3, FaceWeighs
<1>7. g[r] = Total(f)[COLS] /\ g[r] \in Nat /\ Total(g)[ROWS] \in Nat
  <2>1. Total(g) \in [0 .. ROWS -> Nat] /\ ROWS \in 0 .. ROWS
    BY <1>0, <1>1, TotalDef
  <2> QED BY <1>1, <1>3, <2>1 DEF x
<1> QED
  BY <1>1, <1>2, <1>4, <1>5, <1>6, <1>7 DEF x

\* How many ones the binary numeral of a number has.
Ones[x \in Nat] == IF x = 0 THEN 0 ELSE Ones[x \div 2] + (x % 2)

\* Doubling a number leaves its ones; one more on an even number is one more.
LEMMA OnesDef ==
    /\ Ones \in [Nat -> Nat] /\ Ones[0] = 0
    /\ \A x \in Nat : Ones[2 * x] = Ones[x] /\ Ones[2 * x + 1] = Ones[x] + 1
<1> DEFINE Rest(x, g) == IF x = 0 THEN 0 ELSE g[x \div 2] + (x % 2)
           step == [x \in Nat |-> [g \in [Nat -> Nat] |-> Rest(x, g)]]
<1>0. \A x \in Nat : x # 0 => x \div 2 \in 0 .. x - 1 /\ x \div 2 \in Nat /\ x % 2 \in Nat
  OBVIOUS
<1>1. step \in [Nat -> [[Nat -> Nat] -> Nat]]
  <2>1. ASSUME NEW x \in Nat, NEW g \in [Nat -> Nat]
        PROVE  Rest(x, g) \in Nat
    <3>1. x # 0 => g[x \div 2] \in Nat /\ x % 2 \in Nat
      BY <1>0
    <3> QED BY <3>1
  <2> HIDE DEF Rest
  <2> QED BY <2>1
<1>2. ASSUME NEW g \in [Nat -> Nat], NEW h \in [Nat -> Nat], NEW x \in Nat, SameBelow(g, h, x)
      PROVE  step[x][g] = step[x][h]
  <2>1. x # 0 => g[x \div 2] = h[x \div 2]
    BY <1>0, <1>2 DEF SameBelow
  <2> QED BY <2>1
<1>3. \A x \in Nat : \A g \in [Nat -> Nat] : step[x][g] = Rest(x, g)
  BY DEF Rest
<1> HIDE DEF step, Rest
<1>4. LooksBack(step, Nat)
  BY <1>1, <1>2 DEF LooksBack
<1>5. PICK f \in [Nat -> Nat] : \A x \in Nat : f[x] = step[x][f]
  BY <1>4, NatRecursion
<1>6. f = [x \in Nat |-> Rest(x, f)]
  BY <1>3, <1>5
<1>7. Ones = [x \in Nat |-> Rest(x, Ones)]
  BY <1>6, Zenon DEF Ones, Rest
<1>8. \A x \in Nat : Ones[x] = IF x = 0 THEN 0 ELSE Ones[x \div 2] + (x % 2)
  BY <1>7, Zenon DEF Rest
<1>9. \A x \in Nat : Ones[x] \in Nat
  <2> DEFINE E == {x \in Nat : Ones[x] \in Nat}
  <2>1. ASSUME NEW x \in Nat, \A y \in 0 .. x - 1 : y \in E
        PROVE  x \in E
    <3>1. x # 0 => Ones[x \div 2] \in Nat /\ x % 2 \in Nat
      BY <1>0, <2>1
    <3> QED BY <1>8, <3>1
  <2> HIDE DEF E
  <2>2. Nat \subseteq E
    BY <2>1, StrongInduction
  <2> QED BY <2>2 DEF E
<1>10. Ones \in [Nat -> Nat]
  <2>1. Ones = [x \in Nat |-> Ones[x]]
    BY <1>7, <1>8
  <2> QED BY <1>9, <2>1
<1>11. Ones[0] = 0
  BY <1>8
<1>12. ASSUME NEW x \in Nat
       PROVE  Ones[2 * x] = Ones[x] /\ Ones[2 * x + 1] = Ones[x] + 1
  <2>1. /\ 2 * x \in Nat /\ (2 * x) \div 2 = x /\ (2 * x) % 2 = 0
        /\ 2 * x + 1 \in Nat /\ (2 * x + 1) \div 2 = x /\ (2 * x + 1) % 2 = 1
        /\ 2 * x + 1 # 0 /\ (2 * x = 0 => x = 0)
    OBVIOUS
  <2> DEFINE e == 2 * x
             o == 2 * x + 1
  <2>a. /\ e \in Nat /\ e \div 2 = x /\ e % 2 = 0 /\ (e = 0 => x = 0)
        /\ o \in Nat /\ o \div 2 = x /\ o % 2 = 1 /\ o # 0
    BY <2>1
  <2> HIDE DEF e, o
  <2>b. (e # 0 => Ones[e] = Ones[e \div 2] + (e % 2)) /\ Ones[o] = Ones[o \div 2] + (o % 2)
    BY <1>8, <2>a, Zenon
  <2>2. Ones[o] = Ones[x] + 1
    BY <2>a, <2>b, Zenon
  <2>3. CASE x = 0
    BY <1>11, <2>2, <2>3 DEF e, o
  <2>4. CASE x # 0
    <3>1. Ones[e] = Ones[x] + 0
      BY <2>a, <2>b, <2>4, Zenon
    <3> QED BY <1>9, <2>2, <3>1 DEF e, o
  <2> QED BY <2>3, <2>4
<1> QED
  BY <1>10, <1>11, <1>12

\* A number is twice another, or one more.
LEMMA Halves == \A x \in Nat : \E y \in Nat : x = 2 * y \/ x = 2 * y + 1
<1> SUFFICES ASSUME NEW x \in Nat
             PROVE  \E y \in Nat : x = 2 * y \/ x = 2 * y + 1
  OBVIOUS
<1>1. x \div 2 \in Nat /\ (x = 2 * (x \div 2) \/ x = 2 * (x \div 2) + 1)
  OBVIOUS
<1> QED
  BY <1>1

\* Adding a power of two makes at most one more.
LEMMA OnesAdd == \A k \in Nat : \A x \in Nat : Ones[x + Power[k]] <= Ones[x] + 1
<1> DEFINE E == {k \in Nat : \A x \in Nat : Ones[x + Power[k]] <= Ones[x] + 1}
<1>1. 0 \in E
  <2> DEFINE D == {x \in Nat : Ones[x + 1] <= Ones[x] + 1}
  <2>1. ASSUME NEW x \in Nat, \A y \in 0 .. x - 1 : y \in D
        PROVE  x \in D
    <3>1. PICK y \in Nat : x = 2 * y \/ x = 2 * y + 1
      BY Halves
    <3>2. CASE x = 2 * y
      <4>1. Ones[x + 1] = Ones[y] + 1 /\ Ones[x] = Ones[y] /\ Ones[y] \in Nat
        BY <3>2, OnesDef
      <4> QED BY <4>1
    <3>3. CASE x = 2 * y + 1
      <4>1. y \in 0 .. x - 1 /\ x + 1 = 2 * (y + 1) /\ y + 1 \in Nat
        BY <3>3
      <4>2. Ones[x + 1] = Ones[y + 1] /\ Ones[x] = Ones[y] + 1
        BY <3>3, <4>1, OnesDef
      <4>3. Ones[y + 1] <= Ones[y] + 1 /\ Ones[y] \in Nat /\ Ones[y + 1] \in Nat
        BY <2>1, <4>1, OnesDef
      <4> QED BY <4>2, <4>3
    <3> QED BY <3>1, <3>2, <3>3
  <2> HIDE DEF D
  <2>2. Nat \subseteq D
    BY <2>1, StrongInduction
  <2> QED BY <2>2, PowerDef DEF D
<1>2. ASSUME NEW k \in Nat, k \in E
      PROVE  k + 1 \in E
  <2> SUFFICES ASSUME NEW x \in Nat
               PROVE  Ones[x + Power[k + 1]] <= Ones[x] + 1
    OBVIOUS
  <2> DEFINE p == Power[k]
  <2>1. p \in Nat /\ Power[k + 1] = 2 * p
    BY PowerDef
  <2>2. PICK y \in Nat : x = 2 * y \/ x = 2 * y + 1
    BY Halves
  <2>3. Ones[y + p] <= Ones[y] + 1
    BY <1>2
  <2> HIDE DEF p
  <2>4. y + p \in Nat
    BY <2>1
  <2>5. Ones[y] \in Nat /\ Ones[y + p] \in Nat
    BY <2>4, OnesDef
  <2>6. CASE x = 2 * y
    <3>1. x + Power[k + 1] = 2 * (y + p)
      BY <2>1, <2>6
    <3>2. Ones[x + Power[k + 1]] = Ones[y + p] /\ Ones[x] = Ones[y]
      BY <2>4, <2>6, <3>1, OnesDef
    <3> QED BY <2>3, <3>2
  <2>7. CASE x = 2 * y + 1
    <3>1. x + Power[k + 1] = 2 * (y + p) + 1
      BY <2>1, <2>7
    <3>2. Ones[x + Power[k + 1]] = Ones[y + p] + 1 /\ Ones[x] = Ones[y] + 1
      BY <2>4, <2>7, <3>1, OnesDef
    <3> QED BY <2>3, <2>5, <3>2
  <2> QED BY <2>2, <2>6, <2>7
<1> HIDE DEF E
<1>3. Nat \subseteq E
  BY <1>1, <1>2, SetInduction
<1> QED
  BY <1>3 DEF E

\* A number below a power of two by 1 has all ones.
LEMMA OnesFull == \A n \in Nat : Ones[Power[n] - 1] = n
<1> DEFINE E == {n \in Nat : Ones[Power[n] - 1] = n}
<1>1. 0 \in E
  <2>1. Power[0] - 1 = 0
    BY PowerDef
  <2>2. Ones[Power[0] - 1] = Ones[0]
    BY <2>1
  <2> QED BY <2>2, OnesDef
<1>2. ASSUME NEW n \in Nat, n \in E
      PROVE  n + 1 \in E
  <2>1. Power[n] - 1 \in Nat /\ Power[n + 1] - 1 = 2 * (Power[n] - 1) + 1
    BY PowerDef, PowersGrow
  <2>2. Ones[Power[n + 1] - 1] = Ones[Power[n] - 1] + 1
    BY <2>1, OnesDef
  <2> QED BY <1>2, <2>2
<1> HIDE DEF E
<1>3. Nat \subseteq E
  BY <1>1, <1>2, SetInduction
<1> QED
  BY <1>3 DEF E

(***************************************************************************)
(* A sum of fewer than n powers of two that is at most 2^(n+2) - 4 leaves   *)
(* room for 4 more: the numbers just below that bound have n ones or more.  *)
(***************************************************************************)
LEMMA RoomForFour ==
    ASSUME NEW n \in Nat \ {0}, NEW s \in Nat, s <= Power[n + 2] - 4, Ones[s] < n
    PROVE  s + 4 <= Power[n + 2] - 4
<1> DEFINE p == Power[n - 1]
<1>1. n - 1 \in Nat /\ (n - 1) + 1 = n /\ n + 1 \in Nat /\ (n + 1) + 1 = n + 2
  OBVIOUS
<1>2. /\ p \in Nat /\ p >= 1 /\ Power[n] = 2 * p /\ Power[n + 2] = 8 * p
  BY <1>1, PowerDef, PowersGrow
<1>3. Ones[p - 1] = n - 1 /\ Ones[2 * p - 1] = n
  BY <1>1, <1>2, OnesFull
<1> HIDE DEF p
<1>4. /\ p - 1 \in Nat /\ 2 * p - 1 \in Nat /\ 2 * (p - 1) \in Nat /\ 4 * (p - 1) + 1 \in Nat
      /\ 2 * (2 * p - 1) \in Nat /\ 2 * (2 * (p - 1)) \in Nat
  BY <1>2
<1>5. Ones[2 * (2 * p - 1)] = n /\ Ones[2 * (2 * (2 * p - 1))] = n
  BY <1>3, <1>4, OnesDef
<1>6. Ones[2 * (p - 1)] = n - 1 /\ Ones[2 * (2 * (p - 1)) + 1] = n
  BY <1>3, <1>4, OnesDef
<1>7. Ones[2 * (2 * (2 * (p - 1)) + 1)] = n /\ Ones[2 * (2 * (2 * (p - 1)) + 1) + 1] = n + 1
  <2> DEFINE q == 2 * (2 * (p - 1)) + 1
  <2>1. q \in Nat /\ Ones[q] = n
    BY <1>4, <1>6
  <2> HIDE DEF q
  <2>2. Ones[2 * q] = n /\ Ones[2 * q + 1] = n + 1
    BY <2>1, OnesDef
  <2> QED BY <2>2 DEF q
<1>8. Ones[2 * (2 * (2 * (p - 1))) + 1] = n
  <2> DEFINE q == 2 * (2 * (p - 1))
  <2>1. q \in Nat /\ Ones[q] = n - 1
    BY <1>4, <1>6, OnesDef
  <2> HIDE DEF q
  <2>2. Ones[2 * q + 1] = Ones[q] + 1
    BY <2>1, OnesDef
  <2>3. Ones[2 * q + 1] = n
    BY <2>1, <2>2
  <2> QED BY <2>3 DEF q
<1>9. /\ s # 2 * (2 * (2 * p - 1)) /\ s # 2 * (2 * (2 * (p - 1)) + 1)
      /\ s # 2 * (2 * (2 * (p - 1)) + 1) + 1 /\ s # 2 * (2 * (2 * (p - 1))) + 1
  BY <1>5, <1>7, <1>8
<1> QED
  BY <1>2, <1>9

\* A row of n squares adds at most n ones, and fewer if a square is empty.
LEMMA OnesOfRow ==
    ASSUME NEW N \in Nat, NEW row \in [1 .. N -> Values], NEW x \in Nat
    PROVE  /\ Ones[x + WorthBy(Face, row)] <= Ones[x] + N
           /\ (\E k \in 1 .. N : row[k] = 0) => Ones[x + WorthBy(Face, row)] < Ones[x] + N
<1> DEFINE f == Worths(Face, row)
<1>a. Face \in Weights
  BY FaceWeighs
<1>1. /\ f \in [1 .. N -> Nat] /\ WorthBy(Face, row) = Total(f)[N]
      /\ \A c \in 1 .. N : f[c] = Face[row[c]]
  BY <1>a, WorthIs, Zenon
<1> HIDE DEF f
<1>2. \A c \in 1 .. N : row[c] \in Values /\ row[c] \in Nat /\ f[c] = row[c]
  <2>1. \A c \in 1 .. N : row[c] \in Values
    OBVIOUS
  <2>2. \A c \in 1 .. N : row[c] \in Nat
    BY <2>1, TileFacts
  <2> QED BY <1>1, <2>1, <2>2, FaceWeighs
<1> DEFINE t == Total(f)
<1>3. /\ t \in [0 .. N -> Nat] /\ t[0] = 0
      /\ \A n \in 1 .. N : t[n] = t[n - 1] + f[n]
  BY <1>1, TotalDef, Zenon
<1>b. WorthBy(Face, row) = t[N]
  BY <1>1
<1> HIDE DEF t
<1> DEFINE Few(n) == /\ Ones[x + t[n]] <= Ones[x] + n
                     /\ (\E k \in 1 .. n : row[k] = 0) => Ones[x + t[n]] < Ones[x] + n
           S == {n \in 0 .. N : Few(n)}
<1>4. 0 \in S
  <2>1. x + t[0] = x
    BY <1>3
  <2>2. Ones[x] \in Nat
    BY OnesDef
  <2>3. Ones[x + t[0]] <= Ones[x] + 0
    BY <2>1, <2>2
  <2> QED BY <2>3
<1>5. ASSUME NEW n \in 0 .. N - 1, n \in S
      PROVE  n + 1 \in S
  <2>1. n + 1 \in 1 .. N /\ n + 1 \in 0 .. N /\ (n + 1) - 1 = n /\ n \in 0 .. N
    OBVIOUS
  <2> DEFINE y == x + t[n]
             z == x + t[n + 1]
  <2>2. y \in Nat /\ z \in Nat /\ z = y + row[n + 1]
    <3>1. t[n + 1] = t[n] + f[n + 1] /\ t[n] \in Nat
      BY <1>3, <2>1
    <3>2. f[n + 1] = row[n + 1] /\ row[n + 1] \in Nat
      BY <1>2, <2>1
    <3> QED BY <3>1, <3>2
  <2>3. Ones[y] <= Ones[x] + n /\ ((\E k \in 1 .. n : row[k] = 0) => Ones[y] < Ones[x] + n)
    BY <1>5
  <2> HIDE DEF y, z
  <2>4. Ones[y] \in Nat /\ Ones[x] \in Nat /\ Ones[z] \in Nat
    BY <2>2, OnesDef
  <2>5. CASE row[n + 1] = 0
    <3>1. z = y
      BY <2>2, <2>5
    <3>2. Ones[z] < Ones[x] + (n + 1)
      BY <2>1, <2>3, <2>4, <3>1
    <3> QED BY <2>1, <2>4, <3>2 DEF z
  <2>6. CASE row[n + 1] # 0
    <3>1. PICK k \in Nat : row[n + 1] = Power[k]
      BY <1>2, <2>1, <2>6, TileFacts DEF TileValues
    <3>2. Ones[z] <= Ones[y] + 1
      BY <2>2, <3>1, OnesAdd
    <3>3. Ones[z] <= Ones[x] + (n + 1)
      BY <2>1, <2>3, <2>4, <3>2
    <3>4. (\E i \in 1 .. n + 1 : row[i] = 0) => Ones[z] < Ones[x] + (n + 1)
      <4> SUFFICES ASSUME NEW i \in 1 .. n + 1, row[i] = 0
                   PROVE  Ones[z] < Ones[x] + (n + 1)
        OBVIOUS
      <4>1. i \in 1 .. n
        BY <2>6
      <4>2. Ones[y] < Ones[x] + n
        BY <2>3, <4>1
      <4> QED BY <2>1, <2>4, <3>2, <4>2
    <3> QED BY <2>1, <3>3, <3>4 DEF z
  <2> QED BY <2>5, <2>6
<1> HIDE DEF S
<1>6. \A n \in 0 .. N - 1 : n \in S => n + 1 \in S
  BY <1>5
<1>7. N \in S
  <2>1. \A n \in 0 .. N : n \in S
    BY <1>4, <1>6, UpTo, Zenon
  <2> QED BY <2>1
<1> QED
  BY <1>b, <1>7 DEF S

\* So the sum of a board with an empty square has fewer ones than squares.
LEMMA OnesOfBoard ==
    ASSUME NEW b \in Boards(ROWS, COLS),
           NEW i \in 1 .. ROWS, NEW j \in 1 .. COLS, b[i][j] = 0
    PROVE  Ones[BoardWorth(Face, b)] < ROWS * COLS
<1>0. ROWS \in Nat \ {0} /\ COLS \in Nat \ {0} /\ ROWS \in Nat /\ COLS \in Nat
  BY Game2048Assumption
<1>a. Face \in Weights
  BY FaceWeighs
<1> DEFINE g == RowWorths(Face, b)
<1>1. /\ g \in [1 .. ROWS -> Nat] /\ BoardWorth(Face, b) = Total(g)[ROWS]
      /\ \A r \in 1 .. ROWS : g[r] = WorthBy(Face, b[r])
  BY <1>0, <1>a, BoardIs
<1> HIDE DEF g
<1>2. /\ Total(g) \in [0 .. ROWS -> Nat] /\ Total(g)[0] = 0
      /\ \A n \in 1 .. ROWS : Total(g)[n] = Total(g)[n - 1] + g[n]
  BY <1>0, <1>1, TotalDef, Zenon
<1> DEFINE S == {n \in 0 .. ROWS : /\ Ones[Total(g)[n]] <= n * COLS
                                   /\ n >= i => Ones[Total(g)[n]] < n * COLS}
<1>3. 0 \in S
  BY <1>0, <1>2, OnesDef
<1>4. ASSUME NEW n \in 0 .. ROWS - 1, n \in S
      PROVE  n + 1 \in S
  <2>1. n + 1 \in 1 .. ROWS /\ n + 1 \in 0 .. ROWS /\ (n + 1) - 1 = n /\ n \in 0 .. ROWS /\ n \in Nat
    BY <1>0
  <2> DEFINE x   == Total(g)[n]
             y   == Total(g)[n + 1]
             row == b[n + 1]
             m   == n * COLS
  <2>2. m \in Nat /\ (n + 1) * COLS = m + COLS
    BY <1>0, <2>1
  <2>3. x \in Nat /\ row \in [1 .. COLS -> Values] /\ y = x + WorthBy(Face, row)
    BY <1>1, <1>2, <2>1 DEF Boards
  <2>4. Ones[x] <= m /\ (n >= i => Ones[x] < m)
    BY <1>4
  <2>5. n + 1 = i => \E k \in 1 .. COLS : row[k] = 0
    OBVIOUS
  <2>6. y \in Nat
    BY <1>2, <2>1
  <2> HIDE DEF x, y, row, m
  <2>7. /\ Ones[y] <= Ones[x] + COLS
        /\ (\E k \in 1 .. COLS : row[k] = 0) => Ones[y] < Ones[x] + COLS
    BY <1>0, <2>3, OnesOfRow
  <2>8. Ones[x] \in Nat /\ Ones[y] \in Nat
    BY <2>3, <2>6, OnesDef
  <2>9. Ones[y] <= m + COLS
    BY <1>0, <2>2, <2>4, <2>7, <2>8
  <2>10. n + 1 >= i => Ones[y] < m + COLS
    <3>1. CASE n + 1 = i
      BY <1>0, <2>2, <2>4, <2>5, <2>7, <2>8, <3>1
    <3>2. CASE n >= i
      BY <1>0, <2>2, <2>4, <2>7, <2>8, <3>2
    <3> QED BY <2>1, <3>1, <3>2
  <2> QED BY <2>1, <2>2, <2>9, <2>10 DEF y
<1> HIDE DEF S
<1>5. \A n \in 0 .. ROWS - 1 : n \in S => n + 1 \in S
  BY <1>4
<1>6. \A n \in 0 .. ROWS : n \in S
  BY <1>0, <1>3, <1>5, UpTo, Zenon
<1> QED
  BY <1>0, <1>1, <1>6 DEF S

\* The largest sum the squares can come to hold: a tile of each value.
SumLimit == Power[ROWS * COLS + 2] - 4

\* add_random_tile() leaves a board that has a tile, worth more only by the
\* tile it drew; there is room for a tile of 4 in the bound on the sum.
LEMMA RandomTile ==
    ASSUME NEW b \in Boards(ROWS, COLS), NEW result \in WithRandomTile(b)
    PROVE  /\ result[1] \in Boards(ROWS, COLS)
           /\ HasTile(result[1])
           /\ FoursIn(result[2]) \in Nat
           /\ BoardWorth(WorthOf, result[1]) = BoardWorth(WorthOf, b) + 4 * FoursIn(result[2])
           /\ BoardWorth(Face, b) <= SumLimit => BoardWorth(Face, result[1]) <= SumLimit
<1>0. /\ ROWS \in Nat \ {0} /\ COLS \in Nat \ {0} /\ 1 \in 1 .. ROWS /\ 1 \in 1 .. COLS
      /\ ROWS * COLS \in Nat \ {0}
  BY Game2048Assumption
<1>1. BoardWorth(WorthOf, b) \in Nat /\ BoardWorth(Face, b) \in Nat
  BY <1>0, BoardIs, WorthOfWeighs, FaceWeighs
<1>2. CASE Empty(b) = {}
  <2>1. result = <<b, 0>>
    BY <1>2 DEF WithRandomTile
  <2>2. HasTile(b)
    <3>1. b[1][1] = 0 => <<1, 1>> \in Empty(b)
      BY <1>0 DEF Empty, Squares
    <3> QED BY <1>0, <1>2, <3>1 DEF HasTile
  <2> QED BY <1>1, <2>1, <2>2 DEF FoursIn
<1>3. CASE Empty(b) # {}
  <2>1. PICK cell \in Empty(b), v \in {2, 4} : result = <<WithTile(b, cell, v), v>>
    BY <1>3 DEF WithRandomTile
  <2>2. PICK i \in 1 .. ROWS, j \in 1 .. COLS : cell = <<i, j>> /\ b[i][j] = 0
    BY <2>1 DEF Empty, Squares
  <2> DEFINE a == WithTile(b, <<i, j>>, v)
  <2>3. v \in TileValues /\ v \in Nat
    BY <2>1, TileFacts
  <2>4. /\ a \in Boards(ROWS, COLS) /\ HasTile(a)
        /\ BoardWorth(WorthOf, a) = BoardWorth(WorthOf, b) + WorthOf[v]
    BY <2>2, <2>3, DrawnTile, WorthOfWeighs
  <2>5. BoardWorth(Face, a) = BoardWorth(Face, b) + v
    BY <2>2, <2>3, DrawnTile, FaceWeighs
  <2>6. result[1] = a /\ result[2] = v
    BY <2>1, <2>2
  <2>7. FoursIn(v) \in Nat /\ WorthOf[v] = 4 * FoursIn(v)
    BY <2>1, WorthOfTwice DEF FoursIn
  <2> HIDE DEF a
  <2>8. BoardWorth(Face, b) <= SumLimit => BoardWorth(Face, a) <= SumLimit
    <3> SUFFICES ASSUME BoardWorth(Face, b) <= SumLimit
                 PROVE  BoardWorth(Face, a) <= SumLimit
      OBVIOUS
    <3>1. Ones[BoardWorth(Face, b)] < ROWS * COLS
      BY <2>2, OnesOfBoard
    <3> DEFINE n == ROWS * COLS
               t == BoardWorth(Face, b)
    <3>2. n \in Nat \ {0} /\ t \in Nat /\ t <= Power[n + 2] - 4 /\ Ones[t] < n
      BY <1>0, <1>1, <3>1 DEF SumLimit
    <3> HIDE DEF n, t
    <3>3. t + 4 <= Power[n + 2] - 4
      BY <3>2, RoomForFour
    <3>4. Power[n + 2] \in Nat
      BY <3>2, PowerDef
    <3> QED BY <1>1, <2>1, <2>5, <3>3, <3>4 DEF SumLimit, n, t
  <2> QED BY <2>4, <2>6, <2>7, <2>8
<1> QED
  BY <1>2, <1>3

-----------------------------------------------------------------------------
(***************************************************************************)
(* The invariant: the squares hold zeros and tiles, there is a tile once    *)
(* the game has begun, the score and the tiles of 4 account for the board,  *)
(* and the sum of the tiles is one that the squares can hold.               *)
(***************************************************************************)
GameInv ==
    /\ phase \in {"new", "playing", "over"}
    /\ board \in Boards(ROWS, COLS)
    /\ score \in Nat /\ fours \in Nat
    /\ phase = "new" => fours = 0
    /\ phase # "new" => HasTile(board)
    /\ score + 4 * fours = BoardWorth(WorthOf, board)
    /\ BoardWorth(Face, board) <= SumLimit

\* A board of zeros weighs nothing.
LEMMA NothingWeighs ==
    ASSUME NEW w \in Weights, NEW b \in Boards(ROWS, COLS),
           \A r \in 1 .. ROWS, c \in 1 .. COLS : b[r][c] = 0
    PROVE  BoardWorth(w, b) = 0
<1>0. ROWS \in Nat \ {0} /\ COLS \in Nat \ {0} /\ ROWS \in Nat /\ COLS \in Nat
  BY Game2048Assumption
<1> DEFINE f == RowWorths(w, b)
<1>1. /\ f \in [1 .. ROWS -> Nat] /\ BoardWorth(w, b) = Total(f)[ROWS]
      /\ \A r \in 1 .. ROWS : f[r] = WorthBy(w, b[r])
  BY <1>0, BoardIs
<1>2. ASSUME NEW r \in 1 .. ROWS
      PROVE  WorthBy(w, b[r]) = 0
  <2> DEFINE x == b[r]
  <2>1. x \in [1 .. COLS -> Values] /\ \A c \in 1 .. COLS : x[c] = 0
    BY DEF Boards
  <2> HIDE DEF x
  <2>2. /\ Worths(w, x) \in [1 .. COLS -> Nat] /\ WorthBy(w, x) = Total(Worths(w, x))[COLS]
        /\ \A c \in 1 .. COLS : Worths(w, x)[c] = w[x[c]]
    BY <1>0, <2>1, WorthIs, Zenon
  <2>3. \A c \in 0 + 1 .. COLS : Worths(w, x)[c] = 0
    <3>1. \A c \in 1 .. COLS : x[c] = 0
      BY <2>1
    <3>2. w[0] = 0
      BY WeightIs
    <3> QED BY <2>2, <3>1, <3>2
  <2>4. 0 \in 0 .. COLS
    BY <1>0
  <2>5. Total(Worths(w, x))[COLS] = Total(Worths(w, x))[0]
    BY <1>0, <2>2, <2>3, <2>4, TotalZeros, Zenon
  <2>6. Total(Worths(w, x))[0] = 0
    BY <1>0, <2>2, TotalDef, Zenon
  <2> QED BY <2>2, <2>5, <2>6 DEF x
<1>3. \A r \in 0 + 1 .. ROWS : f[r] = 0
  BY <1>1, <1>2
<1>4. 0 \in 0 .. ROWS
  BY <1>0
<1> HIDE DEF f
<1>5. Total(f)[ROWS] = Total(f)[0]
  BY <1>0, <1>1, <1>3, <1>4, TotalZeros, Zenon
<1>6. Total(f)[0] = 0
  BY <1>0, <1>1, TotalDef, Zenon
<1> QED
  BY <1>1, <1>5, <1>6

\* The game begins in the invariant.
LEMMA GameInvInit == GameInit => GameInv
<1> SUFFICES ASSUME GameInit
             PROVE  GameInv
  OBVIOUS
<1>0. /\ ROWS \in Nat /\ COLS \in Nat /\ ROWS * COLS \in Nat /\ 0 \in Values
  BY Game2048Assumption, TileFacts
<1>1. /\ phase = "new" /\ score = 0 /\ fours = 0
      /\ board = [r \in 1 .. ROWS |-> [c \in 1 .. COLS |-> 0]]
  BY DEF GameInit
<1>2. board \in Boards(ROWS, COLS)
  BY <1>0, <1>1 DEF Boards
<1>3. \A r \in 1 .. ROWS, c \in 1 .. COLS : board[r][c] = 0
  BY <1>1
<1>4. BoardWorth(WorthOf, board) = 0 /\ BoardWorth(Face, board) = 0
  BY <1>2, <1>3, NothingWeighs, WorthOfWeighs, FaceWeighs
<1>5. 0 <= SumLimit
  <2> DEFINE n == ROWS * COLS
  <2>1. n \in Nat
    BY <1>0
  <2> HIDE DEF n
  <2>2. n + 1 \in Nat /\ (n + 1) + 1 = n + 2
    BY <2>1
  <2>3. Power[n + 2] = 2 * Power[n + 1] /\ Power[n + 1] = 2 * Power[n] /\ Power[n] >= 1 /\ Power[n] \in Nat
    BY <2>1, <2>2, PowerDef, PowersGrow
  <2>4. Power[n + 2] >= 4
    BY <2>3
  <2>5. Power[n + 2] \in Nat
    BY <2>3
  <2> QED BY <2>4, <2>5 DEF SumLimit, n
<1> QED
  BY <1>1, <1>2, <1>4, <1>5 DEF GameInv

\* Every step of the game keeps the invariant.
LEMMA GameInvStep == GameInv /\ [GameNext]_boardVars => GameInv'
<1> SUFFICES ASSUME GameInv, [GameNext]_boardVars
             PROVE  GameInv'
  OBVIOUS
<1>0. ROWS \in Nat \ {0} /\ COLS \in Nat \ {0}
  BY Game2048Assumption
<1>1. CASE NewGame
  <2>1. PICK first \in WithRandomTile(board) : \E second \in WithRandomTile(first[1]) :
           board' = second[1] /\ fours' = FoursIn(first[2]) + FoursIn(second[2])
    BY <1>1 DEF NewGame
  <2>2. PICK second \in WithRandomTile(first[1]) :
           board' = second[1] /\ fours' = FoursIn(first[2]) + FoursIn(second[2])
    BY <2>1
  <2>3. phase = "new" /\ phase' = "playing" /\ score' = score
    BY <1>1 DEF NewGame
  <2>4. board \in Boards(ROWS, COLS) /\ fours = 0 /\ score \in Nat /\ score + 4 * fours = BoardWorth(WorthOf, board)
    BY <2>3 DEF GameInv
  <2>a. BoardWorth(Face, board) <= SumLimit
    BY DEF GameInv
  <2>5. /\ first[1] \in Boards(ROWS, COLS) /\ FoursIn(first[2]) \in Nat
        /\ BoardWorth(WorthOf, first[1]) = BoardWorth(WorthOf, board) + 4 * FoursIn(first[2])
        /\ BoardWorth(Face, first[1]) <= SumLimit
    BY <2>4, <2>a, RandomTile
  <2>6. /\ second[1] \in Boards(ROWS, COLS) /\ FoursIn(second[2]) \in Nat /\ HasTile(second[1])
        /\ BoardWorth(WorthOf, second[1]) = BoardWorth(WorthOf, first[1]) + 4 * FoursIn(second[2])
        /\ BoardWorth(Face, second[1]) <= SumLimit
    BY <2>5, RandomTile
  <2>7. score' + 4 * fours' = BoardWorth(WorthOf, second[1])
    BY <2>2, <2>3, <2>4, <2>5, <2>6
  <2>8. /\ (HasTile(board))' /\ (BoardWorth(WorthOf, board))' = BoardWorth(WorthOf, second[1])
        /\ (BoardWorth(Face, board))' = BoardWorth(Face, second[1])
    BY <2>2, <2>6 DEF HasTile, BoardWorth, RowWorths
  <2> QED BY <2>2, <2>3, <2>4, <2>5, <2>6, <2>7, <2>8 DEF GameInv
<1>2. CASE Turn
  <2>0. phase = "playing" /\ phase' = phase
    BY <1>2 DEF Turn, play_turn
  <2>1. /\ board \in Boards(ROWS, COLS) /\ score \in Nat /\ fours \in Nat
        /\ HasTile(board) /\ score + 4 * fours = BoardWorth(WorthOf, board)
        /\ BoardWorth(Face, board) <= SumLimit
    BY <2>0 DEF GameInv
  <2>2. PICK direction \in Directions : play_turn(direction)
    BY <1>2 DEF Turn
  <2> DEFINE moved == Moved(board, direction)
             gained == GainedBy(board, direction)
  <2>3. /\ moved \in Boards(ROWS, COLS) /\ gained \in Nat
        /\ BoardWorth(WorthOf, moved) = BoardWorth(WorthOf, board) + gained
    BY <2>1, MovedIs, WorthOfWeighs
  <2>a. BoardWorth(Face, moved) <= SumLimit
    BY <2>1, MoveKeepsSum
  <2>4. PICK result \in IF moved = board THEN {<<board, 0>>} ELSE WithRandomTile(moved) :
           board' = result[1] /\ fours' = fours + FoursIn(result[2])
    BY <2>2 DEF play_turn
  <2>5. score' = score + gained
    BY <2>2 DEF play_turn
  <2> HIDE DEF moved, gained
  <2>6. /\ result[1] \in Boards(ROWS, COLS) /\ HasTile(result[1]) /\ FoursIn(result[2]) \in Nat
        /\ BoardWorth(WorthOf, result[1]) = BoardWorth(WorthOf, moved) + 4 * FoursIn(result[2])
        /\ BoardWorth(Face, result[1]) <= SumLimit
    <3>1. CASE moved = board
      <4>1. result[1] = board /\ FoursIn(result[2]) = 0
        BY <2>4, <3>1 DEF FoursIn
      <4> QED BY <2>1, <2>3, <3>1, <4>1
    <3>2. CASE moved # board
      <4>1. result \in WithRandomTile(moved)
        BY <2>4, <3>2
      <4> QED BY <2>3, <2>a, <4>1, RandomTile
    <3> QED BY <3>1, <3>2
  <2>7. score' + 4 * fours' = BoardWorth(WorthOf, result[1]) /\ score' \in Nat /\ fours' \in Nat
    BY <2>1, <2>3, <2>4, <2>5, <2>6
  <2>8. /\ (HasTile(board))' /\ (BoardWorth(WorthOf, board))' = BoardWorth(WorthOf, result[1])
        /\ (BoardWorth(Face, board))' = BoardWorth(Face, result[1])
    BY <2>4, <2>6 DEF HasTile, BoardWorth, RowWorths
  <2> QED BY <2>0, <2>4, <2>6, <2>7, <2>8 DEF GameInv
<1>3. CASE Over
  BY <1>3 DEF Over, GameInv, HasTile, BoardWorth, RowWorths
<1>4. CASE InvalidMove
  BY <1>4 DEF InvalidMove, boardVars, GameInv, HasTile, BoardWorth, RowWorths
<1>5. CASE GameOver
  BY <1>5 DEF GameOver, boardVars, GameInv, HasTile, BoardWorth, RowWorths
<1>6. CASE UNCHANGED boardVars
  BY <1>6 DEF boardVars, GameInv, HasTile, BoardWorth, RowWorths
<1> QED
  BY <1>1, <1>2, <1>3, <1>4, <1>5, <1>6 DEF GameNext

\* The invariant of the game.
LEMMA GameInvHolds == GameSpec => []GameInv
<1> QED
  BY GameInvInit, GameInvStep, PTL DEF GameSpec

(***************************************************************************)
(* No tile ever exceeds 2^(ROWS * COLS + 1), the largest that the squares   *)
(* can build up with tiles of 2 and 4, and the game's phase, score and      *)
(* draws keep their types (game.py:13-15, 34-72).                           *)
(***************************************************************************)
THEOREM GameTypeCorrect == GameSpec => []GameTypeOK
<1>1. GameInv => GameTypeOK
  <2> SUFFICES ASSUME GameInv
               PROVE  GameTypeOK
    OBVIOUS
  <2> DEFINE n == ROWS * COLS
             sum == BoardWorth(Face, board)
  <2>0. ROWS \in Nat \ {0} /\ COLS \in Nat \ {0} /\ n \in Nat
    BY Game2048Assumption
  <2>1. board \in Boards(ROWS, COLS) /\ sum <= Power[n + 2] - 4
    BY DEF GameInv, SumLimit
  <2>2. sum \in Nat
    BY <2>0, <2>1, BoardIs, FaceWeighs
  <2>3. PowersOfTwo = {Power[k] : k \in 1 .. n + 1}
    BY DEF PowersOfTwo
  <2> HIDE DEF n, sum
  <2>4. ASSUME NEW r \in 1 .. ROWS, NEW c \in 1 .. COLS
        PROVE  board[r][c] \in {0} \cup PowersOfTwo
    <3> DEFINE v == board[r][c]
    <3>1. v \in Values
      BY <2>1 DEF Boards
    <3>2. v <= sum
      BY <2>1, TileBelowSum DEF sum
    <3> HIDE DEF v
    <3>3. CASE v # 0
      <4>1. PICK k \in Nat \ {0} : v = Power[k]
        BY <3>1, <3>3, TileFacts DEF TileValues
      <4>2. Power[k] \in Nat /\ Power[n + 2] \in Nat /\ n + 2 \in Nat
        BY <2>0, PowerDef
      <4>3. ~ Power[k] >= Power[n + 2]
        BY <2>1, <2>2, <3>2, <4>1, <4>2
      <4>4. ~ k >= n + 2
        <5> SUFFICES ASSUME k >= n + 2
                     PROVE  FALSE
          OBVIOUS
        <5> DEFINE m == n + 2
                   i == k - m
        <5>1. m \in Nat /\ i \in Nat /\ m + i = k
          BY <2>0
        <5> HIDE DEF m, i
        <5>2. Power[m + i] >= Power[m]
          BY <5>1, PowersGrow
        <5> QED BY <4>3, <5>1, <5>2 DEF m
      <4>5. k \in 1 .. n + 1
        BY <2>0, <4>4
      <4> QED BY <2>3, <4>1, <4>5 DEF v
    <3> QED BY <3>3 DEF v
  <2>5. board \in [1 .. ROWS -> [1 .. COLS -> {0} \cup PowersOfTwo]]
    <3>1. /\ board = [r \in 1 .. ROWS |-> board[r]]
          /\ \A r \in 1 .. ROWS : board[r] = [c \in 1 .. COLS |-> board[r][c]]
      BY <2>1 DEF Boards
    <3>2. \A r \in 1 .. ROWS : board[r] \in [1 .. COLS -> {0} \cup PowersOfTwo]
      BY <2>4, <3>1
    <3> QED BY <3>1, <3>2
  <2> QED BY <2>5 DEF GameInv, GameTypeOK
<1> QED
  BY <1>1, GameInvHolds, PTL

(***************************************************************************)
(* The score and the tiles drawn account for the board: no slide in any     *)
(* direction loses, invents or miscounts a tile, for every size of the      *)
(* board and every draw (game.py:50-98).                                    *)
(***************************************************************************)
THEOREM TilesAccountedHolds == GameSpec => []TilesAccounted
<1>1. GameInv => TilesAccounted
  <2>1. ASSUME NEW row
        PROVE  Worth(row) = WorthBy(WorthOf, row)
    BY Zenon DEF Worth, WorthBy, Worths
  <2>2. [r \in DOMAIN board |-> Worth(board[r])] = RowWorths(WorthOf, board)
    BY <2>1 DEF RowWorths
  <2> QED BY <2>2 DEF GameInv, TilesAccounted, BoardWorth
<1> QED
  BY <1>1, GameInvHolds, PTL

(***************************************************************************)
(* A slide in any direction merges pairs from the wall it slides to, each   *)
(* tile at most once, and moves all tiles to that wall (game.py:59-64).     *)
(***************************************************************************)
THEOREM SlidesGreedilyHolds == GameSpec => []SlidesGreedily
<1>1. GameInv => SlidesGreedily
  <2> SUFFICES ASSUME GameInv, phase = "playing", NEW d \in Directions
               PROVE  LET before == Turned(board, d)
                          after  == Turned(Moved(board, d), d)
                      IN  \A r \in DOMAIN before :
                              /\ Tiles(after[r]) = Greedily(Tiles(before[r]))[Len(Tiles(before[r]))]
                              /\ \A c \in 2 .. Len(after[r]) : after[r][c] # 0 => after[r][c - 1] # 0
    BY DEF SlidesGreedily
  <2> DEFINE before == Turned(board, d)
             after  == Turned(Moved(board, d), d)
             R == TurnedRows(d)
             C == TurnedCols(d)
  <2>0. R \in Nat \ {0} /\ C \in Nat \ {0} /\ C \in Nat /\ board \in Boards(ROWS, COLS)
    BY Game2048Assumption DEF TurnedRows, TurnedCols, GameInv
  <2>1. before \in Boards(R, C)
    BY <2>0, TurnedIs, WorthOfWeighs
  <2>2. DOMAIN before = 1 .. R /\ after = [r \in 1 .. R |-> Slid(before[r])]
    BY <2>0, MovedIs, WorthOfWeighs
  <2> HIDE DEF before, after, R, C
  <2>3. ASSUME NEW r \in 1 .. R
        PROVE  /\ Tiles(after[r]) = Greedily(Tiles(before[r]))[Len(Tiles(before[r]))]
               /\ \A c \in 2 .. Len(after[r]) : after[r][c] # 0 => after[r][c - 1] # 0
    <3> DEFINE x == before[r]
    <3>1. x \in [1 .. C -> Values] /\ after[r] = Slid(x)
      BY <2>1, <2>2 DEF Boards
    <3> HIDE DEF x
    <3>2. /\ Tiles(Slid(x)) = Greedily(Tiles(x))[Len(Tiles(x))]
          /\ Len(Slid(x)) = C
          /\ \A c \in 2 .. C : Slid(x)[c] # 0 => Slid(x)[c - 1] # 0
      BY <2>0, <3>1, SlidIsGreedy, Zenon
    <3> QED BY <3>1, <3>2 DEF x
  <2> QED BY <2>2, <2>3 DEF before, after
<1> QED
  BY <1>1, GameInvHolds, PTL

(***************************************************************************)
(* The game is declared over exactly when no direction changes the board    *)
(* any more (game.py:124-141 and 160).                                      *)
(***************************************************************************)
THEOREM OverMeansStuckHolds == GameSpec => []OverMeansStuck
<1>1. GameInv => OverMeansStuck
  BY ValidMoves DEF GameInv, OverMeansStuck
<1> QED
  BY <1>1, GameInvHolds, PTL

=============================================================================
