----------------------------- MODULE MCPrograms -----------------------------
(***************************************************************************)
(* The sequential programs of the repository that share nothing, explored   *)
(* side by side: program names the one that runs, and the others stay where *)
(* they start.  "string_array" is any client of that library, as its tests  *)
(* are; "shell" is the one client the repository has.                       *)
(***************************************************************************)
EXTENDS TicTacToe, Shell, EchoClient, Game2048, MemGen, AllowableIncrease, ReadInt,
        SortArray, Transpose

VARIABLE program

programVars ==
    <<program, vars, shellVars, echoVars, boardVars, memgenVars, searchVars, readVars,
      sortVars, transposeVars>>

MCPrograms == {"tic_tac_toe", "string_array", "shell", "run_client", "2048", "memgen",
               "helpers", "read_int", "array_sort", "run_transpose"}

MCInit ==
    /\ program \in MCPrograms
    /\ Init /\ ShellInit /\ EchoInit /\ GameInit /\ MemGenInit /\ SearchInit /\ ReadIntInit
    /\ IF program = "array_sort" THEN SortInit ELSE SortInit /\ array_size = 0
    /\ IF program = "run_transpose" THEN TransposeInit
       ELSE /\ TransposeInit /\ src = CHOOSE base \in Bases : TRUE
            /\ LET zero == CHOOSE b \in Bytes : TRUE
               IN  /\ memory = [a \in Addresses |-> zero]
                   /\ block = FreshBlocks(params, zero)

Arrays ==
    CASE program = "string_array" -> ArrayNext /\ UNCHANGED <<shell_at, feof, scanVars>>
      [] program = "shell"        -> ShellNext
      [] OTHER                    -> UNCHANGED shellVars

MCNext ==
    /\ UNCHANGED program
    /\ Arrays
    /\ IF program = "tic_tac_toe" THEN Next        ELSE UNCHANGED vars
    /\ IF program = "run_client"  THEN EchoNext    ELSE UNCHANGED echoVars
    /\ IF program = "2048"        THEN GameNext    ELSE UNCHANGED boardVars
    /\ IF program = "memgen"      THEN MemGenNext  ELSE UNCHANGED memgenVars
    /\ IF program = "helpers"     THEN SearchNext  ELSE UNCHANGED searchVars
    /\ IF program = "read_int"    THEN ReadIntNext ELSE UNCHANGED readVars
    /\ IF program = "array_sort"  THEN SortNext    ELSE UNCHANGED sortVars
    /\ IF program = "run_transpose" THEN TransposeNext ELSE UNCHANGED transposeVars

\* The fairness of each program, for its own steps.
MCFairness ==
    /\ WF_vars(program = "tic_tac_toe" /\ Announce)
    /\ WF_shellVars(program = "shell" /\ ShellRuns)
    /\ WF_echoVars(program = "run_client" /\ ClientRuns)
    /\ WF_echoVars(program = "run_client" /\ Answer)

MCSpec == MCInit /\ [][MCNext]_programVars /\ MCFairness

-----------------------------------------------------------------------------
\* The coordinates of the board and one number beyond each end of them.
MCNumbers == -1 .. BOARD_DIM

\* Every text of up to five characters, ended by a newline or by the input.
MCNewline == "\n"
MCSpaces  == {" ", MCNewline}
MCTexts   == UNION {[1 .. n -> {"a", " "}] : n \in 0 .. 5}
MCLines   == {Append(t, MCNewline) : t \in MCTexts} \cup (MCTexts \ {<< >>})
MCStrings == {[k \in 1 .. n |-> "a"] : n \in 1 .. 5}

\* One word, one and a part of another, two: more words or fewer than asked for.
MCBytes == {<<1, 2, 3, 4>>, <<5, 6, 7, 8, 9>>, <<255, 0, 128, 1, 9, 8, 7, 6>>}

\* Linear programs whose optimum never changes, changes at once, later, at
\* the last step tried, after it, or to another of equal value.
Solution(v, a) == [value |-> v, amount |-> a]

MCModels == {
    {Solution(12, 0)},
    {Solution(12, 1), Solution(8, 2)},
    {Solution(12, 0), Solution(10, 1), Solution(5, 2)},
    {Solution(12, 0), Solution(12, 1)},
    {Solution(12, 0), Solution(2, 2)},
    {Solution(12, 1), Solution(3, 4), Solution(11, 0)}}

\* Lines that leave the buffer short, exactly full, or one and more over it.
InputLine(n, v, e) == [length |-> n, number |-> v, ended |-> e]

MCInputLines ==
    {InputLine(0, 0, TRUE), InputLine(1, 0, TRUE), InputLine(1, 7, TRUE),
     InputLine(3, 999, TRUE), InputLine(3, -99, TRUE), InputLine(4, 1234, TRUE),
     InputLine(4, 12, TRUE), InputLine(5, 12345, TRUE), InputLine(7, 0, TRUE),
     InputLine(8, 12345678, TRUE), InputLine(2, 42, FALSE), InputLine(4, 1234, FALSE),
     InputLine(6, 123456, FALSE)}

\* Sixteen addresses, and matrices that are not square: they start inside a
\* block, at its border, or next to each other, and compete for two lines.
MCLineParams == [num_index_bits |-> 1, num_offset_bits |-> 1]
MCParams     == {MCLineParams}

\* Byte n is n bytes from the start of memory.
MCAddress(n) == {k \in Positions(ADDR_BITS) : (n \div 2 ^ k) % 2 = 1}

-----------------------------------------------------------------------------
(***************************************************************************)
(* Every variable of every program stays in its range: among others no slot *)
(* of an array is written past its sentinel and no board loses a column.    *)
(***************************************************************************)
TypesOK ==
    /\ TypeOK /\ ShellTypeOK /\ EchoTypeOK /\ GameTypeOK
    /\ MemGenTypeOK /\ SearchTypeOK /\ ReadIntTypeOK /\ SortTypeOK /\ TransposeTypeOK

=============================================================================
