---------------------------- MODULE ProgramsProofs ----------------------------
(***************************************************************************)
(* The programs side by side: a step of their composition is a step of the  *)
(* one that runs and none of the others, so that what is proved of each     *)
(* alone holds of all of them together.                                     *)
(***************************************************************************)
EXTENDS MCPrograms, GameProofs, StringArrayProofs, ComponentProofs, CacheProofs

\* Every program is at its start, whichever will run.
LEMMA ProgramsStart ==
    MCInit => /\ Init /\ ShellInit /\ EchoInit /\ GameInit /\ MemGenInit /\ SearchInit
              /\ ReadIntInit /\ SortInit /\ TransposeInit
  BY Zenon DEF MCInit

\* Every program takes a step of its own or none.
LEMMA ProgramsStep ==
    [MCNext]_programVars =>
        /\ [Next]_vars /\ [EchoNext]_echoVars /\ [GameNext]_boardVars
        /\ [MemGenNext]_memgenVars /\ [SearchNext]_searchVars /\ [ReadIntNext]_readVars
        /\ [SortNext]_sortVars /\ [TransposeNext]_transposeVars
<1> SUFFICES ASSUME [MCNext]_programVars
             PROVE  /\ [Next]_vars /\ [EchoNext]_echoVars /\ [GameNext]_boardVars
                    /\ [MemGenNext]_memgenVars /\ [SearchNext]_searchVars
                    /\ [ReadIntNext]_readVars /\ [SortNext]_sortVars
                    /\ [TransposeNext]_transposeVars
  OBVIOUS
<1>1. CASE MCNext
  BY <1>1, Zenon DEF MCNext
<1>2. CASE UNCHANGED programVars
  <2>1. /\ vars' = vars /\ echoVars' = echoVars /\ boardVars' = boardVars
        /\ memgenVars' = memgenVars /\ searchVars' = searchVars /\ readVars' = readVars
        /\ sortVars' = sortVars /\ transposeVars' = transposeVars
    BY <1>2, Zenon DEF programVars
  <2>2. QED
    BY <2>1, Zenon
<1>3. QED
  BY <1>1, <1>2, Zenon

(***************************************************************************)
(* The array is the library's, in the hands of any client, or the shell's;  *)
(* the shell that does not run waits for its first line.                    *)
(***************************************************************************)
ArraysInv ==
    IF program = "shell" THEN ShellInv ELSE ArrayInv /\ ShellTypeOK /\ shell_at = "loop"

\* At the start the array is empty and the shell waits, whichever program runs.
LEMMA ArraysStart == MCInit => ArraysInv
<1> SUFFICES ASSUME MCInit
             PROVE  ArraysInv
  OBVIOUS
<1>1. ShellInit
  BY ProgramsStart
<1>2. ShellInv
  BY <1>1, ShellStarts
<1>3. ArrayInv /\ ShellTypeOK /\ shell_at = "loop"
  BY <1>1, <1>2, Zenon DEF ShellInv, ShellInit
<1>4. QED
  BY <1>2, <1>3, Zenon DEF ArraysInv

\* The invariant is kept, and the array is changed by its calls alone.
LEMMA ArraysStep ==
    ArraysInv /\ [MCNext]_programVars => ArraysInv' /\ [LibraryCall]_arrayVars
<1> SUFFICES ASSUME ArraysInv, [MCNext]_programVars
             PROVE  ArraysInv' /\ [LibraryCall]_arrayVars
  OBVIOUS
<1>1. program' = program /\ (Arrays \/ UNCHANGED shellVars)
  BY Zenon DEF MCNext, programVars
<1>2. CASE program = "shell"
  <2>1. ShellInv /\ [ShellNext]_shellVars
    <3>1. Arrays => ShellNext
      BY <1>2, Zenon DEF Arrays
    <3>2. QED
      BY <1>1, <1>2, <3>1, Zenon DEF ArraysInv
  <2>2. ShellInv' /\ [LibraryCall]_arrayVars
    BY <2>1, ShellStep, ShellCalls
  <2>3. QED
    BY <1>1, <1>2, <2>2, Zenon DEF ArraysInv
<1>3. CASE program # "shell"
  <2>1. ArrayInv /\ ShellTypeOK /\ shell_at = "loop"
    BY <1>3, Zenon DEF ArraysInv
  <2>2. [ArrayNext]_arrayVars /\ UNCHANGED <<shell_at, feof, scanVars>>
    <3>1. CASE UNCHANGED shellVars
      BY <3>1 DEF shellVars
    <3>2. CASE Arrays /\ program = "string_array"
      BY <3>2, Zenon DEF Arrays
    <3>3. CASE Arrays /\ program # "string_array"
      <4>1. UNCHANGED shellVars
        BY <1>3, <3>3, Zenon DEF Arrays
      <4>2. QED
        BY <4>1 DEF shellVars
    <3>4. QED
      BY <1>1, <3>1, <3>2, <3>3, Zenon
  <2>3. ArrayInv' /\ [LibraryCall]_arrayVars
    BY <2>1, <2>2, ArraySteps, ArrayNextCalls
  <2>4. ShellTypeOK'
    BY <2>1, <2>2, <2>3 DEF ShellTypeOK, ArrayInv, scanVars
  <2>5. QED
    BY <1>1, <1>3, <2>1, <2>2, <2>3, <2>4, Zenon DEF ArraysInv
<1>4. QED
  BY <1>2, <1>3

\* The invariants of the arrays, and of the other programs with fairness.
LEMMA ArraysInvariant == MCSpec => []ArraysInv
  BY ArraysStart, ArraysStep, PTL DEF MCSpec

\* The invariant of tic-tac-toe, its moves made or not.
LEMMA TicTacToeInvariant == MCSpec => []Inv
<1>1. MCInit => Inv
  BY ProgramsStart, InitInv
<1>2. Inv /\ [MCNext]_programVars => Inv'
  BY ProgramsStep, InvStep
<1>3. QED
  BY <1>1, <1>2, PTL DEF MCSpec

\* The invariant of the echo client.
LEMMA ClientInvariant == MCSpec => []EchoInv
<1>1. MCInit => EchoInv
  BY ProgramsStart, EchoStarts
<1>2. EchoInv /\ [MCNext]_programVars => EchoInv'
  BY ProgramsStep, EchoSteps
<1>3. QED
  BY <1>1, <1>2, PTL DEF MCSpec

\* The programs without fairness, each by its specification.
LEMMA EachProgram ==
    MCSpec => /\ GameSpec /\ MemGenSpec /\ SearchSpec /\ ReadIntSpec /\ SortSpec
              /\ TransposeSpec
  BY ProgramsStart, ProgramsStep, PTL
  DEF MCSpec, GameSpec, MemGenSpec, SearchSpec, ReadIntSpec, SortSpec, TransposeSpec

(***************************************************************************)
(* Whichever program runs, for every size of its data, every variable stays *)
(* in its range: among others no slot of an array is written past its       *)
(* sentinel (string_array.c) and no board loses a column (game.py).         *)
(***************************************************************************)
THEOREM TypesHold == MCSpec => []TypesOK
<1>1. Inv => TypeOK
  BY DEF Inv
<1>2. ArraysInv => ShellTypeOK
  BY DEF ArraysInv, ShellInv
<1>3. EchoInv => EchoTypeOK
  BY DEF EchoInv
<1>4. MemGenInv => MemGenTypeOK
  BY DEF MemGenInv
<1>5. SearchInv => SearchTypeOK
  BY DEF SearchInv
<1>6. ReadIntInv => ReadIntTypeOK
  BY DEF ReadIntInv
<1>7. SortInv => SortTypeOK
  BY DEF SortInv
<1>8. QED
  BY <1>1, <1>2, <1>3, <1>4, <1>5, <1>6, <1>7, TicTacToeInvariant, ArraysInvariant,
     ClientInvariant, EachProgram, GameTypeCorrect, MemGenInvariant, SearchInvariant,
     ReadIntInvariant, SortInvariant, TransposeTypes, PTL DEF TypesOK

(***************************************************************************)
(* Nor is anything else lost when one of them runs, for every size: the     *)
(* game's winner (tic_tac_toe.c), the strings of the array and the words of *)
(* the shell's line (string_array.c, shell.c), the lines of the echo client *)
(* (client.c), the tiles of 2048 (game.py), the bracket of the increase     *)
(* (helpers.py), the numbers that are sorted (array_sort.c) and the matrix  *)
(* that is transposed (transpose.c).                                        *)
(***************************************************************************)
THEOREM ProgramsAreSafe ==
    MCSpec => [](/\ WinnerMovedLast /\ StringsAreKept /\ TokensAreEndedWords
                 /\ ShowsWhatWasTyped /\ OneLineInFlight /\ SuccessMeansEchoed
                 /\ TilesAccounted /\ SlidesGreedily /\ OverMeansStuck
                 /\ BracketsIncrease /\ SortsNumbers /\ ReferenceTransposes)
<1>1. Inv => WinnerMovedLast
  BY DEF Inv
<1>2. ArraysInv => StringsAreKept /\ TokensAreEndedWords
  <2>1. ArraysInv => ArrayInv
    BY DEF ArraysInv, ShellInv
  <2>2. ArrayInv => StringsAreKept
    BY DEF ArrayInv, StringsAreKept
  <2>3. ArraysInv => TokensAreEndedWords
    <3>1. program # "shell" /\ ArraysInv => TokensAreEndedWords
      BY DEF ArraysInv, TokensAreEndedWords
    <3>2. program = "shell" /\ ArraysInv => TokensAreEndedWords
      BY SplitToTheEnd DEF ArraysInv
    <3>3. QED
      BY <3>1, <3>2
  <2>4. QED
    BY <2>1, <2>2, <2>3
<1>3. EchoInv => ShowsWhatWasTyped /\ OneLineInFlight /\ SuccessMeansEchoed
  BY AtMostOneLine, LossIsTold DEF EchoInv
<1>4. QED
  BY <1>1, <1>2, <1>3, TicTacToeInvariant, ArraysInvariant, ClientInvariant, EachProgram,
     TilesAccountedHolds, SlidesGreedilyHolds, OverMeansStuckHolds, BracketsIncreaseHolds,
     SortsNumbersHolds, ReferenceTransposesHolds, PTL

(***************************************************************************)
(* With the buffer of read_int.h each call takes one line in the            *)
(* composition as well (read_int_correct.c:14-28).                          *)
(***************************************************************************)
THEOREM ProgramsReadLines ==
    ASSUME BUFFER_SIZE = 5
    PROVE  MCSpec => []ReadsOneLine
  BY EachProgram, ReadsOneLineHolds, PTL

(***************************************************************************)
(* memgen.py leaves no linker script behind and writes the image of its     *)
(* program, and the two libraries implement the game and the list of their  *)
(* headers, the list in the hands of any client and of the shell            *)
(* (tic_tac_toe.h, string_array.h).                                         *)
(***************************************************************************)
THEOREM ProgramsKeepPromises ==
    MCSpec => /\ SuccessLeavesImage /\ ScriptRemoved
              /\ Game!Safety /\ ImplementsStringList
<1>1. MCSpec => SuccessLeavesImage /\ ScriptRemoved
  BY EachProgram, SuccessLeavesImageHolds, ScriptRemovedHolds, PTL
<1>2. MCSpec => Game!Safety
  <2>1. MCInit => Game!Init
    BY ProgramsStart, LineGameInit
  <2>2. Inv /\ [MCNext]_programVars => [Game!Next]_(Game!vars)
    BY ProgramsStep, LineGameStep
  <2>3. QED
    BY <2>1, <2>2, TicTacToeInvariant, PTL DEF MCSpec, Game!Safety
<1>3. MCSpec => ImplementsStringList
  <2>1. MCInit => List!Init
    BY ProgramsStart, ListStarts DEF ShellInit
  <2>2. ArraysInv => ArrayInv
    BY DEF ArraysInv, ShellInv
  <2>3. ArraysInv /\ ArraysInv' /\ [MCNext]_programVars => [List!Next]_List!vars
    <3>1. (ArraysInv => ArrayInv)'
      BY <2>2, PTL
    <3>2. QED
      BY <2>2, <3>1, ArraysStep, ListStep
  <2>4. QED
    BY <2>1, <2>3, ArraysInvariant, PTL DEF MCSpec, ImplementsStringList, List!Spec
<1>4. QED
  BY <1>1, <1>2, <1>3, PTL

=============================================================================
