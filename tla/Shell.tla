-------------------------------- MODULE Shell --------------------------------
(***************************************************************************)
(* shell_loop() of softshell.c with read_line() and tokenize_line() of      *)
(* shell.c over the string array.  A line is a sequence of characters that  *)
(* ends with Newline unless the input ends first.  process_tokens(), run()  *)
(* and process_command() are stubs in the source: the first returns NULL.   *)
(***************************************************************************)
EXTENDS StringArray

CONSTANTS
    Lines,                      \* the lines getline() may return, none of them empty
    Newline,
    Spaces,                     \* the characters isspace() accepts
    INITIAL_TOKENS_CAPACITY

ASSUME ShellAssumption ==
    /\ Lines \subseteq Seq(UNION {{l[k] : k \in DOMAIN l} : l \in Lines}) \ {<< >>}
    /\ Newline \in Spaces
    /\ \A l \in Lines : \A first, last \in DOMAIN l :
          first <= last /\ (\A k \in first .. last : l[k] \notin Spaces) =>
              SubSeq(l, first, last) \in Strings
    /\ INITIAL_TOKENS_CAPACITY \in Nat

VARIABLES
    shell_at,   \* "loop", "scan", "process", "free_command", "exited" or "crashed"
    feof,       \* the end-of-file indicator of stdin
    line, pos,  \* the line and the position of current_pos in it
    token_start, token_size

scanVars  == <<line, pos, token_start, token_size>>
shellVars == <<arrayVars, shell_at, feof, scanVars>>

isspace(c) == c \in Spaces

Token == SubSeq(line, token_start, token_start + token_size - 1)

ShellTypeOK ==
    /\ ArrayTypeOK
    /\ shell_at \in {"loop", "scan", "process", "free_command", "exited", "crashed"}
    /\ feof \in BOOLEAN
    /\ line \in Lines \cup {<< >>}
    /\ pos \in 1 .. Len(line) + 1
    /\ token_start \in 1 .. pos /\ token_size \in 0 .. pos - token_start

ShellInit ==
    /\ ArrayInit
    /\ shell_at = "loop" /\ feof = FALSE
    /\ line = << >> /\ pos = 1 /\ token_start = 1 /\ token_size = 0

-----------------------------------------------------------------------------
\* The loop ends at the end of the input.
LeaveLoop ==
    /\ shell_at = "loop" /\ feof
    /\ shell_at' = "exited"
    /\ UNCHANGED <<arrayVars, feof, scanVars>>

\* read_line() and the start of tokenize_line().  A line without a newline
\* means that the end of the input was met.
ReadLine(l) ==
    /\ shell_at = "loop" /\ ~feof
    /\ feof' = (l[Len(l)] # Newline)
    /\ make_string_array(INITIAL_TOKENS_CAPACITY)
    /\ line' = l /\ pos' = 1 /\ token_start' = 1 /\ token_size' = 0
    /\ shell_at' = "scan"

\* read_line() returns NULL at the end of the input, which sets feof, or
\* after an error, which does not: the loop continues.
ReadNoLine ==
    /\ shell_at = "loop" /\ ~feof
    /\ feof' \in BOOLEAN
    /\ UNCHANGED <<arrayVars, shell_at, scanVars>>

\* Whitespace ends a token that has begun.
ScanSpace ==
    /\ isspace(line[pos])
    /\ IF token_size > 0 THEN add_string(Token) ELSE UNCHANGED arrayVars
    /\ token_size' = 0
    /\ UNCHANGED token_start

\* Mutant: the start of a token is not moved.
ScanOther_SameStart ==
    /\ ~isspace(line[pos])
    /\ token_size' = token_size + 1
    /\ UNCHANGED <<arrayVars, token_start>>

ScanOther ==
    /\ ~isspace(line[pos])
    /\ token_start' = IF token_size = 0 THEN pos ELSE token_start
    /\ token_size' = token_size + 1
    /\ UNCHANGED arrayVars

\* Mutant: the position stays on whitespace that ends no token.
Scan_Stays ==
    /\ shell_at = "scan" /\ pos <= Len(line)
    /\ ScanSpace \/ ScanOther
    /\ pos' = IF token_size = 0 /\ token_size' = 0 THEN pos ELSE pos + 1
    /\ UNCHANGED <<shell_at, feof, line>>

\* One round of the loop of tokenize_line().
Scan ==
    /\ shell_at = "scan" /\ pos <= Len(line)
    /\ ScanSpace \/ ScanOther
    /\ pos' = pos + 1
    /\ UNCHANGED <<shell_at, feof, line>>

\* tokenize_line() returns what it has; the stubs do nothing.
EndScan ==
    /\ shell_at = "scan" /\ pos > Len(line)
    /\ shell_at' = "process"
    /\ UNCHANGED <<arrayVars, feof, scanVars>>

Clean ==
    /\ shell_at = "process"
    /\ free_string_array
    /\ line' = << >> /\ pos' = 1 /\ token_start' = 1 /\ token_size' = 0
    /\ shell_at' = "free_command"
    /\ UNCHANGED feof

\* free_command(NULL) reads the tokens of the NULL that process_tokens()
\* returned.
FreeNoCommand ==
    /\ shell_at = "free_command"
    /\ shell_at' = "crashed"
    /\ UNCHANGED <<arrayVars, feof, scanVars>>

Ended == shell_at \in {"exited", "crashed"} /\ UNCHANGED shellVars

ShellRuns == LeaveLoop \/ Scan \/ EndScan \/ Clean \/ FreeNoCommand

ShellNext == (\E l \in Lines : ReadLine(l)) \/ ReadNoLine \/ ShellRuns \/ Ended

\* The process runs on when it needs no input.
ShellSpec == ShellInit /\ [][ShellNext]_shellVars /\ WF_shellVars(ShellRuns)

-----------------------------------------------------------------------------
Tokens == [k \in 1 .. size |-> heap[strings[k - 1]]]

\* The positions at which the words of a line end, the last one included if
\* nothing follows it.
WordEnds ==
    {j \in 1 .. Len(line) :
        ~isspace(line[j]) /\ (j = Len(line) \/ isspace(line[j + 1]))}

Word(j) ==
    LET starts == {i \in 1 .. j : \A k \in i .. j : ~isspace(line[k])}
    IN  SubSeq(line, CHOOSE i \in starts : \A k \in starts : i <= k, j)

\* The tokens are the words that end at the given positions, in order.
TokensAre(ends) ==
    /\ size = Cardinality(ends)
    /\ \A j \in ends : Tokens[Cardinality({i \in ends : i <= j})] = Word(j)

(***************************************************************************)
(* tokenize_line() returns the words of the line that whitespace follows,   *)
(* each once and in order, whatever whitespace is around them and however   *)
(* often the array grows (shell.c:83-105).                                  *)
(***************************************************************************)
TokensAreEndedWords ==
    shell_at = "process" => TokensAre(WordEnds \ {Len(line)})

(***************************************************************************)
(* shell.h:68-69: "split a string by whitespace into tokens".               *)
(***************************************************************************)
TokensAreWords == shell_at = "process" => TokensAre(WordEnds)

(***************************************************************************)
(* A line that has been read is scanned to its end and its tokens are       *)
(* freed, and at the end of the input the loop ends; only a read error may  *)
(* keep it prompting for ever (softshell.c:16-30, shell.c:83-105).          *)
(***************************************************************************)
LinesAreWorkedOff ==
    /\ shell_at = "scan" ~> (shell_at = "free_command" /\ ~made)
    /\ (shell_at = "loop" /\ feof) ~> shell_at = "exited"

(***************************************************************************)
(* shell.h:86-87: "Create a new command struct to represent these items and *)
(* return this struct to the user."  The loop can free what it is given.    *)
(***************************************************************************)
CommandsAreMade == shell_at # "crashed"

=============================================================================
