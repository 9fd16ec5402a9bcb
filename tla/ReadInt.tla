------------------------------- MODULE ReadInt -------------------------------
(***************************************************************************)
(* read_int() of read_int_correct.c, called again and again on one stdin.   *)
(* A line is its length, the number strtol() makes of it (0 if there is     *)
(* none), and whether a newline ends it: the last one may lack it.          *)
(***************************************************************************)
EXTENDS Integers

CONSTANTS
    BUFFER_SIZE,
    InputLines      \* the lines a user may type

ASSUME ReadIntAssumption ==
    /\ BUFFER_SIZE \in Nat \ {0, 1}
    /\ InputLines \subseteq [length : Nat, number : Int, ended : BOOLEAN]
    /\ \A l \in InputLines :
          /\ l.length <= 3 => l.number > -100 /\ l.number < 1000
          /\ ~l.ended => l.length > 0

VARIABLES
    reader_at,     \* "caller" or "flush"
    eof,           \* no more input follows
    current_line,  \* the line being read, or the last one read
    unread,        \* how many of its characters, the newline included, are unread
    returned, output

readVars == <<reader_at, eof, current_line, unread, returned, output>>

LineNumbers == {l.number : l \in InputLines}

NoLine == [length |-> 0, number |-> 0, ended |-> TRUE]

ReadIntTypeOK ==
    /\ reader_at \in {"caller", "flush"} /\ eof \in BOOLEAN
    /\ current_line \in InputLines \cup {NoLine}
    /\ unread \in 0 .. current_line.length + 1
    /\ returned \in {0, 1} /\ output \in LineNumbers \cup {0}

ReadIntInit ==
    /\ reader_at = "caller" /\ eof = FALSE
    /\ current_line = NoLine /\ unread = 0
    /\ returned = 0 /\ output = 0

-----------------------------------------------------------------------------
\* The characters of a line, its newline included.
Characters(l) == l.length + (IF l.ended THEN 1 ELSE 0)

\* What fgets() takes of the unread characters of a line.
Fgets(n) == IF n < BUFFER_SIZE - 1 THEN n ELSE BUFFER_SIZE - 1

\* The last line of read_int().
Accepts(number) == number # 0 /\ number > -100 /\ number < 1000

\* Mutant: a line that the buffer cuts is taken for its beginning.
ReadInput_Cut(l) ==
    /\ reader_at = "caller" /\ ~eof
    /\ current_line' = l
    /\ unread' = Characters(l) - Fgets(Characters(l))
    /\ eof' = ~l.ended
    /\ returned' = IF Accepts(l.number) THEN 1 ELSE 0
    /\ output' = l.number
    /\ UNCHANGED reader_at

\* A call that finds a line: its newline is in the buffer if all of it is.
ReadInput(l) ==
    /\ reader_at = "caller" /\ ~eof
    /\ current_line' = l
    /\ unread' = Characters(l) - Fgets(Characters(l))
    /\ eof' = ~l.ended
    /\ IF unread' = 0 /\ l.ended
       THEN /\ output' = l.number
            /\ returned' = IF Accepts(l.number) THEN 1 ELSE 0
            /\ UNCHANGED reader_at
       ELSE reader_at' = "flush" /\ UNCHANGED <<returned, output>>

EndOfInput ==
    /\ reader_at = "caller" /\ ~eof
    /\ eof' = TRUE
    /\ UNCHANGED <<reader_at, current_line, unread, returned, output>>

\* A call at the end of the input: fgets() leaves the buffer as it is, which
\* holds what the stack held, an earlier line for one.
ReadNothing ==
    /\ reader_at = "caller" /\ eof
    /\ \/ /\ output' \in LineNumbers \cup {0}
          /\ returned' = IF Accepts(output') THEN 1 ELSE 0
          /\ UNCHANGED reader_at
       \/ reader_at' = "flush" /\ UNCHANGED <<returned, output>>
    /\ current_line' = NoLine
    /\ UNCHANGED <<eof, unread>>

\* One round of flush_input_line().
FlushRound ==
    /\ reader_at = "flush" /\ unread > 0
    /\ unread' = unread - Fgets(unread)
    /\ IF unread' = 0 /\ current_line.ended
       THEN reader_at' = "caller" /\ returned' = 0 ELSE UNCHANGED <<reader_at, returned>>
    /\ UNCHANGED <<eof, current_line, output>>

\* A round at the end of the input leaves the buffer as it is: it holds the
\* end of the last line, or what the stack held, and only that may be a newline.
FlushNothing ==
    /\ reader_at = "flush" /\ unread = 0
    /\ \/ UNCHANGED reader_at
       \/ Characters(current_line) < BUFFER_SIZE /\ reader_at' = "caller"
    /\ returned' = IF reader_at' = "caller" THEN 0 ELSE returned
    /\ UNCHANGED <<eof, current_line, unread, output>>

ReadIntNext ==
    \/ \E l \in InputLines : ReadInput(l)
    \/ EndOfInput \/ ReadNothing \/ FlushRound \/ FlushNothing

ReadIntSpec == ReadIntInit /\ [][ReadIntNext]_readVars

-----------------------------------------------------------------------------
(***************************************************************************)
(* Each call takes exactly one line, whatever its length is to the size of  *)
(* the buffer, so that what is left of a long one is never taken for the    *)
(* next number, and a number is accepted if and only if it is at most three *)
(* characters long and not 0 (read_int.h:8-14, read_int_correct.c:14-28).   *)
(***************************************************************************)
ReadsOneLine ==
    reader_at = "caller" =>
        /\ unread = 0
        /\ ~eof => (returned = 1 <=> current_line.length <= 3 /\ current_line.number # 0)

=============================================================================
