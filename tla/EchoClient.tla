----------------------------- MODULE EchoClient -----------------------------
(***************************************************************************)
(* main() of run_client.c with echo() of client.c, and the connection to a  *)
(* server.  The server's echo() is a stub in the source: Answer is what its *)
(* header promises, and Close and Reset are the ways a server may be lost.  *)
(* A line is a text and the part of it that is there: all of it with its    *)
(* newline, its whole text only, or no more than a piece of the text.  Only *)
(* the last line of a stream may be less than a whole line.                 *)
(***************************************************************************)
EXTENDS Integers, Sequences

CONSTANTS
    Texts,          \* the texts of lines
    MaxTyped        \* bound on the lines a user types

ASSUME EchoAssumption == MaxTyped \in Nat

VARIABLES
    client_at,              \* "open", "read", "send", "receive", "check" or "exited"
    send_line,              \* the line echo() has read
    unsent,                 \* it is in the buffer of socket_file
    eof_stdin, eof_socket,  \* the end-of-file indicators
    client_status,          \* the exit status, -1 if a signal ended the process
    typed, shown,           \* the lines read from stdin and written to stdout
    to_server, to_client,   \* the lines on their way
    connection              \* "up", "closed" by the server, or "reset"

eofVars     == <<eof_stdin, eof_socket>>
userVars    == <<typed, shown>>
clientVars  == <<client_at, send_line, unsent, eofVars, client_status, userVars>>
networkVars == <<to_server, to_client, connection>>
echoVars    == <<clientVars, networkVars>>

Line == [text : Texts, part : {"line", "text", "piece"}]

\* What a user types: the end of stdin may take the place of a newline.
TypedLine == [text : Texts, part : {"line", "text"}]

Whole(l) == l.part = "line"

\* The beginnings of a line that lack at least its newline.
Cuts(l) ==
    {c \in [text : {l.text}, part : {"text", "piece"}] : l.part = "piece" => c.part = "piece"}

EchoTypeOK ==
    /\ client_at \in {"open", "read", "send", "receive", "check", "exited"}
    /\ unsent \in BOOLEAN /\ eof_stdin \in BOOLEAN /\ eof_socket \in BOOLEAN
    /\ client_status \in {-1, 0, 1}
    /\ typed \in Seq(Line) /\ shown \in Seq(Line)
    /\ to_server \in Seq(Line) /\ to_client \in Seq(Line)
    /\ connection \in {"up", "closed", "reset"}
    /\ send_line \in Seq(Line)

EchoInit ==
    /\ client_at = "open" /\ send_line = << >> /\ unsent = FALSE
    /\ eof_stdin = FALSE /\ eof_socket = FALSE /\ client_status = 0
    /\ typed = << >> /\ shown = << >>
    /\ to_server = << >> /\ to_client = << >> /\ connection = "up"

-----------------------------------------------------------------------------
Exit(s) == client_at' = "exited" /\ client_status' = s

error_and_exit ==
    /\ Exit(1)
    /\ UNCHANGED <<send_line, unsent, eofVars, userVars, networkVars>>

get_socket_file ==
    /\ client_at = "open"
    /\ \/ /\ client_at' = "read"
          /\ UNCHANGED <<send_line, unsent, eofVars, client_status, userVars, networkVars>>
       \/ error_and_exit

\* Mutant: the line of an earlier call is sent again.
Type_Stale(l) ==
    /\ client_at = "read" /\ ~eof_stdin
    /\ send_line' = IF typed = << >> THEN <<l>> ELSE send_line
    /\ typed' = Append(typed, l)
    /\ eof_stdin' = ~Whole(l)
    /\ client_at' = "send"
    /\ UNCHANGED <<unsent, eof_socket, client_status, shown, networkVars>>

\* getline() on stdin.  A line without a newline is the last one.
Type(l) ==
    /\ client_at = "read" /\ ~eof_stdin
    /\ send_line' = <<l>>
    /\ typed' = Append(typed, l)
    /\ eof_stdin' = ~Whole(l)
    /\ client_at' = "send"
    /\ UNCHANGED <<unsent, eof_socket, client_status, shown, networkVars>>

\* getline() returns -1: at the end of stdin, or after an error.
TypeNothing ==
    /\ client_at = "read"
    /\ eof_stdin' \in {eof_stdin, TRUE}
    /\ client_at' = "check"
    /\ UNCHANGED <<send_line, unsent, eof_socket, client_status, userVars, networkVars>>

\* fputs() to the buffer of the stream.
Send ==
    /\ client_at = "send"
    /\ unsent' = TRUE
    /\ client_at' = "receive"
    /\ UNCHANGED <<send_line, eofVars, client_status, userVars, networkVars>>

\* fputs() of a line longer than the buffer writes to a lost connection: it
\* returns EOF, or SIGPIPE ends the process.
SendFails ==
    /\ client_at = "send" /\ connection # "up"
    /\ Exit(1) \/ Exit(-1)
    /\ UNCHANGED <<send_line, unsent, eofVars, userVars, networkVars>>

\* Mutant: the buffer is emptied and not written.
Flush_Drops ==
    /\ client_at = "receive" /\ unsent /\ connection # "reset"
    /\ unsent' = FALSE
    /\ UNCHANGED <<client_at, send_line, eofVars, client_status, userVars, networkVars>>

\* The stream writes its buffer when getline() turns it to reading.  A server
\* that has closed its end answers with a reset, which the read that follows
\* may meet, or still the clean end of the stream.
Flush ==
    /\ client_at = "receive" /\ unsent /\ connection # "reset"
    /\ unsent' = FALSE
    /\ to_server' = IF connection = "up" THEN to_server \o send_line ELSE << >>
    /\ connection' \in IF connection = "up" THEN {"up"} ELSE {"closed", "reset"}
    /\ UNCHANGED <<client_at, send_line, eofVars, client_status, userVars, to_client>>

\* The write fails, and getline() with it, or SIGPIPE ends the process.
FlushFails ==
    /\ client_at = "receive" /\ unsent /\ connection # "up"
    /\ unsent' = FALSE
    /\ (client_at' = "check" /\ UNCHANGED client_status) \/ Exit(-1)
    /\ UNCHANGED <<send_line, eofVars, userVars, networkVars>>

\* Mutant: the next line is read before the answer to the last has come.
Receive_Ahead ==
    /\ client_at = "receive" /\ ~unsent
    /\ shown' = shown \o to_client
    /\ to_client' = << >>
    /\ client_at' = "read"
    /\ UNCHANGED <<send_line, unsent, eofVars, client_status, typed,
                   to_server, connection>>

\* getline() on the socket.  Once the stream has ended or is broken it returns
\* what there is of a line, and at a clean end the indicator is set.
Receive ==
    /\ client_at = "receive" /\ ~unsent /\ to_client # << >>
    /\ shown' = Append(shown, Head(to_client))
    /\ to_client' = Tail(to_client)
    /\ eof_socket' = (eof_socket \/ (connection = "closed" /\ ~Whole(Head(to_client))))
    /\ client_at' = "read"
    /\ UNCHANGED <<send_line, unsent, eof_stdin, client_status, typed, to_server,
                   connection>>

ReceiveNothing ==
    /\ client_at = "receive" /\ ~unsent /\ to_client = << >> /\ connection # "up"
    /\ eof_socket' = (eof_socket \/ connection = "closed")
    /\ client_at' = "check"
    /\ UNCHANGED <<send_line, unsent, eof_stdin, client_status, userVars, networkVars>>

\* Mutant: any end of the loop is a success.
Check_Zero ==
    /\ client_at = "check"
    /\ Exit(0)
    /\ UNCHANGED <<send_line, unsent, eofVars, userVars, networkVars>>

\* The loop of main() is over: an error unless one of the streams ended.
Check ==
    /\ client_at = "check"
    /\ Exit(IF ~eof_stdin /\ ~eof_socket THEN 1 ELSE 0)
    /\ UNCHANGED <<send_line, unsent, eofVars, userVars, networkVars>>

-----------------------------------------------------------------------------
\* The server returns a line once it has all of it.
Answer ==
    /\ connection = "up" /\ to_server # << >> /\ Whole(Head(to_server))
    /\ to_client' = Append(to_client, Head(to_server))
    /\ to_server' = Tail(to_server)
    /\ UNCHANGED <<clientVars, connection>>

\* Of the answers on their way a client gets any beginning.
LoseRest ==
    \E n \in 0 .. Len(to_client) :
        \/ to_client' = SubSeq(to_client, 1, n)
        \/ /\ n < Len(to_client)
           /\ \E l \in Cuts(to_client[n + 1]) :
                 to_client' = Append(SubSeq(to_client, 1, n), l)

\* The server ends, possibly in the middle of its answer.
Close ==
    /\ connection = "up"
    /\ connection' = "closed"
    /\ to_server' = << >> /\ LoseRest
    /\ UNCHANGED clientVars

Reset ==
    /\ connection # "reset"
    /\ connection' = "reset"
    /\ to_server' = << >> /\ LoseRest
    /\ UNCHANGED clientVars

-----------------------------------------------------------------------------
ClientExited == client_at = "exited" /\ UNCHANGED echoVars

ClientRuns ==
    \/ get_socket_file \/ Send \/ SendFails \/ Flush \/ FlushFails
    \/ Receive \/ ReceiveNothing \/ Check

EchoNext ==
    \/ \E l \in TypedLine : Len(typed) < MaxTyped /\ Type(l)
    \/ TypeNothing \/ ClientRuns
    \/ Answer \/ Close \/ Reset
    \/ ClientExited

\* The client runs when it need not wait for its user, and a server that is
\* up answers.
EchoSpec ==
    /\ EchoInit /\ [][EchoNext]_echoVars
    /\ WF_echoVars(ClientRuns) /\ WF_echoVars(Answer)

-----------------------------------------------------------------------------
(***************************************************************************)
(* What is shown is what was typed, in order: no line is lost before a      *)
(* later one, doubled or changed.  Only when the server is lost may a line  *)
(* be shown in part, its text cut anywhere, and then it is the last         *)
(* (client.c:22-43).                                                        *)
(***************************************************************************)
ShowsWhatWasTyped ==
    /\ Len(shown) <= Len(typed)
    /\ \A k \in 1 .. Len(shown) :
          \/ shown[k] = typed[k]
          \/ shown[k] \in Cuts(typed[k]) /\ k = Len(shown) /\ connection # "up"

(***************************************************************************)
(* The stream of the socket is read and written in turn, which C allows     *)
(* only while nothing is left to read: when echo() writes a line, every     *)
(* earlier one has been answered and nothing is on its way, and while it    *)
(* waits at most one line is (client.c:30 and 37).                          *)
(***************************************************************************)
OneLineInFlight ==
    /\ client_at \in {"open", "read", "send"} =>
          to_server = << >> /\ to_client = << >> /\ ~unsent
    /\ client_at = "receive" =>
          /\ Len(to_server) + Len(to_client) + (IF unsent THEN 1 ELSE 0) <= 1
          /\ Len(typed) = Len(shown) + 1

(***************************************************************************)
(* A client that ends with status 0 has shown every line whole, unless the  *)
(* server was lost and feof() excuses it (run_client.c:32-36).  An end of   *)
(* the server's stream does.  After a reset the end of stdin does, so that  *)
(* an error goes untold: only if it cut the last answer, and stdin ended    *)
(* after it, or if the line that was lost had no newline.                   *)
(***************************************************************************)
SuccessMeansEchoed ==
    client_at = "exited" /\ client_status = 0 /\ shown # typed =>
        /\ connection # "up"
        /\ \/ eof_socket
           \/ eof_stdin /\ Len(shown) = Len(typed)
           \/ eof_stdin /\ ~Whole(typed[Len(typed)])

(***************************************************************************)
(* A line with its newline is answered, or the client ends.  One without    *)
(* makes client and server wait for each other (client.c:37, server.h:77).  *)
(***************************************************************************)
BothWait ==
    /\ client_at = "receive" /\ connection = "up"
    /\ \E k \in DOMAIN send_line : ~Whole(send_line[k])

LinesAreAnswered == client_at = "send" ~> client_at \in {"read", "exited"} \/ BothWait

=============================================================================
