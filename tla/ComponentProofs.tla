--------------------------- MODULE ComponentProofs ---------------------------
(***************************************************************************)
(* The components whose theorems are few: the echo client, the reader of    *)
(* numbers, the helper for linear programs, the image tool, the hue wheel,  *)
(* the two generators, and the sorts of arrays.                             *)
(***************************************************************************)
EXTENDS EchoClient, ReadInt, AllowableIncrease, MemGen, HsvWheel, SineGenerator,
        FunctionGenerator, SortArray, SequenceTheorems, TLAPS

-----------------------------------------------------------------------------
(***************************************************************************)
(* The echo client, for any texts and any number of lines.  EchoInv follows *)
(* the line that echo() is working on from stdin through both queues: there *)
(* is at most one, it is the last that was typed, and all before it have    *)
(* been shown.  What is shown in part is the last that ever is, because the *)
(* server it came from is lost and nothing is left to come.                 *)
(***************************************************************************)
Last == typed[Len(typed)]

\* Nothing of the conversation is on its way.
Idle == to_server = << >> /\ to_client = << >> /\ ~unsent

\* The last line typed is the only one that is not shown.
Pending ==
    /\ Len(typed) = Len(shown) + 1
    /\ send_line = <<Last>>
    /\ eof_stdin => ~Whole(Last)

\* It is at most in one place, and only the loss of the server cuts it.
OnItsWay ==
    \/ to_server = << >> /\ to_client = << >>
    \/ ~unsent /\ to_server = <<Last>> /\ to_client = << >>
    \/ ~unsent /\ to_server = << >> /\ to_client = <<Last>>
    \/ /\ ~unsent /\ to_server = << >> /\ connection # "up"
       /\ \E l \in Cuts(Last) : to_client = <<l>>

\* A line that will not be shown has met a lost connection.
LostIfMissing ==
    Len(shown) < Len(typed) => connection # "up" /\ (eof_stdin => ~Whole(Last))

ClientInv ==
    /\ client_at \in {"open", "read"} => Idle /\ Len(typed) = Len(shown)
    /\ client_at = "send" => Idle /\ Pending
    /\ client_at = "receive" => Pending /\ OnItsWay
    /\ client_at = "check" => LostIfMissing
    /\ client_at = "exited" /\ client_status = 0 =>
          LostIfMissing /\ (eof_stdin \/ eof_socket)

\* The last line shown is not all of the line typed.
ShownInPart == Len(shown) > 0 /\ shown[Len(shown)] # typed[Len(shown)]

\* A lost server takes what it was sent, and sends no more.
LossInv ==
    /\ connection # "up" => to_server = << >>
    /\ ShownInPart => connection # "up" /\ to_client = << >>

EchoInv == EchoTypeOK /\ ShowsWhatWasTyped /\ ClientInv /\ LossInv

-----------------------------------------------------------------------------
\* What is left of a line is a line without its newline, and so is what is
\* left of that (getline() at the end of a stream).
LEMMA CutsAreLines ==
    ASSUME NEW l \in Line, NEW c \in Cuts(l)
    PROVE  c \in Line /\ ~Whole(c) /\ Cuts(c) \subseteq Cuts(l)
BY DEF Line, Cuts, Whole

\* A queue of one line.
LEMMA OneLine ==
    ASSUME NEW l \in Line
    PROVE  /\ Head(<<l>>) = l /\ Tail(<<l>>) = << >>
           /\ Append(<< >>, l) = <<l>> /\ <<l>> # << >> /\ <<l>> \in Seq(Line)
           /\ SubSeq(<<l>>, 1, 0) = << >> /\ SubSeq(<<l>>, 1, 1) = <<l>>
<1>1. /\ Head(<<l>>) = l /\ Tail(<<l>>) = << >>
      /\ Append(<< >>, l) = <<l>> /\ <<l>> # << >> /\ <<l>> \in Seq(Line)
  OBVIOUS
<1>2. SubSeq(<<l>>, 1, 0) = << >>
  OBVIOUS
<1>3. SubSeq(<<l>>, 1, 1) = <<l>>
  <2>1. SubSeq(<<l>>, 1, Len(<<l>>)) = <<l>>
    BY <1>1, SubSeqFull, Zenon
  <2>2. Len(<<l>>) = 1
    OBVIOUS
  <2> QED BY <2>1, <2>2, Zenon
<1> QED BY <1>1, <1>2, <1>3, Zenon

\* What the client gets of the answers on their way when the server is lost.
LEMMA RestLost ==
    ASSUME to_client \in Seq(Line), LoseRest
    PROVE  /\ to_client' \in Seq(Line)
           /\ to_client = << >> => to_client' = << >>
           /\ \A l \in Line : to_client = <<l>> =>
                 \/ to_client' = << >> \/ to_client' = <<l>>
                 \/ \E c \in Cuts(l) : to_client' = <<c>>
<1>1. PICK n \in 0 .. Len(to_client) :
        \/ to_client' = SubSeq(to_client, 1, n)
        \/ /\ n < Len(to_client)
           /\ \E l \in Cuts(to_client[n + 1]) : to_client' = Append(SubSeq(to_client, 1, n), l)
  BY Zenon DEF LoseRest
<1>2. SubSeq(to_client, 1, n) \in Seq(Line)
  OBVIOUS
<1>3. CASE to_client' = SubSeq(to_client, 1, n)
  <2>1. ASSUME to_client = << >> PROVE to_client' = << >>
    BY <1>3, <2>1
  <2>2. ASSUME NEW l \in Line, to_client = <<l>> PROVE to_client' \in {<< >>, <<l>>}
    <3>1. n = 0 \/ n = 1
      BY <2>2
    <3> QED BY <1>3, <2>2, <3>1, OneLine
  <2> QED BY <1>2, <1>3, <2>1, <2>2
<1>4. ASSUME n < Len(to_client), NEW c \in Cuts(to_client[n + 1]),
             to_client' = Append(SubSeq(to_client, 1, n), c)
      PROVE  /\ to_client' \in Seq(Line)
             /\ to_client # << >>
             /\ \A l \in Line : to_client = <<l>> => c \in Cuts(l) /\ to_client' = <<c>>
  <2>1. to_client[n + 1] \in Line /\ to_client # << >>
    BY <1>4
  <2>2. c \in Line
    BY <2>1, CutsAreLines
  <2>3. ASSUME NEW l \in Line, to_client = <<l>> PROVE c \in Cuts(l) /\ to_client' = <<c>>
    <3>1. n = 0 /\ to_client[n + 1] = l
      BY <1>4, <2>3
    <3>2. to_client' = Append(<< >>, c)
      BY <1>4, <2>3, <3>1, OneLine
    <3>3. Append(<< >>, c) = <<c>>
      BY <2>2, OneLine
    <3> QED BY <1>4, <3>1, <3>2, <3>3, Zenon
  <2> QED BY <1>2, <1>4, <2>1, <2>2, <2>3
<1> QED BY <1>1, <1>3, <1>4

\* The last line typed is a line.
LEMMA LastIsLine ==
    ASSUME typed \in Seq(Line), Len(typed) > 0
    PROVE  Last \in Line
BY DEF Last

\* Appending to what was typed keeps the lines before, and the new one is last.
LEMMA AppendLast ==
    ASSUME NEW s \in Seq(Line), NEW l \in Line
    PROVE  /\ Append(s, l) \in Seq(Line)
           /\ Len(Append(s, l)) = Len(s) + 1
           /\ Append(s, l)[Len(s) + 1] = l
           /\ \A k \in 1 .. Len(s) : Append(s, l)[k] = s[k]
OBVIOUS

-----------------------------------------------------------------------------
\* The client starts with nothing typed and nothing on its way (run_client.c:9-27).
LEMMA EchoStarts == EchoInit => EchoInv
<1> SUFFICES ASSUME EchoInit PROVE EchoInv
  OBVIOUS
<1>1. EchoTypeOK
  <2>1. << >> \in Seq(Line)
    OBVIOUS
  <2>2. client_status \in {-1, 0, 1}
    BY DEF EchoInit
  <2> QED BY <2>1, <2>2 DEF EchoInit, EchoTypeOK
<1>2. ShowsWhatWasTyped
  BY DEF EchoInit, ShowsWhatWasTyped
<1>3. ClientInv /\ LossInv
  BY DEF EchoInit, ClientInv, Idle, LossInv, ShownInPart
<1> QED BY <1>1, <1>2, <1>3 DEF EchoInv

-----------------------------------------------------------------------------
\* The variables of the client or of the network, one by one.
LEMMA TypesStep == EchoInv /\ EchoNext => EchoTypeOK'
<1> SUFFICES ASSUME EchoTypeOK, EchoNext PROVE EchoTypeOK'
  BY DEF EchoInv
<1> USE DEF EchoTypeOK, clientVars, networkVars, eofVars, userVars
<1>1. CASE get_socket_file
  BY <1>1 DEF get_socket_file, error_and_exit, Exit
<1>2. ASSUME NEW l \in TypedLine, Type(l) PROVE EchoTypeOK'
  <2>1. typed' \in Seq(Line) /\ send_line' \in Seq(Line)
    BY <1>2 DEF Type, TypedLine, Line
  <2>2. eof_stdin' \in BOOLEAN
    BY <1>2 DEF Type
  <2> QED BY <1>2, <2>1, <2>2 DEF Type
<1>3. CASE TypeNothing
  BY <1>3 DEF TypeNothing
<1>4. CASE Send
  BY <1>4 DEF Send
<1>5. CASE SendFails
  BY <1>5 DEF SendFails, Exit
<1>6. CASE Flush
  <2>1. to_server \o send_line \in Seq(Line) /\ << >> \in Seq(Line)
    OBVIOUS
  <2>2. to_server' \in Seq(Line)
    BY <1>6, <2>1 DEF Flush
  <2>3. connection' \in {"up", "closed", "reset"}
    BY <1>6 DEF Flush
  <2> QED BY <1>6, <2>2, <2>3 DEF Flush
<1>7. CASE FlushFails
  BY <1>7 DEF FlushFails, Exit
<1>8. CASE Receive
  <2>1. Head(to_client) \in Line /\ Tail(to_client) \in Seq(Line)
    BY <1>8 DEF Receive
  <2>2. shown' \in Seq(Line) /\ to_client' \in Seq(Line)
    BY <1>8, <2>1, AppendLast DEF Receive
  <2>3. eof_socket' \in BOOLEAN
    BY <1>8 DEF Receive
  <2> QED BY <1>8, <2>2, <2>3 DEF Receive
<1>9. CASE ReceiveNothing
  BY <1>9 DEF ReceiveNothing
<1>10. CASE Check
  BY <1>10 DEF Check, Exit
<1>11. CASE Answer
  BY <1>11 DEF Answer
<1>12. CASE Close
  <2>1. to_server' \in Seq(Line) /\ to_client' \in Seq(Line)
    BY <1>12, RestLost DEF Close
  <2> QED BY <1>12, <2>1 DEF Close
<1>13. CASE Reset
  <2>1. to_server' \in Seq(Line) /\ to_client' \in Seq(Line)
    BY <1>13, RestLost DEF Reset
  <2> QED BY <1>13, <2>1 DEF Reset
<1>14. CASE ClientExited
  BY <1>14 DEF ClientExited, echoVars
<1> QED BY <1>1, <1>2, <1>3, <1>4, <1>5, <1>6, <1>7, <1>8, <1>9, <1>10, <1>11, <1>12, <1>13,
           <1>14 DEF EchoNext, ClientRuns

-----------------------------------------------------------------------------
\* What is typed and what is shown have lengths.
LEMMA Lengths ==
    ASSUME EchoTypeOK
    PROVE  Len(typed) \in Nat /\ Len(shown) \in Nat
BY DEF EchoTypeOK

\* getline() on stdin: the new line is the one that is pending (client.c:22-27).
LEMMA TypeStep ==
    ASSUME EchoInv, NEW l \in TypedLine, Type(l)
    PROVE  ShowsWhatWasTyped' /\ ClientInv' /\ LossInv'
<1> USE DEF EchoInv
<1>0. l \in Line
  BY DEF TypedLine, Line
<1>1. typed' = Append(typed, l) /\ shown' = shown /\ send_line' = <<l>>
      /\ client_at = "read" /\ client_at' = "send" /\ (eof_stdin' => ~Whole(l))
      /\ UNCHANGED networkVars /\ unsent' = unsent
  BY DEF Type, userVars
<1>2. typed \in Seq(Line) /\ Len(typed) = Len(shown) /\ Idle
  BY <1>1 DEF EchoTypeOK, ClientInv
<1>3. Len(typed') = Len(typed) + 1 /\ Last' = l
  BY <1>0, <1>1, <1>2, AppendLast DEF Last
<1>4. \A k \in 1 .. Len(shown) : typed'[k] = typed[k]
  BY <1>0, <1>1, <1>2, AppendLast
<1>5. ShowsWhatWasTyped'
  BY <1>1, <1>2, <1>3, <1>4, Lengths DEF ShowsWhatWasTyped, networkVars
<1>6. Idle' /\ LossInv'
  BY <1>1, <1>2, <1>4, Lengths DEF Idle, LossInv, ShownInPart, networkVars
<1>7. Pending'
  BY <1>1, <1>2, <1>3 DEF Pending
<1> QED BY <1>1, <1>5, <1>6, <1>7 DEF ClientInv

\* getline() on the socket: what came of the pending line is shown, and nothing
\* is left on its way (client.c:37-42).
LEMMA ReceiveStep ==
    ASSUME EchoInv, Receive
    PROVE  ShowsWhatWasTyped' /\ ClientInv' /\ LossInv'
<1> USE DEF EchoInv
<1>1. Pending /\ OnItsWay /\ to_client # << >> /\ ~unsent
  BY DEF Receive, ClientInv
<1>2. Len(typed) = Len(shown) + 1 /\ Last \in Line
  BY <1>1, Lengths, LastIsLine DEF Pending, EchoTypeOK
<1>3. PICK l \in Line : /\ to_server = << >> /\ to_client = <<l>>
                        /\ l = Last \/ (l \in Cuts(Last) /\ connection # "up")
  BY <1>1, <1>2, CutsAreLines DEF OnItsWay
<1>4. Head(to_client) = l /\ Tail(to_client) = << >>
  BY <1>3, OneLine
<1>5. /\ shown' = Append(shown, l) /\ to_client' = << >> /\ connection' = connection
      /\ client_at' = "read" /\ typed' = typed /\ to_server' = << >> /\ unsent' = unsent
  BY <1>3, <1>4 DEF Receive
<1>6. /\ Len(shown') = Len(typed) /\ shown'[Len(typed)] = l
      /\ \A k \in 1 .. Len(shown) : shown'[k] = shown[k]
  BY <1>2, <1>5, AppendLast DEF EchoTypeOK
<1>7. \A k \in 1 .. Len(shown) : shown[k] = typed[k]
  BY <1>1, Lengths DEF ShowsWhatWasTyped, LossInv, ShownInPart
<1>8. ShowsWhatWasTyped'
  <2>1. ASSUME NEW k \in 1 .. Len(shown'), k # Len(typed) PROVE shown'[k] = typed[k]
    <3>1. k \in 1 .. Len(shown)
      BY <1>2, <1>6, <2>1, Lengths
    <3> QED BY <1>6, <1>7, <3>1
  <2> QED BY <1>3, <1>5, <1>6, <2>1, Lengths DEF ShowsWhatWasTyped, Last
<1>9. LossInv'
  BY <1>3, <1>5, <1>6 DEF LossInv, ShownInPart, Last
<1> QED BY <1>1, <1>5, <1>6, <1>8, <1>9 DEF ClientInv, Idle

\* The steps of the client that read and show nothing.
LEMMA QuietStep ==
    ASSUME EchoInv, UNCHANGED userVars,
           get_socket_file \/ TypeNothing \/ Send \/ SendFails \/ Flush \/ FlushFails
             \/ ReceiveNothing \/ Check
    PROVE  ShowsWhatWasTyped' /\ ClientInv' /\ LossInv'
<1> USE DEF EchoInv, eofVars, userVars, networkVars
<1>0. /\ Last' = Last /\ Len(typed') = Len(typed) /\ Len(shown') = Len(shown)
      /\ ShownInPart' = ShownInPart
  BY DEF Last, ShownInPart
<1>1. CASE get_socket_file
  BY <1>0, <1>1 DEF get_socket_file, error_and_exit, Exit, ClientInv, Idle,
                    ShowsWhatWasTyped, LossInv
<1>2. CASE TypeNothing
  BY <1>0, <1>2, Lengths DEF TypeNothing, ClientInv, LostIfMissing, ShowsWhatWasTyped,
                             LossInv
<1>3. CASE Send
  BY <1>0, <1>3 DEF Send, ClientInv, Idle, Pending, OnItsWay, ShowsWhatWasTyped, LossInv
<1>4. CASE SendFails
  BY <1>0, <1>4 DEF SendFails, Exit, ClientInv, ShowsWhatWasTyped, LossInv
<1>5. CASE Flush
  <2>1. /\ client_at = "receive" /\ client_at' = client_at /\ unsent /\ ~unsent'
        /\ send_line' = send_line /\ eof_stdin' = eof_stdin /\ to_client' = to_client
        /\ connection = "up" <=> connection' = "up"
        /\ connection' = "up" \/ to_server' = << >>
    BY <1>5 DEF Flush
  <2>2. Pending /\ to_server = << >> /\ to_client = << >>
    BY <2>1 DEF ClientInv, OnItsWay
  <2>3. Last \in Line
    BY <2>2, Lengths, LastIsLine DEF Pending, EchoTypeOK
  <2>4. to_server' \in {<< >>, <<Last>>}
    BY <1>5, <2>2, <2>3 DEF Flush, Pending
  <2>5. Pending' /\ OnItsWay'
    BY <1>0, <2>1, <2>2, <2>4 DEF Pending, OnItsWay
  <2>6. ShowsWhatWasTyped' /\ LossInv'
    BY <1>0, <2>1, <2>2 DEF ShowsWhatWasTyped, LossInv
  <2> QED BY <2>1, <2>5, <2>6 DEF ClientInv
<1>6. CASE FlushFails
  BY <1>0, <1>6 DEF FlushFails, Exit, ClientInv, Pending, LostIfMissing, ShowsWhatWasTyped,
                    LossInv
<1>7. CASE ReceiveNothing
  BY <1>0, <1>7 DEF ReceiveNothing, ClientInv, Pending, LostIfMissing, ShowsWhatWasTyped,
                    LossInv
<1>8. CASE Check
  BY <1>0, <1>8 DEF Check, Exit, ClientInv, LostIfMissing, ShowsWhatWasTyped, LossInv
<1> QED BY <1>1, <1>2, <1>3, <1>4, <1>5, <1>6, <1>7, <1>8

\* The steps of the server and of the network.
LEMMA NetworkStep ==
    ASSUME EchoInv, UNCHANGED clientVars, Answer \/ Close \/ Reset
    PROVE  ShowsWhatWasTyped' /\ ClientInv' /\ LossInv'
<1> USE DEF EchoInv, clientVars, eofVars, userVars
<1>0. /\ Last' = Last /\ Len(typed') = Len(typed) /\ Len(shown') = Len(shown)
      /\ ShownInPart' = ShownInPart
  BY DEF Last, ShownInPart
<1>1. CASE Answer
  <2>0. connection = "up" /\ connection' = "up" /\ to_server # << >>
    BY <1>1 DEF Answer
  <2>1. client_at \notin {"open", "read", "send"}
    BY <2>0 DEF ClientInv, Idle
  <2>2. ASSUME client_at = "receive" PROVE Pending /\ OnItsWay'
    <3>1. Pending /\ OnItsWay /\ Last \in Line
      BY <2>2, Lengths, LastIsLine DEF ClientInv, Pending, EchoTypeOK
    <3>2. to_server = <<Last>> /\ to_client = << >> /\ ~unsent
      BY <2>0, <3>1 DEF OnItsWay
    <3>3. to_server' = << >> /\ to_client' = <<Last>>
      BY <1>1, <3>1, <3>2, OneLine DEF Answer
    <3> QED BY <1>0, <3>1, <3>2, <3>3 DEF OnItsWay
  <2>3. ClientInv'
    BY <1>0, <2>0, <2>1, <2>2 DEF ClientInv, Pending, LostIfMissing
  <2> QED BY <1>0, <2>0, <2>3 DEF ShowsWhatWasTyped, LossInv
<1>2. CASE Close \/ Reset
  <2>0. connection' # "up" /\ to_server' = << >> /\ LoseRest /\ to_client \in Seq(Line)
    BY <1>2 DEF Close, Reset, EchoTypeOK
  <2>1. to_client = << >> => to_client' = << >>
    BY <2>0, RestLost
  <2>2. ASSUME client_at = "receive" PROVE Pending /\ OnItsWay'
    <3>1. Pending /\ OnItsWay /\ Last \in Line
      BY <2>2, Lengths, LastIsLine DEF ClientInv, Pending, EchoTypeOK
    <3>2. CASE to_client = << >>
      BY <1>0, <2>0, <2>1, <3>1, <3>2 DEF OnItsWay
    <3>3. CASE to_client # << >>
      <4>1. ~unsent
        BY <3>1, <3>3 DEF OnItsWay
      <4>2. PICK l \in Line : to_client = <<l>> /\ (l = Last \/ l \in Cuts(Last))
        BY <3>1, <3>3, CutsAreLines DEF OnItsWay
      <4>3. \/ to_client' = << >> \/ to_client' = <<l>>
            \/ \E c \in Cuts(l) : to_client' = <<c>>
        BY <2>0, <4>2, RestLost
      <4>4. Cuts(l) \subseteq Cuts(Last)
        BY <3>1, <4>2, CutsAreLines
      <4>5. \/ to_client' = << >> \/ to_client' = <<Last>>
            \/ \E c \in Cuts(Last) : to_client' = <<c>>
        BY <4>2, <4>3, <4>4
      <4> QED BY <1>0, <2>0, <3>1, <4>1, <4>5 DEF OnItsWay
    <3> QED BY <3>2, <3>3
  <2>3. ClientInv'
    BY <1>0, <2>0, <2>1, <2>2 DEF ClientInv, Idle, Pending, LostIfMissing
  <2> QED BY <1>0, <2>0, <2>1, <2>3 DEF ShowsWhatWasTyped, LossInv
<1> QED BY <1>1, <1>2

-----------------------------------------------------------------------------
\* A step that changes nothing keeps the invariant.
LEMMA EchoStutters == EchoInv /\ UNCHANGED echoVars => EchoInv'
BY DEF EchoInv, EchoTypeOK, ShowsWhatWasTyped, ClientInv, Idle, Pending, OnItsWay,
       LostIfMissing, LossInv, ShownInPart, Last, echoVars, clientVars, networkVars,
       eofVars, userVars

\* Every step of the client, of the server and of the network keeps it.
LEMMA EchoSteps == EchoInv /\ [EchoNext]_echoVars => EchoInv'
<1> SUFFICES ASSUME EchoInv, EchoNext PROVE EchoInv'
  BY EchoStutters
<1>1. EchoTypeOK'
  BY TypesStep
<1>3. CASE \E l \in TypedLine : Type(l)
  BY <1>1, <1>3, TypeStep DEF EchoInv
<1>4. CASE Receive
  BY <1>1, <1>4, ReceiveStep DEF EchoInv
<1>5. CASE get_socket_file \/ TypeNothing \/ Send \/ SendFails \/ Flush \/ FlushFails
             \/ ReceiveNothing \/ Check
  <2>1. UNCHANGED userVars
    BY <1>5 DEF get_socket_file, error_and_exit, TypeNothing, Send, SendFails, Flush,
                FlushFails, ReceiveNothing, Check
  <2> QED BY <1>1, <1>5, <2>1, QuietStep DEF EchoInv
<1>6. CASE Answer \/ Close \/ Reset
  <2>1. UNCHANGED clientVars
    BY <1>6 DEF Answer, Close, Reset
  <2> QED BY <1>1, <1>6, <2>1, NetworkStep DEF EchoInv
<1>7. CASE ClientExited
  BY <1>7, EchoStutters DEF ClientExited
<1> QED BY <1>3, <1>4, <1>5, <1>6, <1>7 DEF EchoNext, ClientRuns

(***************************************************************************)
(* The invariant, whatever is typed and whenever the server is lost         *)
(* (client.c:22-43, run_client.c:26-36).                                    *)
(***************************************************************************)
THEOREM EchoInvariant == EchoSpec => []EchoInv
<1>1. EchoInit /\ [][EchoNext]_echoVars => []EchoInv
  BY EchoStarts, EchoSteps, PTL
<1> QED BY <1>1, PTL DEF EchoSpec

(***************************************************************************)
(* What is shown is what was typed, in order, and only the last of it may   *)
(* be cut, anywhere, by a server that is lost (client.c:22-43).             *)
(***************************************************************************)
THEOREM ShowsWhatWasTypedHolds == EchoSpec => []ShowsWhatWasTyped
<1>1. EchoInv => ShowsWhatWasTyped
  BY DEF EchoInv
<1> QED BY <1>1, EchoInvariant, PTL

\* While a line is on its way it is at one place; before and after, nothing is.
LEMMA AtMostOneLine == EchoInv => OneLineInFlight
<1> SUFFICES ASSUME EchoInv
             PROVE  OneLineInFlight
  OBVIOUS
<1>1. client_at \in {"open", "read", "send"} => Idle
  BY DEF EchoInv, ClientInv
<1>2. ASSUME client_at = "receive"
      PROVE  /\ Len(to_server) + Len(to_client) + (IF unsent THEN 1 ELSE 0) <= 1
             /\ Len(typed) = Len(shown) + 1
  <2>1. Pending /\ OnItsWay
    BY <1>2 DEF EchoInv, ClientInv
  <2>2. Len(<<Last>>) = 1 /\ (\A l \in Cuts(Last) : Len(<<l>>) = 1) /\ Len(<< >>) = 0
    OBVIOUS
  <2>3. CASE unsent
    <3>1. to_server = << >> /\ to_client = << >>
      BY <2>1, <2>3 DEF OnItsWay
    <3> QED BY <2>1, <2>2, <2>3, <3>1 DEF Pending
  <2>4. CASE ~unsent
    <3>1. /\ Len(to_server) \in {0, 1} /\ Len(to_client) \in {0, 1}
          /\ Len(to_server) = 0 \/ Len(to_client) = 0
      BY <2>1, <2>2, <2>4, Zenon DEF OnItsWay
    <3>2. Len(to_server) + Len(to_client) + 0 <= 1
      <4>1. ASSUME NEW m \in {0, 1}, NEW n \in {0, 1}, m = 0 \/ n = 0
            PROVE  m + n + 0 <= 1
        BY <4>1
      <4> QED BY <3>1, <4>1, Zenon
    <3>3. (IF unsent THEN 1 ELSE 0) = 0
      BY <2>4, Zenon
    <3>4. Len(typed) = Len(shown) + 1
      BY <2>1 DEF Pending
    <3> QED BY <3>2, <3>3, <3>4, Zenon
  <2> QED BY <2>3, <2>4
<1> QED BY <1>1, <1>2 DEF OneLineInFlight, Idle

\* What is not shown, or not all of it, is accounted for.
LEMMA LossIsTold == EchoInv => SuccessMeansEchoed
<1> SUFFICES ASSUME EchoInv, client_at = "exited", client_status = 0, shown # typed
             PROVE  /\ connection # "up"
                    /\ \/ eof_socket
                       \/ eof_stdin /\ Len(shown) = Len(typed)
                       \/ eof_stdin /\ ~Whole(typed[Len(typed)])
  BY DEF SuccessMeansEchoed
<1>1. /\ LostIfMissing /\ (eof_stdin \/ eof_socket)
      /\ Len(shown) <= Len(typed) /\ Len(shown) \in Nat /\ Len(typed) \in Nat
  BY Lengths DEF EchoInv, ClientInv, ShowsWhatWasTyped
<1>2. CASE Len(shown) < Len(typed)
  BY <1>1, <1>2 DEF LostIfMissing, Last
<1>3. CASE Len(shown) = Len(typed)
  <2>1. PICK k \in 1 .. Len(shown) : shown[k] # typed[k]
    BY <1>3 DEF EchoInv, EchoTypeOK
  <2>2. connection # "up"
    BY <2>1 DEF EchoInv, ShowsWhatWasTyped
  <2> QED BY <1>1, <1>3, <2>2
<1> QED BY <1>1, <1>2, <1>3

(***************************************************************************)
(* The stream of the socket is written only when nothing is left to read,   *)
(* and at most one line is on its way (client.c:30 and 37).                 *)
(***************************************************************************)
THEOREM OneLineInFlightHolds == EchoSpec => []OneLineInFlight
  BY AtMostOneLine, EchoInvariant, PTL

(***************************************************************************)
(* A client that reports success has shown every line whole, unless the     *)
(* server was lost, and either it ended its stream, or stdin ended and the  *)
(* loss cut the last answer or met a last line without newline              *)
(* (run_client.c:32-36).                                                    *)
(***************************************************************************)
THEOREM SuccessMeansEchoedHolds == EchoSpec => []SuccessMeansEchoed
  BY LossIsTold, EchoInvariant, PTL

-----------------------------------------------------------------------------
(***************************************************************************)
(* read_int().  A call that goes on to flush has met a line that is too     *)
(* long for the buffer, or the end of the input.                            *)
(***************************************************************************)
ReadIntInv ==
    /\ ReadIntTypeOK
    /\ reader_at = "caller" => unread = 0
    /\ ~eof =>
          IF reader_at = "caller"
          THEN returned = 1 <=> current_line.length <= BUFFER_SIZE - 2 /\ Accepts(current_line.number)
          ELSE current_line.length > BUFFER_SIZE - 2

\* What is known of a line, NoLine included.
LEMMA LineFields ==
    ASSUME NEW l \in InputLines \cup {NoLine}
    PROVE  /\ l.length \in Nat /\ l.number \in Int /\ l.ended \in BOOLEAN
           /\ l.number \in LineNumbers \cup {0}
           /\ Characters(l) \in Nat /\ Characters(l) <= l.length + 1
           /\ l.ended => Characters(l) = l.length + 1
           /\ l.length <= 3 => l.number > -100 /\ l.number < 1000
<1>1. CASE l \in InputLines
  <2>1. l \in [length : Nat, number : Int, ended : BOOLEAN]
    BY <1>1, ReadIntAssumption
  <2>2. l.number \in LineNumbers
    BY <1>1 DEF LineNumbers
  <2>3. QED
    BY <1>1, <2>1, <2>2, ReadIntAssumption DEF Characters
<1>2. CASE l = NoLine
  BY <1>2 DEF NoLine, Characters
<1>3. QED
  BY <1>1, <1>2

\* fgets() takes something of what is there, and all of it if it fits.
LEMMA FgetsTakes ==
    ASSUME NEW n \in Nat
    PROVE  /\ Fgets(n) \in 0 .. n
           /\ n - Fgets(n) = 0 <=> n <= BUFFER_SIZE - 1
  BY ReadIntAssumption DEF Fgets

LEMMA ReadIntStep == ReadIntInv /\ [ReadIntNext]_readVars => ReadIntInv'
<1> SUFFICES ASSUME ReadIntInv, [ReadIntNext]_readVars
             PROVE  ReadIntInv'
  OBVIOUS
<1>0. /\ ReadIntTypeOK /\ BUFFER_SIZE \in Nat /\ BUFFER_SIZE >= 2
      /\ current_line \in InputLines \cup {NoLine}
  BY ReadIntAssumption DEF ReadIntInv, ReadIntTypeOK
<1>1. ASSUME NEW l \in InputLines, ReadInput(l)
      PROVE  ReadIntInv'
  <2>1. /\ current_line' = l /\ unread' = Characters(l) - Fgets(Characters(l))
        /\ eof' = ~l.ended /\ reader_at = "caller"
    BY <1>1 DEF ReadInput
  <2>2. /\ l.length \in Nat /\ l.number \in LineNumbers \cup {0} /\ l.ended \in BOOLEAN
        /\ Characters(l) \in Nat /\ Characters(l) <= l.length + 1
        /\ l.ended => Characters(l) = l.length + 1
    BY LineFields
  <2>3. /\ unread' \in 0 .. l.length + 1
        /\ unread' = 0 <=> Characters(l) <= BUFFER_SIZE - 1
    BY <2>1, <2>2, FgetsTakes
  <2>4. CASE unread' = 0 /\ l.ended
    <3>1. /\ output' = l.number /\ returned' = (IF Accepts(l.number) THEN 1 ELSE 0)
          /\ reader_at' = "caller"
      BY <1>1, <2>1, <2>4 DEF ReadInput
    <3>2. l.length <= BUFFER_SIZE - 2
      BY <1>0, <2>2, <2>3, <2>4
    <3>3. ReadIntTypeOK'
      BY <1>0, <2>1, <2>2, <2>3, <3>1 DEF ReadIntTypeOK
    <3>4. QED
      BY <2>1, <2>4, <3>1, <3>2, <3>3 DEF ReadIntInv
  <2>5. CASE ~(unread' = 0 /\ l.ended)
    <3>1. reader_at' = "flush" /\ returned' = returned /\ output' = output
      BY <1>1, <2>1, <2>5 DEF ReadInput
    <3>2. l.ended => l.length > BUFFER_SIZE - 2
      BY <1>0, <2>2, <2>3, <2>5
    <3>3. ReadIntTypeOK'
      BY <1>0, <2>1, <2>2, <2>3, <3>1 DEF ReadIntTypeOK
    <3>4. QED
      BY <2>1, <3>1, <3>2, <3>3 DEF ReadIntInv
  <2>6. QED
    BY <2>4, <2>5
<1>2. CASE EndOfInput
  BY <1>2 DEF EndOfInput, ReadIntInv, ReadIntTypeOK
<1>3. CASE ReadNothing
  <2>1. /\ reader_at = "caller" /\ eof /\ eof' = eof /\ current_line' = NoLine
        /\ unread' = unread /\ unread = 0
    BY <1>3 DEF ReadNothing, ReadIntInv
  <2>2. /\ reader_at' \in {"caller", "flush"} /\ returned' \in {0, 1}
        /\ output' \in LineNumbers \cup {0}
    BY <1>0, <1>3 DEF ReadNothing, ReadIntTypeOK
  <2>3. ReadIntTypeOK'
    BY <1>0, <2>1, <2>2 DEF ReadIntTypeOK, NoLine
  <2>4. QED
    BY <2>1, <2>3 DEF ReadIntInv
<1>4. CASE FlushRound
  <2>1. /\ reader_at = "flush" /\ unread \in Nat /\ unread <= current_line.length + 1
        /\ unread' = unread - Fgets(unread)
        /\ eof' = eof /\ current_line' = current_line /\ output' = output
    BY <1>0, <1>4, LineFields DEF FlushRound, ReadIntTypeOK
  <2>2. unread' \in 0 .. current_line.length + 1
    <3>1. current_line.length \in Nat
      BY <1>0, LineFields
    <3>2. Fgets(unread) \in 0 .. unread
      BY <2>1, FgetsTakes
    <3>3. QED
      BY <2>1, <3>1, <3>2
  <2>3. \/ unread' = 0 /\ reader_at' = "caller" /\ returned' = 0
        \/ reader_at' = "flush" /\ returned' = returned
    BY <1>4, <2>1 DEF FlushRound
  <2>4. ReadIntTypeOK'
    BY <1>0, <2>1, <2>2, <2>3 DEF ReadIntTypeOK
  <2>5. ~eof => current_line.length > BUFFER_SIZE - 2
    BY <2>1 DEF ReadIntInv
  <2>6. QED
    BY <1>0, <2>1, <2>3, <2>4, <2>5, LineFields DEF ReadIntInv
<1>5. CASE FlushNothing
  <2>1. /\ reader_at = "flush" /\ unread = 0 /\ reader_at' \in {"flush", "caller"}
        /\ returned' = (IF reader_at' = "caller" THEN 0 ELSE returned)
        /\ UNCHANGED <<eof, current_line, unread, output>>
    BY <1>5 DEF FlushNothing
  <2>2. ReadIntTypeOK'
    BY <1>0, <2>1 DEF ReadIntTypeOK
  <2>3. QED
    BY <1>0, <2>1, <2>2, LineFields DEF ReadIntInv
<1>6. CASE UNCHANGED readVars
  BY <1>6 DEF readVars, ReadIntInv, ReadIntTypeOK
<1>7. QED
  BY <1>1, <1>2, <1>3, <1>4, <1>5, <1>6 DEF ReadIntNext

(***************************************************************************)
(* Whatever lines are typed, the invariant of the reader holds between      *)
(* its calls and within them (read_int_correct.c:14-28).                    *)
(***************************************************************************)
THEOREM ReadIntInvariant == ReadIntSpec => []ReadIntInv
<1>1. ReadIntInit => ReadIntInv
  <2> SUFFICES ASSUME ReadIntInit
               PROVE  ReadIntInv
    OBVIOUS
  <2>1. /\ reader_at = "caller" /\ eof = FALSE /\ unread = 0 /\ returned = 0 /\ output = 0
        /\ current_line \in InputLines \cup {NoLine} /\ current_line.number = 0
        /\ current_line.length = 0
    BY DEF ReadIntInit, NoLine
  <2>2. ReadIntTypeOK
    <3>1. unread \in 0 .. current_line.length + 1
      BY <2>1
    <3>2. QED
      BY <2>1, <3>1 DEF ReadIntTypeOK
  <2>3. ~Accepts(current_line.number)
    BY <2>1 DEF Accepts
  <2>4. QED
    BY <2>1, <2>2, <2>3 DEF ReadIntInv
<1>2. QED
  BY <1>1, ReadIntStep, PTL DEF ReadIntSpec

(***************************************************************************)
(* With the buffer of read_int.h and any lines of any lengths each call     *)
(* takes one line, and accepts a number if and only if it has at most three *)
(* characters and is not 0.                                                 *)
(***************************************************************************)
THEOREM ReadsOneLineHolds ==
    ASSUME BUFFER_SIZE = 5
    PROVE  ReadIntSpec => []ReadsOneLine
<1>1. ReadIntInv => ReadsOneLine
  <2> SUFFICES ASSUME ReadIntInv, reader_at = "caller"
               PROVE  /\ unread = 0
                      /\ ~eof => (returned = 1 <=> current_line.length <= 3
                                                    /\ current_line.number # 0)
    BY DEF ReadsOneLine
  <2>1. current_line \in InputLines \cup {NoLine}
    BY DEF ReadIntInv, ReadIntTypeOK
  <2>2. QED
    BY <2>1, LineFields DEF ReadIntInv, Accepts
<1>2. QED
  BY <1>1, ReadIntInvariant, PTL

-----------------------------------------------------------------------------
(***************************************************************************)
(* find_allowable_increase().  Every round starts from the original         *)
(* objective, and the base solution was optimal in every round before.      *)
(***************************************************************************)
\* Optimal() of a model that is named.
OptimalOf(m, increase) ==
    {s \in m : \A t \in m : t.value + increase * t.amount <= s.value + increase * s.amount}

SearchInv ==
    /\ SearchTypeOK
    /\ search_at = "start" => base_solution = None /\ current_solution = None
    /\ search_at \in {"start", "solve"} => i = 0
    /\ search_at \in {"start", "solve", "loop"} => objective = 0
    /\ search_at \in {"start", "solve", "loop", "check"} => allowable_increase = None
    /\ \A k \in 0 .. i - 1 : base_solution \in OptimalOf(model, k * step)
    /\ search_at \in {"loop", "check"} => base_solution \in OptimalOf(model, 0)
    /\ search_at = "check" =>
          /\ i < max_iter /\ objective = i * step
          /\ current_solution \in OptimalOf(model, i * step)
    /\ search_at = "returned" =>
          \/ allowable_increase = None /\ i = max_iter
          \/ /\ allowable_increase = i * step
             /\ current_solution \in OptimalOf(model, i * step) \ {base_solution}

\* A later round asks for a larger increase.
LEMMA Increases ==
    ASSUME NEW j \in Nat, NEW k \in Nat
    PROVE  /\ j * step \in Nat
           /\ j * step < k * step => j < k
  BY IncreaseAssumption

LEMMA OptimalIs ==
    ASSUME NEW e
    PROVE  Optimal(e) = OptimalOf(model, e) /\ Optimal(e) \subseteq model
  BY DEF Optimal, OptimalOf

LEMMA SearchStep == SearchInv /\ [SearchNext]_searchVars => SearchInv'
<1> SUFFICES ASSUME SearchInv, [SearchNext]_searchVars
             PROVE  SearchInv'
  OBVIOUS
<1>0. /\ SearchTypeOK /\ step \in Nat /\ max_iter \in Nat
      /\ i \in Nat /\ i <= max_iter /\ i * step \in Nat
  BY IncreaseAssumption, Increases DEF SearchInv, SearchTypeOK
<1>1. CASE Start
  <2>1. /\ search_at = "start" /\ i' = i /\ i = 0 /\ objective' = objective /\ objective = 0
        /\ allowable_increase' = None /\ search_at' \in {"solve", "raised"}
        /\ base_solution' = None /\ current_solution' = None
    BY <1>1 DEF Start, SearchInv
  <2>2. model' \in Models \cup {{}}
    BY <1>0, <1>1 DEF Start, SearchTypeOK
  <2>3. SearchTypeOK'
    BY <1>0, <2>1, <2>2 DEF SearchTypeOK
  <2>4. QED
    BY <2>1, <2>3 DEF SearchInv
<1>2. CASE SolveBase
  <2>1. /\ search_at = "solve" /\ search_at' = "loop" /\ i' = i /\ i = 0
        /\ objective' = objective /\ objective = 0 /\ model' = model
        /\ allowable_increase' = allowable_increase /\ allowable_increase = None
        /\ current_solution' = current_solution
    BY <1>2 DEF SolveBase, SearchInv
  <2>2. base_solution' \in OptimalOf(model, 0) /\ base_solution' \in model
    BY <1>2, OptimalIs DEF SolveBase
  <2>3. SearchTypeOK'
    BY <1>0, <2>1, <2>2 DEF SearchTypeOK
  <2>4. QED
    BY <2>1, <2>2, <2>3 DEF SearchInv
<1>3. CASE Solve
  <2>1. /\ search_at = "loop" /\ search_at' = "check" /\ i' = i /\ i < max_iter
        /\ objective' = i * step /\ model' = model
        /\ allowable_increase' = allowable_increase /\ allowable_increase = None
        /\ base_solution' = base_solution /\ base_solution \in OptimalOf(model, 0)
    BY <1>0, <1>3 DEF Solve, SearchInv
  <2>2. current_solution' \in OptimalOf(model, i * step) /\ current_solution' \in model
    BY <1>3, <2>1, OptimalIs DEF Solve
  <2>3. SearchTypeOK'
    BY <1>0, <2>1, <2>2 DEF SearchTypeOK
  <2>4. QED
    BY <2>1, <2>2, <2>3 DEF SearchInv
<1>4. CASE Changed
  <2>1. /\ search_at = "check" /\ search_at' = "returned" /\ i' = i /\ model' = model
        /\ objective' = objective /\ allowable_increase' = i * step
        /\ base_solution' = base_solution /\ current_solution' = current_solution
        /\ current_solution \in OptimalOf(model, i * step) \ {base_solution}
    BY <1>4 DEF Changed, SearchInv
  <2>2. SearchTypeOK'
    BY <1>0, <2>1 DEF SearchTypeOK
  <2>3. QED
    BY <2>1, <2>2 DEF SearchInv
<1>5. CASE Unchanged
  <2>1. /\ search_at = "check" /\ search_at' = "loop" /\ i' = i + 1 /\ model' = model
        /\ i < max_iter /\ objective' = 0
        /\ allowable_increase' = allowable_increase /\ allowable_increase = None
        /\ base_solution' = base_solution /\ current_solution' = current_solution
        /\ base_solution \in OptimalOf(model, 0)
        /\ base_solution \in OptimalOf(model, i * step)
    BY <1>0, <1>5 DEF Unchanged, SearchInv
  <2>2. SearchTypeOK'
    BY <1>0, <2>1 DEF SearchTypeOK
  <2>3. \A k \in 0 .. i' - 1 : base_solution' \in OptimalOf(model', k * step)
    <3>1. \A k \in 0 .. i - 1 : base_solution \in OptimalOf(model, k * step)
      BY DEF SearchInv
    <3>2. \A k \in 0 .. i' - 1 : k \in 0 .. i - 1 \/ k = i
      BY <1>0, <2>1
    <3>3. QED
      BY <2>1, <3>1, <3>2
  <2>4. QED
    BY <2>1, <2>2, <2>3 DEF SearchInv
<1>6. CASE NotFound
  <2>1. /\ search_at = "loop" /\ search_at' = "returned" /\ i = max_iter
        /\ UNCHANGED <<model, objective, i, base_solution, current_solution,
                       allowable_increase>>
    BY <1>6 DEF NotFound
  <2>2. SearchTypeOK'
    BY <1>0, <2>1 DEF SearchTypeOK
  <2>3. QED
    BY <2>1, <2>2 DEF SearchInv
<1>7. CASE Returned \/ UNCHANGED searchVars
  BY <1>7 DEF Returned, searchVars, SearchInv, SearchTypeOK
<1>8. QED
  BY <1>1, <1>2, <1>3, <1>4, <1>5, <1>6, <1>7 DEF SearchNext

(***************************************************************************)
(* Whatever the models and the bound, the invariant of the search holds     *)
(* in every round (helpers.py:39-67).                                       *)
(***************************************************************************)
THEOREM SearchInvariant == SearchSpec => []SearchInv
<1>1. SearchInit => SearchInv
  BY IncreaseAssumption DEF SearchInit, SearchInv, SearchTypeOK
<1>2. QED
  BY <1>1, SearchStep, PTL DEF SearchSpec

(***************************************************************************)
(* For every set of linear programs, every step and every bound of the loop *)
(* what is returned brackets the allowable increase.                        *)
(***************************************************************************)
THEOREM BracketsIncreaseHolds == SearchSpec => []BracketsIncrease
<1>1. SearchInv => BracketsIncrease
  <2> SUFFICES ASSUME SearchInv, search_at = "returned"
               PROVE  /\ \A k \in 0 .. max_iter - 1 :
                            allowable_increase = None \/ k * step < allowable_increase =>
                                base_solution \in Optimal(k * step)
                      /\ allowable_increase # None =>
                            Optimal(allowable_increase) \ {base_solution} # {}
    BY DEF BracketsIncrease
  <2>1. /\ i \in Nat /\ max_iter \in Nat /\ i * step \in Nat /\ i * step # None
        /\ \A k \in 0 .. i - 1 : base_solution \in OptimalOf(model, k * step)
    BY IncreaseAssumption, Increases DEF SearchInv, SearchTypeOK
  <2>2. CASE allowable_increase = None /\ i = max_iter
    BY <2>1, <2>2, OptimalIs
  <2>3. CASE /\ allowable_increase = i * step
             /\ current_solution \in OptimalOf(model, i * step) \ {base_solution}
    <3>1. ASSUME NEW k \in 0 .. max_iter - 1, k * step < i * step
          PROVE  base_solution \in Optimal(k * step)
      <4>1. k \in Nat /\ k < i
        BY <2>1, <3>1, Increases
      <4>2. k \in 0 .. i - 1
        BY <2>1, <4>1
      <4>3. QED
        BY <2>1, <4>2, OptimalIs
    <3>2. Optimal(allowable_increase) \ {base_solution} # {}
      BY <2>3, OptimalIs
    <3>3. QED
      BY <2>1, <2>3, <3>1, <3>2
  <2>4. QED
    BY <2>2, <2>3 DEF SearchInv
<1>2. QED
  BY <1>1, SearchInvariant, PTL

-----------------------------------------------------------------------------
(***************************************************************************)
(* memgen.py.  First the words: the byte of an address is in the lane that  *)
(* memory.sv reads it from.                                                 *)
(***************************************************************************)
\* The powers of WordAt and ByteAt.
LEMMA LanePowers ==
    ASSUME NEW lane \in 0 .. 3
    PROVE  /\ lane = 0 => 2 ^ (8 * lane) = 1
           /\ lane = 1 => 2 ^ (8 * lane) = 256
           /\ lane = 2 => 2 ^ (8 * lane) = 65536
           /\ lane = 3 => 2 ^ (8 * lane) = 16777216
<1>1. ASSUME lane = 0 PROVE 2 ^ (8 * lane) = 1
  <2>1. 8 * lane = 0
    BY <1>1
  <2>2. 2 ^ (8 * lane) = 2 ^ 0
    BY <2>1, Zenon
  <2>3. QED
    BY <2>2, SMT
<1>2. ASSUME lane = 1 PROVE 2 ^ (8 * lane) = 256
  <2>1. 8 * lane = 8
    BY <1>2
  <2>2. 2 ^ (8 * lane) = 2 ^ 8
    BY <2>1, Zenon
  <2>3. QED
    BY <2>2, SMT
<1>3. ASSUME lane = 2 PROVE 2 ^ (8 * lane) = 65536
  <2>1. 8 * lane = 16
    BY <1>3
  <2>2. 2 ^ (8 * lane) = 2 ^ 16
    BY <2>1, Zenon
  <2>3. QED
    BY <2>2, SMT
<1>4. ASSUME lane = 3 PROVE 2 ^ (8 * lane) = 16777216
  <2>1. 8 * lane = 24
    BY <1>4
  <2>2. 2 ^ (8 * lane) = 2 ^ 24
    BY <2>1, Zenon
  <2>3. QED
    BY <2>2, SMT
<1>5. QED
  BY <1>1, <1>2, <1>3, <1>4, SMT

\* What ByteAt() takes of a word.
Lane(w, lane) == (w \div 2 ^ (8 * lane)) % 256

LEMMA LaneOfZero == ASSUME NEW lane \in 0 .. 3 PROVE Lane(0, lane) = 0
<1>1. CASE lane = 0
  BY <1>1, LanePowers, SMT DEF Lane
<1>2. CASE lane = 1
  BY <1>2, LanePowers, SMT DEF Lane
<1>3. CASE lane = 2
  BY <1>3, LanePowers, SMT DEF Lane
<1>4. CASE lane = 3
  BY <1>4, LanePowers, SMT DEF Lane
<1>5. QED
  BY <1>1, <1>2, <1>3, <1>4

Octet == 0 .. 255

\* A word, from its lowest byte to its highest.
Little(a, b, c, d) == d * 16777216 + c * 65536 + b * 256 + a

\* Each byte is in its lane.
LEMMA Lanes ==
    ASSUME NEW a \in Octet, NEW b \in Octet, NEW c \in Octet, NEW d \in Octet
    PROVE  /\ Little(a, b, c, d) \in Nat
           /\ Lane(Little(a, b, c, d), 0) = a /\ Lane(Little(a, b, c, d), 1) = b
           /\ Lane(Little(a, b, c, d), 2) = c /\ Lane(Little(a, b, c, d), 3) = d
<1> DEFINE w == Little(a, b, c, d)
<1>0. w = d * 16777216 + c * 65536 + b * 256 + a
  BY SMT DEF Little
<1> USE DEF Octet
<1> HIDE DEF w
<1>1. /\ w = 256 * (d * 65536 + c * 256 + b) + a
      /\ w = 65536 * (d * 256 + c) + (b * 256 + a)
      /\ w = 16777216 * d + (c * 65536 + b * 256 + a)
  BY <1>0, SMT
<1>2. w \div 1 = w /\ w \in Nat
  BY <1>0, SMT
<1>3. w \div 256 = d * 65536 + c * 256 + b
  BY <1>1, SMT
<1>4. w \div 65536 = d * 256 + c
  BY <1>1, SMT
<1>5. w \div 16777216 = d
  BY <1>1, SMT
<1>6. (w \div 1) % 256 = a
  BY <1>1, <1>2, SMT
<1>7. (w \div 256) % 256 = b
  BY <1>3, SMT
<1>8. (w \div 65536) % 256 = c
  BY <1>4, SMT
<1>9. ASSUME NEW lane \in 0 .. 3
      PROVE  Lane(w, lane) =
                IF lane = 0 THEN a ELSE IF lane = 1 THEN b ELSE IF lane = 2 THEN c ELSE d
  <2>1. CASE lane = 0
    BY <1>6, <2>1, LanePowers, SMT DEF Lane
  <2>2. CASE lane = 1
    BY <1>7, <2>2, LanePowers, SMT DEF Lane
  <2>3. CASE lane = 2
    BY <1>8, <2>3, LanePowers, SMT DEF Lane
  <2>4. CASE lane = 3
    BY <1>5, <2>4, LanePowers, SMT DEF Lane
  <2>5. QED
    BY <2>1, <2>2, <2>3, <2>4
<1>10. QED
  BY <1>2, <1>9 DEF w

\* A function on 1 .. m is a sequence of its length.
LEMMA SequenceOf ==
    ASSUME NEW m \in Nat, NEW f \in [1 .. m -> Nat]
    PROVE  f \in Seq(Nat) /\ Len(f) = m
<1>1. f \in Seq(Nat)
  BY SeqDef
<1>2. 1 .. m = 1 .. Len(f) /\ Len(f) \in Nat
  BY <1>1, LenProperties
<1>3. QED
  BY <1>1, <1>2

\* The four bytes of a word.
LEMMA BytesOf ==
    ASSUME NEW p \in Seq(Octet), NEW k \in 1 .. Len(p) \div 4
    PROVE  LET j == 4 * (k - 1)
           IN  /\ p[j + 1] \in Octet /\ p[j + 2] \in Octet
               /\ p[j + 3] \in Octet /\ p[j + 4] \in Octet
               /\ WordAt(p, j) \in Nat
               /\ Lane(WordAt(p, j), 0) = p[j + 1] /\ Lane(WordAt(p, j), 1) = p[j + 2]
               /\ Lane(WordAt(p, j), 2) = p[j + 3] /\ Lane(WordAt(p, j), 3) = p[j + 4]
<1> DEFINE j == 4 * (k - 1)
<1>1. p \in [1 .. Len(p) -> Octet] /\ Len(p) \in Nat
  BY LenProperties
<1>2. j + 1 \in 1 .. Len(p) /\ j + 2 \in 1 .. Len(p) /\ j + 3 \in 1 .. Len(p) /\ j + 4 \in 1 .. Len(p)
  BY <1>1, SMT
<1> HIDE DEF j
<1>3. /\ p[j + 1] \in Octet /\ p[j + 2] \in Octet
      /\ p[j + 3] \in Octet /\ p[j + 4] \in Octet
  BY <1>1, <1>2
<1>4. WordAt(p, j) = Little(p[j + 1], p[j + 2], p[j + 3], p[j + 4])
  BY SMT DEF WordAt, Little
<1> DEFINE a == p[j + 1]  b == p[j + 2]  c == p[j + 3]  d == p[j + 4]
           word == WordAt(p, j)
<1>5. a \in Octet /\ b \in Octet /\ c \in Octet /\ d \in Octet /\ word = Little(a, b, c, d)
  BY <1>3, <1>4
<1> HIDE DEF a, b, c, d, word
<1>6. /\ word \in Nat
      /\ Lane(word, 0) = a /\ Lane(word, 1) = b /\ Lane(word, 2) = c /\ Lane(word, 3) = d
  BY <1>5, Lanes
<1>7. QED
  BY <1>3, <1>6 DEF j, a, b, c, d, word

\* The words of a program, and then zeros.
LEMMA WordsAre ==
    ASSUME NEW p \in Seq(Octet), NEW n \in Nat
    PROVE  LET m == Len(p) \div 4
               w == Words(p, n)
           IN  /\ w \in Seq(Nat) /\ Len(w) \in Nat /\ m \in Nat /\ Len(w) >= n /\ Len(w) >= m
               /\ \A k \in 1 .. Len(w) :
                     w[k] = IF k <= m THEN WordAt(p, 4 * (k - 1)) ELSE 0
<1> DEFINE m     == Len(p) \div 4
           whole == [k \in 1 .. m |-> WordAt(p, 4 * (k - 1))]
           size  == IF n >= m THEN n - m ELSE 0
<1>1. m \in Nat
  <2>1. Len(p) \in Nat
    BY LenProperties
  <2>2. QED
    BY <2>1, SMT
<1>2. \A k \in 1 .. m : WordAt(p, 4 * (k - 1)) \in Nat
  BY BytesOf
<1> HIDE DEF m
<1>3. whole \in Seq(Nat) /\ Len(whole) = m
  <2>1. whole \in [1 .. m -> Nat]
    BY <1>2
  <2>2. QED
    BY <1>1, <2>1, SequenceOf
<1>4. size \in Nat /\ 1 .. n - m = 1 .. size /\ m + size >= n /\ m + size >= m
  <2>1. CASE n >= m
    BY <1>1, <2>1
  <2>2. CASE ~(n >= m)
    <3>1. 1 .. n - m = {}
      BY <1>1, <2>2
    <3>2. 1 .. 0 = {}
      OBVIOUS
    <3>3. QED
      BY <1>1, <2>2, <3>1, <3>2
  <2>3. QED
    BY <2>1, <2>2
<1> HIDE DEF size
<1> DEFINE pad == [k \in 1 .. size |-> 0]
<1>5. pad \in Seq(Nat) /\ Len(pad) = size
  <2>1. pad \in [1 .. size -> Nat]
    OBVIOUS
  <2>2. QED
    BY <1>4, <2>1, SequenceOf
<1>6. Words(p, n) = whole \o pad
  BY <1>3, <1>4 DEF Words, m
<1>7. ASSUME NEW k \in 1 .. m
      PROVE  whole[k] = WordAt(p, 4 * (k - 1))
  OBVIOUS
<1>8. ASSUME NEW k \in 1 .. size
      PROVE  pad[k] = 0
  OBVIOUS
<1> HIDE DEF whole, pad
<1>9. /\ whole \o pad \in Seq(Nat) /\ Len(whole \o pad) = m + size
      /\ \A k \in 1 .. m + size :
            (whole \o pad)[k] = IF k <= m THEN whole[k] ELSE pad[k - m]
  BY <1>3, <1>5, ConcatProperties
<1>10. ASSUME NEW k \in 1 .. m + size
      PROVE  Words(p, n)[k] = IF k <= m THEN WordAt(p, 4 * (k - 1)) ELSE 0
  <2>1. k <= m => k \in 1 .. m
    BY <1>1, <1>4
  <2>2. ~(k <= m) => k - m \in 1 .. size
    BY <1>1, <1>4
  <2>3. QED
    BY <1>6, <1>7, <1>8, <1>9, <2>1, <2>2
<1>11. QED
  BY <1>1, <1>4, <1>6, <1>9, <1>10 DEF m

\* Every byte of the image.
LEMMA ImageOfWords ==
    ASSUME NEW p \in Seq(Octet), NEW n \in Nat
    PROVE  IsImage(Words(p, n), p, n)
<1> DEFINE m == Len(p) \div 4
           w == Words(p, n)
<1>1. /\ Len(w) \in Nat /\ m \in Nat /\ Len(w) >= n /\ Len(w) >= m
      /\ \A k \in 1 .. Len(w) :
            w[k] = IF k <= m THEN WordAt(p, 4 * (k - 1)) ELSE 0
  BY WordsAre
<1>2. \A k \in 1 .. m :
         LET j == 4 * (k - 1)
           IN  /\ p[j + 1] \in Octet /\ p[j + 2] \in Octet
               /\ p[j + 3] \in Octet /\ p[j + 4] \in Octet
               /\ Lane(WordAt(p, j), 0) = p[j + 1] /\ Lane(WordAt(p, j), 1) = p[j + 2]
               /\ Lane(WordAt(p, j), 2) = p[j + 3] /\ Lane(WordAt(p, j), 3) = p[j + 4]
  BY BytesOf
<1> HIDE DEF m, w
<1>3. ASSUME NEW place \in 0 .. 4 * Len(w) - 1
      PROVE  ByteAt(w, place) = IF place < 4 * m THEN p[place + 1] ELSE 0
  <2> DEFINE k    == place \div 4 + 1
             lane == place % 4
  <2>1. k \in 1 .. Len(w) /\ lane \in 0 .. 3 /\ place = 4 * (k - 1) + lane
    BY <1>1
  <2>2. ByteAt(w, place) = Lane(w[k], lane)
    BY DEF ByteAt, Lane
  <2> HIDE DEF k, lane
  <2>3. CASE k <= m
    <3> DEFINE j == 4 * (k - 1)
    <3>1. /\ Lane(w[k], 0) = p[j + 1] /\ Lane(w[k], 1) = p[j + 2]
          /\ Lane(w[k], 2) = p[j + 3] /\ Lane(w[k], 3) = p[j + 4]
      BY <1>1, <1>2, <2>1, <2>3, SMT
    <3>2. place + 1 = j + (lane + 1) /\ place < 4 * m
      BY <1>1, <2>1, <2>3
    <3> HIDE DEF j
    <3>3. Lane(w[k], lane) = IF lane = 0 THEN p[j + 1] ELSE IF lane = 1 THEN p[j + 2]
                             ELSE IF lane = 2 THEN p[j + 3] ELSE p[j + 4]
      BY <2>1, <3>1
    <3>4. ByteAt(w, place) = p[j + (lane + 1)]
      BY <2>1, <2>2, <3>3
    <3>5. QED
      BY <3>2, <3>4
  <2>4. CASE ~(k <= m)
    <3>1. w[k] = 0 /\ ~(place < 4 * m)
      BY <1>1, <2>1, <2>4
    <3>3. ByteAt(w, place) = 0
      BY <2>1, <2>2, <3>1, LaneOfZero
    <3>4. QED
      BY <3>1, <3>3
  <2>5. QED
    BY <2>3, <2>4
<1>4. QED
  BY <1>1, <1>3 DEF IsImage, m, w

(***************************************************************************)
(* Then the run.  What a stage uses is what the stages before it made in    *)
(* the same run, never a file that an earlier run left.                     *)
(***************************************************************************)
MemGenInv ==
    /\ MemGenTypeOK
    /\ stage \in {"script", "gcc", "unlink"} => input = "asm"
    /\ stage = "refused" <=> stage # "idle" /\ input = "other"
    /\ stage = "unlink" /\ ~raised => elf_file = source
    /\ stage \in {"objcopy", "read", "write", "refused"} =>
          ~linker_script /\ (input = "asm" => elf_file = source)
    /\ stage \in {"read", "write"} => bin_file = elf_file /\ elf_file # NoFile
    /\ stage = "write" => words = Words(bin_file, image_size)

\* The files hold programs.
LEMMA ProgramsAre ==
    ASSUME NEW p \in Programs \cup {NoFile}, p # NoFile
    PROVE  p \in Programs /\ p \in Seq(Octet)
  BY MemGenAssumption DEF Octet

LEMMA MemGenStep == MemGenInv /\ [MemGenNext]_memgenVars => MemGenInv'
<1> SUFFICES ASSUME MemGenInv, [MemGenNext]_memgenVars
             PROVE  MemGenInv'
  OBVIOUS
<1>0. MemGenTypeOK
  BY DEF MemGenInv
<1> USE DEF EndRun, argVars, fileVars
<1>1. << >> \in Seq(Nat)
  OBVIOUS
<1>2. CASE main
  <2>1. /\ input' \in {"asm", "elf", "other"} /\ stage' \in {"script", "objcopy", "refused"}
        /\ stage' = "script" => input' = "asm"
        /\ stage' = "objcopy" => input' # "asm"
    BY <1>2, Zenon DEF main
  <2>2. QED
    BY <1>2, <1>0, <2>1 DEF main, MemGenInv, MemGenTypeOK
<1>3. CASE WriteScript
  BY <1>3, <1>0, <1>1 DEF WriteScript, MemGenInv, MemGenTypeOK
<1>4. CASE Assemble
  BY <1>4, <1>0 DEF Assemble, MemGenInv, MemGenTypeOK
<1>5. CASE Unlink
  BY <1>5, <1>0, <1>1 DEF Unlink, MemGenInv, MemGenTypeOK
<1>6. CASE extract_binary
  BY <1>6, <1>0, <1>1 DEF extract_binary, MemGenInv, MemGenTypeOK
<1>7. CASE ReadBinary
  <2>1. bin_file # NoFile => Words(bin_file, image_size) \in Seq(Nat)
    <3>1. image_size \in Nat
      BY <1>0, MemGenAssumption DEF MemGenTypeOK
    <3>2. QED
      BY <1>0, <3>1, ProgramsAre, WordsAre DEF MemGenTypeOK
  <2>2. QED
    BY <1>7, <1>0, <1>1, <2>1 DEF ReadBinary, MemGenInv, MemGenTypeOK
<1>8. CASE WriteImage
  <2>1. ASSUME NEW n \in 0 .. Len(words)
        PROVE  SubSeq(words, 1, n) \in Seq(Nat)
    BY <1>0 DEF MemGenTypeOK
  <2>2. output_file' \in Seq(Nat)
    BY <1>8, <1>0, <2>1 DEF WriteImage, MemGenTypeOK
  <2>3. QED
    BY <1>8, <1>0, <1>1, <2>2 DEF WriteImage, MemGenInv, MemGenTypeOK
<1>9. CASE Kill
  BY <1>9, <1>0, <1>1 DEF Kill, MemGenInv, MemGenTypeOK
<1>10. CASE Edit
  BY <1>10, <1>0 DEF Edit, MemGenInv, MemGenTypeOK
<1>11. CASE Delete
  BY <1>11, <1>0 DEF Delete, MemGenInv, MemGenTypeOK
<1>12. CASE Refuse
  BY <1>12, <1>0, <1>1 DEF Refuse, MemGenInv, MemGenTypeOK
<1>13. CASE UNCHANGED memgenVars
  BY <1>13, <1>0 DEF memgenVars, MemGenInv, MemGenTypeOK
<1>14. QED
  BY <1>2, <1>3, <1>4, <1>5, <1>6, <1>7, <1>8, <1>9, <1>10, <1>11, <1>12, <1>13 DEF MemGenNext

(***************************************************************************)
(* Whichever steps fail or are killed, the files that a stage uses are      *)
(* those of its own run (memgen.py:58-142).                                 *)
(***************************************************************************)
THEOREM MemGenInvariant == MemGenSpec => []MemGenInv
<1>0. << >> \in Seq(Nat)
  OBVIOUS
<1>1. MemGenInit => MemGenInv
  <2> SUFFICES ASSUME MemGenInit
               PROVE  MemGenInv
    OBVIOUS
  <2>1. image_size \in Sizes /\ source \in Programs
    BY MemGenAssumption, Zenon DEF MemGenInit
  <2>2. /\ stage = "idle" /\ input = "other" /\ status = 0 /\ raised = FALSE
        /\ linker_script = FALSE /\ elf_file = NoFile /\ bin_file = NoFile
        /\ output_file = NoFile
    BY Zenon DEF MemGenInit
  <2>3. MemGenTypeOK
    <3>1. words \in Seq(Nat)
      BY <1>0, Zenon DEF MemGenInit
    <3>2. status \in {-1, 0, 1} /\ linker_script \in BOOLEAN /\ raised \in BOOLEAN
      BY <2>2
    <3>3. QED
      BY <2>1, <2>2, <3>1, <3>2 DEF MemGenTypeOK
  <2>4. QED
    BY <2>2, <2>3 DEF MemGenInv
<1>2. QED
  BY <1>1, MemGenStep, PTL DEF MemGenSpec

(***************************************************************************)
(* For any programs and sizes, whatever step fails or is killed: the linker *)
(* script does not survive a run that was not killed.                       *)
(***************************************************************************)
THEOREM ScriptRemovedHolds == MemGenSpec => ScriptRemoved
<1> DEFINE Removed == stage # "idle" /\ stage' = "idle" /\ linker_script' =>
                          status' = -1 \/ stage = "script"
<1>1. MemGenInv /\ [MemGenNext]_memgenVars => [Removed]_memgenVars
  <2> SUFFICES ASSUME MemGenInv, MemGenNext
               PROVE  Removed
    OBVIOUS
  <2>1. CASE main \/ Refuse \/ WriteScript \/ Assemble \/ Unlink \/ extract_binary
    BY <2>1 DEF main, Refuse, WriteScript, Assemble, Unlink, extract_binary, fileVars,
                MemGenInv
  <2>2. CASE ReadBinary \/ WriteImage \/ Kill \/ Edit \/ Delete
    BY <2>2 DEF ReadBinary, WriteImage, Kill, Edit, Delete, EndRun, MemGenInv
  <2>3. QED
    BY <2>1, <2>2 DEF MemGenNext
<1>2. QED
  BY <1>1, MemGenInvariant, PTL DEF MemGenSpec, ScriptRemoved

(***************************************************************************)
(* For any programs and sizes a run that ends with status 0 has written the *)
(* image of the program it was given, byte for byte, or it has refused its  *)
(* input and written nothing (memgen.py:116-145).                           *)
(***************************************************************************)
THEOREM SuccessLeavesImageHolds == MemGenSpec => SuccessLeavesImage
<1> DEFINE Image == /\ output_file' # NoFile
                    /\ IsImage(output_file', IF input = "asm" THEN source ELSE elf_file,
                               image_size)
           Left  == stage # "idle" /\ stage' = "idle" /\ status' = 0 =>
                       IF input = "other" THEN UNCHANGED output_file ELSE Image
<1>1. MemGenInv /\ [MemGenNext]_memgenVars => [Left]_memgenVars
  <2> SUFFICES ASSUME MemGenInv, MemGenNext, stage # "idle", stage' = "idle", status' = 0
               PROVE  IF input = "other" THEN UNCHANGED output_file ELSE Image
    BY DEF Left
  <2>1. Refuse \/ (stage = "write" /\ output_file' = words)
    BY DEF MemGenNext, main, WriteScript, Assemble, Unlink, extract_binary, ReadBinary,
           WriteImage, Kill, Edit, Delete, EndRun
  <2>2. CASE Refuse
    BY <2>2 DEF Refuse, fileVars, MemGenInv
  <2>3. CASE stage = "write" /\ output_file' = words
    <3>1. /\ words = Words(elf_file, image_size) /\ elf_file # NoFile /\ input # "other"
          /\ elf_file = IF input = "asm" THEN source ELSE elf_file
      BY <2>3 DEF MemGenInv
    <3>2. elf_file \in Seq(Octet) /\ image_size \in Nat
      BY <3>1, ProgramsAre, MemGenAssumption DEF MemGenInv, MemGenTypeOK
    <3>3. IsImage(words, elf_file, image_size)
      BY <3>1, <3>2, ImageOfWords
    <3>4. words # NoFile
      BY MemGenAssumption DEF MemGenInv, MemGenTypeOK
    <3>5. QED
      BY <2>3, <3>1, <3>3, <3>4
  <2>4. QED
    BY <2>1, <2>2, <2>3
<1>2. QED
  BY <1>1, MemGenInvariant, PTL DEF MemGenSpec, SuccessLeavesImage

-----------------------------------------------------------------------------
(***************************************************************************)
(* hsv_wheel.sv.  The duty cycles in each region.                           *)
(***************************************************************************)
LEMMA HueIs ==
    ASSUME NEW s \in 0 .. 359
    PROVE  /\ s \div 60 = 0 => Hue(s) = [red |-> 255, green |-> Ascending(s), blue |-> 0]
           /\ s \div 60 = 1 => Hue(s) = [red |-> Descending(s), green |-> 255, blue |-> 0]
           /\ s \div 60 = 2 => Hue(s) = [red |-> 0, green |-> 255, blue |-> Ascending(s)]
           /\ s \div 60 = 3 => Hue(s) = [red |-> 0, green |-> Descending(s), blue |-> 255]
           /\ s \div 60 = 4 => Hue(s) = [red |-> Ascending(s), green |-> 0, blue |-> 255]
           /\ s \div 60 = 5 => Hue(s) = [red |-> 255, green |-> 0, blue |-> Descending(s)]
<1> DEFINE region == s \div 60
<1>1. \A j, k \in {0, 1, 2, 3, 4, 5} : region = j /\ region = k => j = k
  OBVIOUS
<1> HIDE DEF region
<1>2. /\ 0 # 1 /\ 0 # 2 /\ 0 # 3 /\ 0 # 4 /\ 0 # 5 /\ 1 # 2 /\ 1 # 3 /\ 1 # 4 /\ 1 # 5
      /\ 2 # 3 /\ 2 # 4 /\ 2 # 5 /\ 3 # 4 /\ 3 # 5 /\ 4 # 5
  OBVIOUS
<1>3. region = 0 => Hue(s) = [red |-> 255, green |-> Ascending(s), blue |-> 0]
  BY <1>2, Zenon DEF Hue, region
<1>4. region = 1 => Hue(s) = [red |-> Descending(s), green |-> 255, blue |-> 0]
  BY <1>2, Zenon DEF Hue, region
<1>5. region = 2 => Hue(s) = [red |-> 0, green |-> 255, blue |-> Ascending(s)]
  BY <1>2, Zenon DEF Hue, region
<1>6. region = 3 => Hue(s) = [red |-> 0, green |-> Descending(s), blue |-> 255]
  BY <1>2, Zenon DEF Hue, region
<1>7. region = 4 => Hue(s) = [red |-> Ascending(s), green |-> 0, blue |-> 255]
  BY <1>2, Zenon DEF Hue, region
<1>8. region = 5 => Hue(s) = [red |-> 255, green |-> 0, blue |-> Descending(s)]
  BY <1>2, Zenon DEF Hue, region
<1>9. QED
  BY <1>3, <1>4, <1>5, <1>6, <1>7, <1>8 DEF region

NextStep(s) == IF s = 359 THEN 0 ELSE s + 1

\* From a step to the next, at the border of two regions or not.
LEMMA NextHue ==
    ASSUME NEW s \in 0 .. 359, NEW t, t = NextStep(s)
    PROVE  \/ /\ s % 60 < 59 /\ t \div 60 = s \div 60
              /\ Ascending(t) - Ascending(s) \in 4 .. 5
           \/ /\ s % 60 = 59 /\ t \div 60 = (IF s \div 60 = 5 THEN 0 ELSE s \div 60 + 1)
              /\ Ascending(s) = 250 /\ Ascending(t) = 0
  BY DEF Ascending, NextStep

\* One LED changes, by 4 or 5 of 255, and the others do not.
OneChanged(before, after) ==
    \E led \in DOMAIN before :
       /\ after[led] - before[led] \in (-5 .. -4) \cup (4 .. 5)
       /\ \A other \in DOMAIN before \ {led} : after[other] = before[other]

LEMMA OneChanges ==
    ASSUME NEW s \in 0 .. 359
    PROVE  OneChanged(Hue(s), Hue(NextStep(s)))
<1> DEFINE t == NextStep(s)
           a == Ascending(s)
           b == Ascending(t)
           r == s \div 60
           q == t \div 60
<1>1. t \in 0 .. 359 /\ r \in 0 .. 5 /\ q \in 0 .. 5 /\ a \in Int /\ b \in Int
  BY DEF Ascending, NextStep
<1>2. \/ q = r /\ b - a \in 4 .. 5
      \/ q = (IF r = 5 THEN 0 ELSE r + 1) /\ a = 250 /\ b = 0
  BY NextHue
<1>3. /\ r = 0 => Hue(s) = [red |-> 255, green |-> a, blue |-> 0]
      /\ r = 1 => Hue(s) = [red |-> 255 - a, green |-> 255, blue |-> 0]
      /\ r = 2 => Hue(s) = [red |-> 0, green |-> 255, blue |-> a]
      /\ r = 3 => Hue(s) = [red |-> 0, green |-> 255 - a, blue |-> 255]
      /\ r = 4 => Hue(s) = [red |-> a, green |-> 0, blue |-> 255]
      /\ r = 5 => Hue(s) = [red |-> 255, green |-> 0, blue |-> 255 - a]
  BY HueIs DEF Descending
<1>4. /\ q = 0 => Hue(t) = [red |-> 255, green |-> b, blue |-> 0]
      /\ q = 1 => Hue(t) = [red |-> 255 - b, green |-> 255, blue |-> 0]
      /\ q = 2 => Hue(t) = [red |-> 0, green |-> 255, blue |-> b]
      /\ q = 3 => Hue(t) = [red |-> 0, green |-> 255 - b, blue |-> 255]
      /\ q = 4 => Hue(t) = [red |-> b, green |-> 0, blue |-> 255]
      /\ q = 5 => Hue(t) = [red |-> 255, green |-> 0, blue |-> 255 - b]
  <2>1. Descending(t) = 255 - b
    BY DEF Descending
  <2> HIDE DEF t
  <2>2. /\ t \div 60 = 0 => Hue(t) = [red |-> 255, green |-> Ascending(t), blue |-> 0]
        /\ t \div 60 = 1 => Hue(t) = [red |-> Descending(t), green |-> 255, blue |-> 0]
        /\ t \div 60 = 2 => Hue(t) = [red |-> 0, green |-> 255, blue |-> Ascending(t)]
        /\ t \div 60 = 3 => Hue(t) = [red |-> 0, green |-> Descending(t), blue |-> 255]
        /\ t \div 60 = 4 => Hue(t) = [red |-> Ascending(t), green |-> 0, blue |-> 255]
        /\ t \div 60 = 5 => Hue(t) = [red |-> 255, green |-> 0, blue |-> Descending(t)]
    BY <1>1, HueIs, Zenon
  <2> HIDE DEF a, b, r, q
  <2>3. b = Ascending(t) /\ q = t \div 60
    BY DEF b, q
  <2> QED BY <2>1, <2>2, <2>3
<1> DEFINE H == Hue(s)  K == Hue(t)  D == (-5 .. -4) \cup (4 .. 5)
<1> HIDE DEF a, b, r, q, H, K
<1>5. \/ K.green - H.green \in D /\ K.red = H.red /\ K.blue = H.blue
      \/ K.red - H.red \in D /\ K.green = H.green /\ K.blue = H.blue
      \/ K.blue - H.blue \in D /\ K.red = H.red /\ K.green = H.green
  <2>1. CASE r \in {0, 3}
    BY <1>1, <1>2, <1>3, <1>4, <2>1 DEF H, K
  <2>2. CASE r \in {1, 4}
    BY <1>1, <1>2, <1>3, <1>4, <2>2 DEF H, K
  <2>3. CASE r \in {2, 5}
    BY <1>1, <1>2, <1>3, <1>4, <2>3 DEF H, K
  <2>4. QED
    BY <1>1, <2>1, <2>2, <2>3
<1>6. DOMAIN H = {"red", "green", "blue"}
  BY <1>1, <1>3 DEF H
<1>7. QED
  BY <1>5, <1>6 DEF H, K, OneChanged

(***************************************************************************)
(* For every clock frequency the hue goes round without a jump.             *)
(***************************************************************************)
THEOREM HueIsContinuousHolds == HsvSpec => HueIsContinuous
<1> DEFINE Smooth == step_counter' # step_counter =>
              \E led \in DOMAIN Duties :
                 /\ Duties'[led] - Duties[led] \in (-5 .. -4) \cup (4 .. 5)
                 /\ \A other \in DOMAIN Duties \ {led} : Duties'[other] = Duties[other]
           InWheel == step_counter \in 0 .. 359
<1>1. HsvInit => InWheel
  BY DEF HsvInit
<1>2. InWheel /\ [HsvClock]_hsvVars => InWheel'
  BY HsvAssumption DEF HsvClock, hsvVars
<1>3. InWheel /\ [HsvClock]_hsvVars => [Smooth]_hsvVars
  <2> SUFFICES ASSUME InWheel, HsvClock, step_counter' # step_counter
               PROVE  Smooth
    OBVIOUS
  <2>1. step_counter' = NextStep(step_counter)
    BY HsvAssumption DEF HsvClock, NextStep
  <2>2. OneChanged(Hue(step_counter), Hue(NextStep(step_counter)))
    BY OneChanges
  <2>3. OneChanged(Duties, Duties')
    BY <2>1, <2>2, Zenon DEF Duties
  <2>4. QED
    BY <2>3, Zenon DEF OneChanged
<1>4. QED
  BY <1>1, <1>2, <1>3, PTL DEF HsvSpec, HueIsContinuous

-----------------------------------------------------------------------------
(***************************************************************************)
(* The sines.  The ten bits of the source fix the middle of the output.     *)
(***************************************************************************)
LEMMA TenBits ==
    ASSUME DATA_BITS = 10
    PROVE  Middle = 512 /\ 2 ^ DATA_BITS = 1024
<1>1. 2 ^ DATA_BITS = 2 ^ 10
  BY Zenon
<1>2. DATA_BITS - 1 = 9
  OBVIOUS
<1>3. 2 ^ (DATA_BITS - 1) = 2 ^ 9
  BY <1>2, Zenon
<1>4. QED
  BY <1>1, <1>3, SMT DEF Middle

\* Which quarter a phase is in, and how far into it.
LEMMA QuarterOf ==
    ASSUME NEW phase \in 0 .. 4 * QUARTER - 1
    PROVE  /\ phase < QUARTER =>
                 Quadrant(phase) = 0 /\ QuarterAddress(phase) = phase
           /\ phase >= QUARTER /\ phase < 2 * QUARTER =>
                 Quadrant(phase) = 1 /\ QuarterAddress(phase) = 2 * QUARTER - 1 - phase
           /\ phase >= 2 * QUARTER /\ phase < 3 * QUARTER =>
                 Quadrant(phase) = 2 /\ QuarterAddress(phase) = phase - 2 * QUARTER
           /\ phase >= 3 * QUARTER =>
                 Quadrant(phase) = 3 /\ QuarterAddress(phase) = 4 * QUARTER - 1 - phase
<1>1. QUARTER \in Nat \ {0}
  BY QuarterAssumption
<1>2. /\ phase < QUARTER => phase \div QUARTER = 0 /\ phase % QUARTER = phase
      /\ phase >= QUARTER /\ phase < 2 * QUARTER =>
            phase \div QUARTER = 1 /\ phase % QUARTER = phase - QUARTER
  BY <1>1
<1>3. /\ phase >= 2 * QUARTER /\ phase < 3 * QUARTER =>
            phase \div QUARTER = 2 /\ phase % QUARTER = phase - 2 * QUARTER
      /\ phase >= 3 * QUARTER =>
            phase \div QUARTER = 3 /\ phase % QUARTER = phase - 3 * QUARTER
  BY <1>1
<1>4. QED
  BY <1>1, <1>2, <1>3 DEF Quadrant, QuarterAddress

\* The sample that is read for a phase makes the wave.
LEMMA SampleMakesWave ==
    ASSUME DATA_BITS = 10, NEW quarter \in Quarters, NEW phase \in 0 .. 4 * QUARTER - 1
    PROVE  LET height == quarter[QuarterAddress(phase)]
           IN  /\ height \in 0 .. 511
               /\ phase = 2 * QUARTER - 1 \/ phase = 4 * QUARTER - 1 => height = 0
               /\ Wave(quarter, phase) = IF phase < 2 * QUARTER THEN 512 + height ELSE 512 - height
<1> DEFINE height == quarter[QuarterAddress(phase)]
           into   == phase % (2 * QUARTER)
<1>1. QUARTER \in Nat \ {0} /\ Middle = 512 /\ 2 ^ DATA_BITS = 1024
  BY TenBits, QuarterAssumption
<1>2. quarter \in [0 .. QUARTER - 1 -> 0 .. 511] /\ quarter[0] = 0
  <2>1. 2 ^ (DATA_BITS - 1) - 1 = 511
    BY <1>1 DEF Middle
  <2>2. quarter \in [0 .. QUARTER - 1 -> 0 .. 2 ^ (DATA_BITS - 1) - 1] /\ quarter[0] = 0
    BY QuarterAssumption
  <2> QED BY <2>1, <2>2
<1>3. QuarterAddress(phase) \in 0 .. QUARTER - 1
  BY <1>1, QuarterOf
<1>4. phase = 2 * QUARTER - 1 \/ phase = 4 * QUARTER - 1 => QuarterAddress(phase) = 0
  BY <1>1, QuarterOf
<1>5. into = IF phase < 2 * QUARTER THEN phase ELSE phase - 2 * QUARTER
  BY <1>1
<1>6. QuarterAddress(phase) = IF into < QUARTER THEN into ELSE 2 * QUARTER - 1 - into
  BY <1>1, <1>5, QuarterOf
<1>7. height = IF into < QUARTER THEN quarter[into] ELSE quarter[2 * QUARTER - 1 - into]
  BY <1>6
<1> HIDE DEF into
<1>8. Wave(quarter, phase) = IF phase < 2 * QUARTER THEN 512 + height ELSE 512 - height
  BY <1>1, <1>7 DEF Wave, into
<1>9. QED
  BY <1>2, <1>3, <1>4, <1>8

\* The sample is that of the phase before the current one.
SineInv ==
    /\ address \in 0 .. 4 * QUARTER - 1 /\ sine_memory \in Quarters
    /\ sampled # -1 =>
          /\ sampled \in 0 .. 4 * QUARTER - 1
          /\ address = IF sampled = 4 * QUARTER - 1 THEN 0 ELSE sampled + 1
          /\ memory_data = Middle + sine_memory[QuarterAddress(sampled)]

(***************************************************************************)
(* With the ten bits of the source, for any quarter of any length: what     *)
(* leaves miniproject03 is the whole sine, one edge late.                   *)
(***************************************************************************)
THEOREM SineIsWholeHolds ==
    ASSUME DATA_BITS = 10
    PROVE  SineSpec => []SineIsWhole
<1>1. SineInit => SineInv
  BY QuarterAssumption DEF SineInit, SineInv
<1>2. SineInv /\ [SineClock]_sineVars => SineInv'
  <2> SUFFICES ASSUME SineInv, [SineClock]_sineVars
               PROVE  SineInv'
    OBVIOUS
  <2>1. QUARTER \in Nat \ {0}
    BY QuarterAssumption
  <2>2. CASE SineClock
    <3>1. address' = IF address = 4 * QUARTER - 1 THEN 0 ELSE address + 1
      BY <2>1, <2>2 DEF SineClock, SineInv
    <3>2. /\ sampled' = address /\ sine_memory' = sine_memory
          /\ memory_data' = Middle + sine_memory[QuarterAddress(address)]
      BY <2>2 DEF SineClock
    <3>3. QED
      BY <2>1, <3>1, <3>2 DEF SineInv
  <2>3. CASE UNCHANGED sineVars
    BY <2>3 DEF sineVars, SineInv
  <2>4. QED
    BY <2>2, <2>3
<1>3. SineInv => SineIsWhole
  <2> SUFFICES ASSUME SineInv, sampled # -1
               PROVE  SineData = Wave(sine_memory, sampled)
    BY DEF SineIsWhole
  <2> DEFINE height == sine_memory[QuarterAddress(sampled)]
  <2>1. /\ QUARTER \in Nat \ {0} /\ Middle = 512 /\ 2 ^ DATA_BITS = 1024
        /\ sampled \in 0 .. 4 * QUARTER - 1 /\ memory_data = 512 + height
        /\ address = IF sampled = 4 * QUARTER - 1 THEN 0 ELSE sampled + 1
        /\ address \in 0 .. 4 * QUARTER - 1
    BY TenBits, QuarterAssumption DEF SineInv
  <2>2. /\ height \in 0 .. 511
        /\ sampled = 2 * QUARTER - 1 \/ sampled = 4 * QUARTER - 1 => height = 0
        /\ Wave(sine_memory, sampled) = IF sampled < 2 * QUARTER THEN 512 + height ELSE 512 - height
    BY <2>1, SampleMakesWave DEF SineInv
  <2>3. Quadrant(address) \in {0, 1} <=> address < 2 * QUARTER
    BY <2>1, QuarterOf
  <2> HIDE DEF height
  <2>4. SineData = IF address < 2 * QUARTER THEN memory_data ELSE (1024 - memory_data) % 1024
    BY <2>1, <2>3 DEF SineData
  <2>5. (1024 - memory_data) % 1024 = 512 - height
    BY <2>1, <2>2, SMT
  <2>6. QED
    BY <2>1, <2>2, <2>4, <2>5
<1>4. QED
  BY <1>1, <1>2, <1>3, PTL DEF SineSpec

(***************************************************************************)
(* miniproject03++ with the widths of its source.                           *)
(***************************************************************************)
SourceWidths == PHASE_BITS = 32 /\ DATA_BITS = 10 /\ QUARTER = 128

LEMMA AccumulatorBits ==
    ASSUME SourceWidths
    PROVE  /\ 2 ^ PHASE_BITS = 4294967296 /\ 2 ^ (PHASE_BITS - 1) = 2147483648
           /\ 2 ^ PHASE_BITS \div (4 * QUARTER) = 8388608
           /\ \A f \in 0 .. 3 : PhaseIncrements[f] \in Nat /\ PhaseIncrements[f] <= 8388608
<1>1. 2 ^ PHASE_BITS = 2 ^ 32
  BY Zenon DEF SourceWidths
<1>2. PHASE_BITS - 1 = 31
  BY DEF SourceWidths
<1>3. 2 ^ (PHASE_BITS - 1) = 2 ^ 31
  BY <1>2, Zenon
<1>4. 2 ^ PHASE_BITS = 4294967296 /\ 2 ^ (PHASE_BITS - 1) = 2147483648
  BY <1>1, <1>3, SMT
<1>5. 2 ^ PHASE_BITS \div (4 * QUARTER) = 8388608
  BY <1>4, SMT DEF SourceWidths
<1>6. ASSUME NEW f \in 0 .. 3
      PROVE  PhaseIncrements[f] \in Nat /\ PhaseIncrements[f] <= 8388608
  <2> DEFINE most == 2 ^ PHASE_BITS \div (4 * QUARTER)
  <2>1. most = 8388608
    BY <1>5, SMT
  <2>2. most \in Int
    BY <2>1, SMT
  <2>3. PhaseIncrements \in [0 .. 3 -> 1 .. most]
    BY GeneratorAssumption, SMT
  <2> HIDE DEF most
  <2>4. PhaseIncrements[f] \in Nat /\ PhaseIncrements[f] <= most
    BY <2>2, <2>3, SMT
  <2>5. QED
    BY <2>1, <2>4, SMT
<1>7. QED
  BY <1>4, <1>5, <1>6, SMT

\* The triangle from the bits of the accumulator, and from its definition.
LEMMA Triangle ==
    ASSUME NEW p \in Nat, p < 4294967296
    PROVE  LET ramp == (p % 2147483648) \div 2097152
               fold == IF 2 * p < 4294967296 THEN 2 * p ELSE 2 * (4294967296 - p) - 1
           IN  (IF p < 2147483648 THEN ramp ELSE 1023 - ramp) = (fold * 1024) \div 4294967296
<1> DEFINE u == p % 2147483648
           a == u \div 2097152
           b == u % 2097152
<1>1. /\ u \in Nat /\ u < 2147483648
      /\ p = IF p < 2147483648 THEN u ELSE 2147483648 + u
  BY SMT
<1> HIDE DEF u
<1>2. u = 2097152 * a + b /\ b \in Nat /\ b < 2097152 /\ a \in Nat /\ a < 1024
  BY <1>1, SMT
<1> HIDE DEF a, b
<1>3. CASE p < 2147483648
  <2>1. (2 * p) * 1024 = 4294967296 * a + 2048 * b
    BY <1>1, <1>2, <1>3, SMT
  <2>2. ((2 * p) * 1024) \div 4294967296 = a
    BY <1>2, <2>1, SMT
  <2>3. QED
    BY <1>3, <2>2, SMT DEF a, u
<1>4. CASE ~(p < 2147483648)
  <2>1. (2 * (4294967296 - p) - 1) * 1024
            = 4294967296 * (1023 - a) + (4294967296 - 2048 * b - 1024)
    BY <1>1, <1>2, <1>4, SMT
  <2>2. ((2 * (4294967296 - p) - 1) * 1024) \div 4294967296 = 1023 - a
    BY <1>2, <2>1, SMT
  <2>3. QED
    BY <1>4, <2>2, SMT DEF a, u
<1>5. QED
  BY <1>3, <1>4, SMT

\* The phase goes on by at most one at each edge.
LEMMA PhaseMoves ==
    ASSUME NEW p \in Nat, p < 4294967296, NEW d \in Nat, d <= 8388608,
           NEW n, n = (p + d) % 4294967296
    PROVE  LET before == p \div 8388608
               after  == n \div 8388608
           IN  /\ before \in 0 .. 511 /\ n \in Nat /\ n < 4294967296
               /\ after \in {before, IF before = 511 THEN 0 ELSE before + 1}
<1>1. n = (IF p + d < 4294967296 THEN p + d ELSE p + d - 4294967296)
  BY SMT
<1>2. QED
  BY <1>1, SMT

GeneratorInv ==
    /\ freq_sel \in 0 .. 3 /\ phase_acc \in Nat /\ phase_acc < 4294967296
    /\ generator_memory \in Quarters
    /\ sampled_phase # -1 =>
          /\ sampled_phase \in 0 .. 511
          /\ Phase \in {sampled_phase, IF sampled_phase = 511 THEN 0 ELSE sampled_phase + 1}
          /\ quarter_data = generator_memory[QuarterAddress(sampled_phase)]

(***************************************************************************)
(* With the widths of the source, for any quarter and any frequencies that  *)
(* do not skip a sample, whatever the buttons do: the converter gets the    *)
(* whole sine, one edge late, and the triangle of the accumulator.          *)
(***************************************************************************)
THEOREM WavesAreWholeHolds ==
    ASSUME SourceWidths
    PROVE  GeneratorSpec => []WavesAreWhole
<1>0. /\ QUARTER = 128 /\ DATA_BITS = 10 /\ 2 ^ PHASE_BITS = 4294967296
      /\ 2 ^ (PHASE_BITS - 1) = 2147483648
  BY AccumulatorBits, SMT DEF SourceWidths
<1>1. GeneratorInit => GeneratorInv
  BY SMT DEF GeneratorInit, GeneratorInv
<1>2. GeneratorInv /\ [GeneratorNext]_generatorVars => GeneratorInv'
  <2> SUFFICES ASSUME GeneratorInv, [GeneratorNext]_generatorVars
               PROVE  GeneratorInv'
    OBVIOUS
  <2>1. ASSUME NEW down \in SUBSET Buttons, GeneratorClock(down)
        PROVE  GeneratorInv'
    <3>1. /\ phase_acc' = (phase_acc + PhaseIncrements[freq_sel]) % 4294967296
          /\ sampled_phase' = Phase /\ generator_memory' = generator_memory
          /\ quarter_data' = generator_memory[QuarterAddress(Phase)]
      BY <1>0, <2>1, SMT DEF GeneratorClock, PhaseClock
    <3>2. freq_sel' \in 0 .. 3
      BY <2>1, SMT DEF GeneratorClock, GeneratorInv, Advanced
    <3>3. PICK d \in Nat : d = PhaseIncrements[freq_sel] /\ d <= 8388608
      BY AccumulatorBits, SMT DEF GeneratorInv
    <3>4. /\ Phase = phase_acc \div 8388608 /\ Phase' = phase_acc' \div 8388608
          /\ phase_acc' = (phase_acc + d) % 4294967296
          /\ phase_acc \in Nat /\ phase_acc < 4294967296
      BY <3>1, <3>3, AccumulatorBits, SMT DEF GeneratorInv, Phase
    <3>5. /\ Phase \in 0 .. 511
          /\ Phase' \in {Phase, IF Phase = 511 THEN 0 ELSE Phase + 1}
          /\ phase_acc' \in Nat /\ phase_acc' < 4294967296
      BY <3>3, <3>4, PhaseMoves, SMT
    <3>6. QED
      BY <3>1, <3>2, <3>5, SMT DEF GeneratorInv
  <2>2. CASE UNCHANGED generatorVars
    BY <2>2, SMT DEF generatorVars, selectionVars, GeneratorInv, Phase
  <2>3. QED
    BY <2>1, <2>2 DEF GeneratorNext
<1>3. 0 # 1 /\ 0 # 2 /\ 1 # 2
  OBVIOUS
<1>4. GeneratorInv => WavesAreWhole
  <2> SUFFICES ASSUME GeneratorInv
               PROVE  WavesAreWhole
    OBVIOUS
  <2>1. ASSUME waveform_sel = 0, sampled_phase # -1
        PROVE  dac_out = Wave(generator_memory, sampled_phase)
    <3> DEFINE height == generator_memory[QuarterAddress(sampled_phase)]
    <3>1. /\ sampled_phase \in 0 .. 511 /\ quarter_data = height /\ Middle = 512
          /\ Phase \in {sampled_phase, IF sampled_phase = 511 THEN 0 ELSE sampled_phase + 1}
      BY <1>0, <2>1, TenBits, SMT DEF GeneratorInv
    <3>2. /\ height \in 0 .. 511
          /\ sampled_phase = 255 \/ sampled_phase = 511 => height = 0
          /\ Wave(generator_memory, sampled_phase) =
                IF sampled_phase < 256 THEN 512 + height ELSE 512 - height
      <4>1. /\ sampled_phase \in 0 .. 4 * QUARTER - 1 /\ generator_memory \in Quarters
            /\ DATA_BITS = 10
        BY <1>0, <3>1, SMT DEF GeneratorInv
      <4>2. /\ height \in 0 .. 511
            /\ sampled_phase = 2 * QUARTER - 1 \/ sampled_phase = 4 * QUARTER - 1 => height = 0
            /\ Wave(generator_memory, sampled_phase) =
                  IF sampled_phase < 2 * QUARTER THEN 512 + height ELSE 512 - height
        BY <4>1, SampleMakesWave
      <4>3. QED
        BY <1>0, <3>1, <4>2, SMT
    <3>3. Quadrant(Phase) \in {0, 1} <=> Phase < 256
      BY <1>0, <3>1, QuarterOf, SMT
    <3> HIDE DEF height
    <3>4. data_sine = IF Phase < 256 THEN 512 + height ELSE 512 - height
      BY <3>1, <3>3, SMT DEF data_sine
    <3>5. dac_out = data_sine
      BY <1>3, <2>1, Zenon DEF dac_out
    <3>6. QED
      BY <3>1, <3>2, <3>4, <3>5, SMT
  <2>2. ASSUME waveform_sel = 1
        PROVE  LET turn == 2 ^ PHASE_BITS
                   fold == IF 2 * phase_acc < turn THEN 2 * phase_acc
                           ELSE 2 * (turn - phase_acc) - 1
               IN  dac_out = (fold * 2 ^ DATA_BITS) \div turn
    <3>1. dac_out = data_tri
      BY <1>3, <2>2, Zenon DEF dac_out
    <3>2. data_tri = LET ramp == (phase_acc % 2147483648) \div 2097152
                     IN  IF phase_acc < 2147483648 THEN ramp ELSE 1023 - ramp
      BY <1>0, TenBits, SMT DEF data_tri
    <3>3. QED
      BY <1>0, <3>1, <3>2, TenBits, Triangle, SMT DEF GeneratorInv
  <2>3. QED
    BY <2>1, <2>2, Zenon DEF WavesAreWhole
<1>5. QED
  BY <1>1, <1>2, <1>4, PTL DEF GeneratorSpec

-----------------------------------------------------------------------------
(***************************************************************************)
(* The two sorts.  Behind sort_i every element is at most all later ones,   *)
(* and the one at sort_i at most those that the inner loop has passed; the  *)
(* bound of the outer loop is the last place, or out of reach.              *)
(***************************************************************************)
Placed ==
    /\ sort_j <= array_size
    /\ array_size > 0 => sort_i < array_size /\ sort_i < sort_j
    /\ Rearranges(sorted, numbers)
    /\ \A k, l \in Places : k < sort_i /\ k < l => sorted[k] <= sorted[l]
    /\ \A k \in Places : sort_i < k /\ k < sort_j => sorted[sort_i] <= sorted[k]

SortInv ==
    /\ SortTypeOK
    /\ sort_at = "called" => sort_i = 0
    /\ sort_at = "copy" =>
          sort_i <= array_size /\ \A k \in Places : k < sort_i => sorted[k] = numbers[k]
    /\ sort_at = "sort" => (array_size > 0 => Placed)
    /\ sort_at = "returned" /\ array_size > 0 => Rearranges(sorted, numbers) /\ Ascends(sorted)

\* Numbers of size_t are their own remainders.
LEMMA SizeTypeWraps ==
    ASSUME NEW n \in Int
    PROVE  /\ n % SIZE_VALUES \in 0 .. SIZE_VALUES - 1
           /\ n \in 0 .. SIZE_VALUES - 1 => n % SIZE_VALUES = n
  BY SortAssumption

\* A new round of the outer loop starts with the last place ahead.
LEMMA SizesAre ==
    ASSUME SortTypeOK
    PROVE  /\ array_size \in Nat /\ array_size < SIZE_VALUES /\ SIZE_VALUES \in Nat
           /\ LastPlace \in 0 .. SIZE_VALUES - 1
           /\ array_size > 0 => LastPlace = array_size - 1
           /\ \A k \in Places : sorted[k] \in Int /\ sorted[k] \in Elements
           /\ Places \subseteq Nat
<1>1. array_size \in Nat /\ array_size < SIZE_VALUES /\ SIZE_VALUES \in Nat
  BY SortAssumption DEF SortTypeOK
<1>2. /\ LastPlace \in 0 .. SIZE_VALUES - 1
      /\ array_size > 0 => LastPlace = array_size - 1
  BY <1>1, SizeTypeWraps DEF LastPlace
<1>3. \A k \in Places : sorted[k] \in Int /\ sorted[k] \in Elements
  BY SortAssumption DEF SortTypeOK
<1>4. QED
  BY <1>1, <1>2, <1>3 DEF Places

\* An array rearranges itself.
LEMMA Itself ==
    ASSUME NEW array, NEW before, \A k \in Places : array[k] = before[k]
    PROVE  Rearranges(array, before)
<1>1. [k \in Places |-> k] \in [Places -> Places]
  OBVIOUS
<1>2. QED
  BY <1>1 DEF Rearranges

\* swap() rearranges.
LEMMA SwapRearranges ==
    ASSUME NEW array \in [Places -> Elements], NEW before, Rearranges(array, before),
           NEW left \in Places, NEW right \in Places
    PROVE  /\ swap(array, left, right) \in [Places -> Elements]
           /\ Rearranges(swap(array, left, right), before)
<1>1. PICK from \in [Places -> Places] :
          /\ \A k, l \in Places : from[k] = from[l] => k = l
          /\ \A k \in Places : array[k] = before[from[k]]
  BY DEF Rearranges
<1> DEFINE swapped == [from EXCEPT ![left] = from[right], ![right] = from[left]]
<1>2. swapped \in [Places -> Places]
  OBVIOUS
<1>3. \A k, l \in Places : swapped[k] = swapped[l] => k = l
  BY <1>1
<1>4. \A k \in Places : swap(array, left, right)[k] = before[swapped[k]]
  BY <1>1 DEF swap
<1>5. QED
  BY <1>2, <1>3, <1>4 DEF Rearranges, swap

\* A round of the inner loop.
LEMMA InnerPlaces ==
    ASSUME SortInv, InnerRound, array_size > 0
    PROVE  sorted' \in [Places -> Elements] /\ Placed'
<1>1. /\ sort_at = "sort" /\ sort_i < array_size - 1 /\ sort_j < array_size
      /\ sort_i \in Nat /\ sort_j \in Nat /\ sort_i < sort_j
      /\ sort_j' = sort_j + 1
      /\ UNCHANGED <<array_size, numbers, sort_i>>
      /\ Placed
  BY SizesAre DEF SortInv, SortTypeOK, InnerRound, Placed
<1>2. sort_i \in Places /\ sort_j \in Places /\ Places' = Places
  BY <1>1, SizesAre DEF Places, SortInv
<1>3. sorted \in [Places -> Elements] /\ \A k \in Places : sorted[k] \in Int
  BY SizesAre DEF SortInv, SortTypeOK
<1>4. CASE sorted[sort_j] < sorted[sort_i]
  <2>1. sorted' = swap(sorted, sort_i, sort_j)
    BY <1>4 DEF InnerRound
  <2>2. sorted' \in [Places -> Elements] /\ Rearranges(sorted', numbers)
    BY <1>1, <1>2, <1>3, <2>1, SwapRearranges DEF Placed
  <2>3. \A k \in Places : sorted'[k] = IF k = sort_i THEN sorted[sort_j]
                                      ELSE IF k = sort_j THEN sorted[sort_i] ELSE sorted[k]
    BY <1>1, <1>2, <1>3, <2>1 DEF swap
  <2>4. \A k, l \in Places : k < sort_i /\ k < l => sorted'[k] <= sorted'[l]
    <3> SUFFICES ASSUME NEW k \in Places, NEW l \in Places, k < sort_i, k < l
                 PROVE  sorted'[k] <= sorted'[l]
      OBVIOUS
    <3>1. sorted'[k] = sorted[k] /\ k < sort_j
      BY <1>1, <2>3, SizesAre DEF SortInv
    <3>2. sorted[k] <= sorted[sort_i] /\ sorted[k] <= sorted[sort_j] /\ sorted[k] <= sorted[l]
      BY <1>1, <1>2, <3>1 DEF Placed
    <3>3. QED
      BY <2>3, <3>1, <3>2
  <2>5. \A k \in Places : sort_i < k /\ k < sort_j + 1 => sorted'[sort_i] <= sorted'[k]
    <3> SUFFICES ASSUME NEW k \in Places, sort_i < k, k < sort_j + 1
                 PROVE  sorted'[sort_i] <= sorted'[k]
      OBVIOUS
    <3>1. sorted'[sort_i] = sorted[sort_j]
      BY <1>2, <2>3
    <3>2. CASE k = sort_j
      BY <1>1, <1>2, <1>3, <1>4, <2>3, <3>1, <3>2
    <3>3. CASE k # sort_j
      <4>1. k < sort_j /\ sorted'[k] = sorted[k]
        BY <1>1, <2>3, <3>3, SizesAre DEF SortInv
      <4>2. sorted[sort_i] <= sorted[k]
        BY <1>1, <4>1 DEF Placed
      <4>3. QED
        BY <1>2, <1>3, <1>4, <3>1, <4>1, <4>2
    <3>4. QED
      BY <3>2, <3>3
  <2>6. Rearranges(sorted, numbers)'
    BY <1>1, <1>2, <2>2 DEF Rearranges
  <2>7. QED
    BY <1>1, <1>2, <2>2, <2>4, <2>5, <2>6, SizesAre DEF Placed, SortInv
<1>5. CASE ~(sorted[sort_j] < sorted[sort_i])
  <2>1. sorted' = sorted
    BY <1>5 DEF InnerRound
  <2>2. Rearranges(sorted, numbers)'
    BY <1>1, <1>2, <2>1 DEF Rearranges, Placed
  <2>3. \A k \in Places : sort_i < k /\ k < sort_j + 1 => sorted[sort_i] <= sorted[k]
    BY <1>1, <1>2, <1>3, <1>5, SizesAre DEF Placed, SortInv
  <2>4. QED
    BY <1>1, <1>2, <1>3, <2>1, <2>2, <2>3, SizesAre DEF Placed, SortInv
<1>6. QED
  BY <1>4, <1>5

\* The outer loop begins with the first place, and every later round with the next.
LEMMA OuterStarts ==
    ASSUME SortTypeOK, SortTypeOK', array_size > 0, array_size' = array_size,
           sort_i' = 0, sort_j' = 1, Rearranges(sorted, numbers)'
    PROVE  Placed'
<1>1. array_size \in Nat /\ Places \subseteq Nat /\ Places' = Places
  BY SizesAre DEF Places
<1>2. \A k \in Places : ~(0 < k /\ k < 1) /\ ~(k < 0)
  BY <1>1
<1>3. QED
  BY <1>1, <1>2 DEF Placed

LEMMA OuterPlaces ==
    ASSUME SortInv, OuterRound, array_size > 0
    PROVE  Placed' /\ sort_i' \in 0 .. array_size - 1 /\ sort_j' \in 0 .. array_size
<1>1. /\ sort_i < array_size - 1 /\ sort_i \in Nat /\ sort_j \in Nat
      /\ Placed /\ sort_j = array_size /\ array_size \in Nat /\ array_size < SIZE_VALUES
  BY SizesAre DEF SortInv, SortTypeOK, OuterRound, Placed
<1>2. /\ sort_i' = sort_i + 1 /\ sort_j' = sort_i + 2
      /\ UNCHANGED <<array_size, numbers, sorted>> /\ Places' = Places
  BY <1>1, SizesAre, SizeTypeWraps DEF OuterRound, Places, SortInv
<1>3. Rearranges(sorted, numbers)'
  BY <1>1, <1>2 DEF Rearranges, Placed
<1>4. \A k, l \in Places : k < sort_i + 1 /\ k < l => sorted[k] <= sorted[l]
  <2> SUFFICES ASSUME NEW k \in Places, NEW l \in Places, k < sort_i + 1, k < l
               PROVE  sorted[k] <= sorted[l]
    OBVIOUS
  <2>1. k \in Nat /\ l \in Nat /\ l < array_size
    BY <1>1 DEF Places
  <2>2. k < sort_i \/ k = sort_i
    BY <1>1, <2>1
  <2>3. QED
    BY <1>1, <2>1, <2>2 DEF Placed
<1>5. \A k \in Places : ~(sort_i + 1 < k /\ k < sort_i + 2)
  BY <1>1 DEF Places
<1>6. QED
  BY <1>1, <1>2, <1>3, <1>4, <1>5 DEF Placed

LEMMA SortStep == SortInv /\ [SortNext]_sortVars => SortInv'
<1> SUFFICES ASSUME SortInv, [SortNext]_sortVars
             PROVE  SortInv'
  OBVIOUS
<1>0. SortTypeOK /\ array_size \in Nat /\ array_size < SIZE_VALUES /\ SIZE_VALUES \in Nat
  BY SizesAre DEF SortInv
<1>s. 1 % SIZE_VALUES \in 0 .. SIZE_VALUES - 1 /\ (array_size > 0 => 1 % SIZE_VALUES = 1)
  BY <1>0, SizeTypeWraps
<1>1. CASE CallInplace
  <2>1. SortTypeOK' /\ sort_at' = "sort"
    BY <1>0, <1>1, <1>s DEF SortTypeOK, CallInplace, Places
  <2>2. Rearranges(sorted, numbers)'
    <3>1. Rearranges(numbers, numbers)
      BY Itself
    <3>2. QED
      BY <1>1, <3>1 DEF CallInplace, Rearranges, Places
  <2>3. array_size > 0 => Placed'
    BY <1>0, <1>1, <1>s, <2>1, <2>2, OuterStarts DEF CallInplace
  <2>4. QED
    BY <1>1, <2>1, <2>3 DEF SortInv, CallInplace
<1>2. CASE CallCopy
  <2>1. sort_i = 0 /\ \A k \in Places : ~(k < 0)
    BY <1>0, <1>2 DEF SortInv, CallCopy, Places
  <2>2. QED
    BY <1>0, <1>2, <2>1 DEF SortInv, SortTypeOK, CallCopy, sortLoops, Places
<1>3. CASE CopyRound
  <2>1. /\ sort_at = "copy" /\ sort_i < array_size /\ sort_i \in Places /\ sort_i \in Nat
        /\ sort_i' = sort_i + 1 /\ Places' = Places
        /\ UNCHANGED <<sort_at, array_size, numbers, sort_j>>
    BY <1>0, <1>3 DEF SortTypeOK, CopyRound, Places
  <2>2. sorted' = [sorted EXCEPT ![sort_i] = numbers[sort_i]]
    BY <1>3 DEF CopyRound
  <2>3. sorted' \in [Places -> Elements]
    BY <1>0, <2>1, <2>2 DEF SortTypeOK
  <2>4. \A k \in Places : k < sort_i + 1 => sorted'[k] = numbers[k]
    <3> SUFFICES ASSUME NEW k \in Places, k < sort_i + 1
                 PROVE  sorted'[k] = numbers[k]
      OBVIOUS
    <3>1. k = sort_i \/ k < sort_i
      BY <1>0, <2>1 DEF Places
    <3>2. QED
      BY <1>0, <2>1, <2>2, <3>1 DEF SortInv, SortTypeOK
  <2>5. QED
    BY <1>0, <2>1, <2>3, <2>4 DEF SortInv, SortTypeOK
<1>4. CASE Copied
  <2>1. SortTypeOK' /\ sort_at' = "sort"
    BY <1>0, <1>4, <1>s DEF SortTypeOK, Copied, Places
  <2>2. \A k \in Places : sorted[k] = numbers[k]
    BY <1>0, <1>4 DEF SortInv, SortTypeOK, Copied, Places
  <2>3. Rearranges(sorted, numbers)'
    <3>1. Rearranges(sorted, numbers)
      BY <2>2, Itself
    <3>2. QED
      BY <1>4, <3>1 DEF Copied, Rearranges, Places
  <2>4. array_size > 0 => Placed'
    BY <1>0, <1>4, <1>s, <2>1, <2>3, OuterStarts DEF Copied
  <2>5. QED
    BY <1>4, <2>1, <2>4 DEF SortInv, Copied
<1>5. CASE InnerRound
  <2>1. /\ array_size > 0 /\ sort_j' \in 0 .. SIZE_VALUES - 1 /\ Places' = Places
        /\ UNCHANGED <<sort_at, array_size, numbers, sort_i>> /\ sort_at = "sort"
    BY <1>0, <1>5 DEF SortTypeOK, InnerRound, Places
  <2>2. sorted' \in [Places -> Elements] /\ Placed'
    BY <1>5, <2>1, InnerPlaces
  <2>3. QED
    BY <1>0, <2>1, <2>2 DEF SortInv, SortTypeOK
<1>6. CASE OuterRound
  <2>1. /\ UNCHANGED <<sort_at, array_size, numbers, sorted>> /\ sort_at = "sort"
        /\ Places' = Places
    BY <1>6 DEF OuterRound, Places
  <2>2. sort_i' \in 0 .. SIZE_VALUES - 1 /\ sort_j' \in 0 .. SIZE_VALUES - 1
    <3>1. sort_i' = sort_i + 1 /\ sort_i < LastPlace /\ sort_j' = (sort_i' + 1) % SIZE_VALUES
      BY <1>6 DEF OuterRound
    <3>2. sort_i \in Nat /\ LastPlace \in 0 .. SIZE_VALUES - 1
      BY <1>0, SizesAre DEF SortTypeOK
    <3>3. sort_i + 1 \in 0 .. SIZE_VALUES - 1 /\ (sort_i + 1) + 1 \in Int
      BY <1>0, <3>1, <3>2
    <3>4. QED
      BY <3>1, <3>3, SizeTypeWraps
  <2>3. array_size > 0 => Placed'
    BY <1>6, OuterPlaces
  <2>4. QED
    BY <1>0, <2>1, <2>2, <2>3 DEF SortInv, SortTypeOK
<1>7. CASE Sorted
  <2>1. /\ UNCHANGED <<array_size, numbers, sorted, sort_i, sort_j>> /\ sort_at = "sort"
        /\ sort_at' = "returned" /\ Places' = Places
    BY <1>7 DEF Sorted, Places, sortLoops
  <2>2. SortTypeOK'
    BY <1>0, <2>1 DEF SortTypeOK
  <2>3. ASSUME array_size > 0
        PROVE  Rearranges(sorted, numbers)' /\ Ascends(sorted)'
    <3>1. Placed /\ sort_i = array_size - 1
      BY <1>0, <1>7, <2>1, <2>3, SizesAre DEF SortInv, Sorted, Placed, SortTypeOK
    <3>2. \A k, l \in Places : k < l => k < sort_i
      BY <1>0, <3>1 DEF Places
    <3>3. QED
      BY <2>1, <3>1, <3>2 DEF Placed, Rearranges, Ascends
  <2>4. QED
    BY <2>1, <2>2, <2>3 DEF SortInv
<1>8. CASE UNCHANGED sortVars
  <2>1. Places' = Places /\ UNCHANGED <<sort_at, array_size, numbers, sorted, sort_i, sort_j>>
    BY <1>8 DEF sortVars, sortLoops, Places
  <2>2. QED
    BY <1>0, <2>1 DEF SortInv, SortTypeOK, Placed, Rearranges, Ascends
<1>9. QED
  BY <1>1, <1>2, <1>3, <1>4, <1>5, <1>6, <1>7, <1>8 DEF SortNext, SortReturned

(***************************************************************************)
(* For every size of array and of size_t, and any integers in the array,    *)
(* the invariant holds (array_sort.c).                                      *)
(***************************************************************************)
THEOREM SortInvariant == SortSpec => []SortInv
<1>1. SortInit => SortInv
  BY SortAssumption DEF SortInit, SortInv, SortTypeOK, Places
<1>2. QED
  BY <1>1, SortStep, PTL DEF SortSpec

(***************************************************************************)
(* For every size of array and any integers in it, what is returned holds   *)
(* the caller's numbers in ascending order; of the empty array, whose outer *)
(* loop runs to the largest value of size_t, nothing is touched             *)
(* (array_sort.c:5-26).                                                     *)
(***************************************************************************)
THEOREM SortsNumbersHolds == SortSpec => []SortsNumbers
<1>1. SortInv => SortsNumbers
  <2> SUFFICES ASSUME SortInv, sort_at = "returned"
               PROVE  Rearranges(sorted, numbers) /\ Ascends(sorted)
    BY DEF SortsNumbers
  <2>1. CASE array_size > 0
    BY <2>1 DEF SortInv
  <2>2. CASE array_size = 0
    <3>1. Places = {}
      BY <2>2 DEF Places
    <3>2. QED
      BY <3>1, Itself DEF Ascends
  <2>3. QED
    BY <2>1, <2>2, SizesAre DEF SortInv
<1>2. QED
  BY <1>1, SortInvariant, PTL

=============================================================================
