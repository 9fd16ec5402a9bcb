----------------------------- MODULE StringList -----------------------------
(***************************************************************************)
(* What string_array.h promises: a list of strings that grows at its end    *)
(* and is cut by a resize to less than its length.                          *)
(***************************************************************************)
EXTENDS Integers, Sequences

CONSTANT Strings

VARIABLES made, list

vars == <<made, list>>

Init == made = FALSE /\ list = <<>>

Make == ~made /\ made' = TRUE /\ list' = <<>>

Free == made /\ made' = FALSE /\ list' = <<>>

Add(string) == made /\ list' = Append(list, string) /\ UNCHANGED made

\* A resize to less than the length; what is left is unchanged.
Cut(length) ==
    /\ made
    /\ list' = SubSeq(list, 1, length)
    /\ UNCHANGED made

Next ==
    \/ Make \/ Free
    \/ \E string \in Strings : Add(string)
    \/ \E length \in 0 .. Len(list) : Cut(length)

Spec == Init /\ [][Next]_vars

=============================================================================
