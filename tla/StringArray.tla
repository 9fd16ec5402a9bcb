----------------------------- MODULE StringArray -----------------------------
(***************************************************************************)
(* string_array.c.  An array owns a block of capacity + 1 slots, each with  *)
(* a pointer: NULL, the block of a string, or what malloc() and realloc()   *)
(* leave in a slot nobody has written.  heap tells what each block holds;   *)
(* a block that holds NULL is free.                                         *)
(***************************************************************************)
EXTENDS Integers, Sequences, FiniteSets

CONSTANTS
    Strings,        \* the strings a client adds
    Blocks,         \* the addresses malloc() may return for a string
    NULL,
    Uninitialised,  \* the pointer in a slot that was never written
    MaxCapacity     \* bound on the capacities of a behaviour

ASSUME StringArrayAssumption ==
    /\ NULL \notin Strings \cup Blocks \cup {Uninitialised}
    /\ Uninitialised \notin Blocks
    /\ MaxCapacity \in Nat

VARIABLES
    made,           \* make_string_array() ran, free_string_array() not yet
    strings, size, capacity,
    heap

arrayVars == <<made, strings, size, capacity, heap>>

\* The indices of a block of n slots.
Below(n) == 0 .. n - 1

ArrayTypeOK ==
    /\ made \in BOOLEAN
    /\ size \in Nat /\ capacity \in Nat
    /\ size <= capacity
    /\ strings \in [0 .. capacity -> Blocks \cup {NULL, Uninitialised}]
    /\ heap \in [Blocks -> Strings \cup {NULL}]

\* A block of slots whose first is the sentinel.
NoStrings(c) == [i \in 0 .. c |-> IF i = 0 THEN NULL ELSE Uninitialised]

ArrayInit ==
    /\ made = FALSE
    /\ size = 0 /\ capacity = 0
    /\ strings = NoStrings(0)
    /\ heap = [b \in Blocks |-> NULL]

-----------------------------------------------------------------------------
make_string_array(c) ==
    /\ ~made
    /\ made' = TRUE
    /\ size' = 0
    /\ capacity' = c
    /\ strings' = NoStrings(c)
    /\ UNCHANGED heap

\* Mutant: the loop begins one slot early.
FreedFrom_Early(first) ==
    [b \in Blocks |-> IF \E i \in Below(size) : first - 1 <= i /\ strings[i] = b
                   THEN NULL ELSE heap[b]]

\* heap after free() of the strings from a slot on.
FreedFrom(first) ==
    [b \in Blocks |-> IF \E i \in Below(size) : first <= i /\ strings[i] = b
                   THEN NULL ELSE heap[b]]

free_string_array ==
    /\ made
    /\ made' = FALSE
    /\ size' = 0 /\ capacity' = 0
    /\ strings' = NoStrings(0)
    /\ heap' = FreedFrom(0)

\* Mutant: the sentinel is left out where a resize cuts the array.
Resized_NoSentinel(c) ==
    [i \in 0 .. c |-> IF i <= capacity THEN strings[i] ELSE Uninitialised]

\* realloc() to c + 1 slots, and the sentinel in the last of them.
Resized(c) ==
    [i \in 0 .. c |-> IF i = c THEN NULL
                      ELSE IF i <= capacity THEN strings[i] ELSE Uninitialised]

\* Mutant: the strings over the new capacity are dropped but not freed.
resize_Leak(c) ==
    /\ made
    /\ size' = IF c < size THEN c ELSE size
    /\ capacity' = c
    /\ strings' = Resized(c)
    /\ UNCHANGED <<made, heap>>

resize(c) ==
    /\ made
    /\ size' = IF c < size THEN c ELSE size
    /\ capacity' = c
    /\ strings' = Resized(c)
    /\ heap' = FreedFrom(c)
    /\ UNCHANGED made

\* Mutant: the array grows one string late.
Grown_Late == IF size <= capacity THEN capacity ELSE 2 * capacity

\* The capacity add_string() needs.
Grown == IF size < capacity THEN capacity
         ELSE IF capacity = 0 THEN 1 ELSE 2 * capacity

\* The string goes where the sentinel was, and the sentinel after it.
add_string(string) ==
    /\ made
    /\ \E b \in Blocks :
          /\ heap[b] = NULL
          /\ heap' = [heap EXCEPT ![b] = string]
          /\ strings' = [(IF size = capacity THEN Resized(Grown) ELSE strings)
                            EXCEPT ![size] = b, ![size + 1] = NULL]
    /\ size' = size + 1
    /\ capacity' = Grown
    /\ UNCHANGED made

ArrayNext ==
    \/ \E c \in 0 .. MaxCapacity : make_string_array(c) \/ resize(c)
    \/ free_string_array
    \/ \E string \in Strings : Grown <= MaxCapacity /\ add_string(string)

ArraySpec == ArrayInit /\ [][ArrayNext]_arrayVars

-----------------------------------------------------------------------------
(***************************************************************************)
(* A reader that runs to the first NULL sees exactly the strings of the     *)
(* array: the sentinel is after the last string, whatever sequence of       *)
(* resizes and additions moved it, and no slot before it is NULL or was     *)
(* never written (string_array.h:13-16, string_array.c:43 and 65).          *)
(***************************************************************************)
SentinelAfterLast ==
    made => /\ strings[size] = NULL
            /\ \A i \in Below(size) : strings[i] \in Blocks

(***************************************************************************)
(* Every string allocated belongs to exactly one slot before the sentinel:  *)
(* none is leaked by a resize, freed twice or used after free(), and none   *)
(* outlives its array (string_array.c:26-30 and 36-38).                     *)
(***************************************************************************)
SlotsOwnHeap ==
    \A b \in Blocks :
        heap[b] # NULL <=> \E i \in Below(size) : strings[i] = b

NoSlotShared ==
    \A i, j \in Below(size) : strings[i] = strings[j] => i = j

OwnsItsStrings == SlotsOwnHeap /\ NoSlotShared

(***************************************************************************)
(* The two parts of the library's contract with its clients: what they read *)
(* ends, and what they are given back is all there was (string_array.c).    *)
(***************************************************************************)
StringsAreKept == SentinelAfterLast /\ OwnsItsStrings

(***************************************************************************)
(* The array is the list of its header: add appends, resize cuts, and       *)
(* nothing else changes a string (string_array.h:50-92).                    *)
(***************************************************************************)
List == INSTANCE StringList
          WITH list <- [k \in 1 .. size |-> heap[strings[k - 1]]]

ImplementsStringList == List!Spec

=============================================================================
