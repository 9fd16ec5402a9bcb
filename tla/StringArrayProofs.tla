-------------------------- MODULE StringArrayProofs --------------------------
(***************************************************************************)
(* The string array keeps its sentinel and owns its strings, whatever the   *)
(* sequence of resizes and additions, and is the list of its header.  The   *)
(* shell's tokeniser, over it, splits a line into its words.                *)
(***************************************************************************)
EXTENDS Shell, FiniteSetTheorems, TLAPS

(***************************************************************************)
(* The inductive invariant: an array that is not made owns nothing.         *)
(***************************************************************************)
ArrayInv ==
    /\ ArrayTypeOK
    /\ ~made => size = 0 /\ capacity = 0
    /\ SentinelAfterLast
    /\ OwnsItsStrings

-----------------------------------------------------------------------------
\* What an index of a block of n slots is.
LEMMA BelowIs == \A n \in Nat : \A i : i \in Below(n) <=> i \in Nat /\ i < n
  BY DEF Below

(***************************************************************************)
(* realloc() keeps the slots of both sizes and writes the new sentinel.     *)
(***************************************************************************)
LEMMA ResizedSlots ==
    ASSUME ArrayTypeOK, NEW c \in Nat
    PROVE  /\ Resized(c) \in [0 .. c -> Blocks \cup {NULL, Uninitialised}]
           /\ Resized(c)[c] = NULL
           /\ \A i \in Below(c) : i <= capacity => Resized(c)[i] = strings[i]
  BY BelowIs DEF ArrayTypeOK, Resized

(***************************************************************************)
(* The new capacity of add_string() leaves room for one more string, and is *)
(* the old one unless the array was full.                                   *)
(***************************************************************************)
LEMMA GrownFits ==
    ASSUME ArrayTypeOK
    PROVE  /\ Grown \in Nat /\ size + 1 <= Grown
           /\ size < capacity => Grown = capacity
  BY DEF ArrayTypeOK, Grown

\* free() leaves each block with a string or nothing.
LEMMA FreedHeap ==
    ASSUME ArrayTypeOK, NEW first \in Nat
    PROVE  FreedFrom(first) \in [Blocks -> Strings \cup {NULL}]
  BY DEF ArrayTypeOK, FreedFrom

-----------------------------------------------------------------------------
\* A block of slots without strings.
LEMMA NoStringsSlots ==
    ASSUME NEW c \in Nat
    PROVE  /\ NoStrings(c) \in [0 .. c -> Blocks \cup {NULL, Uninitialised}]
           /\ NoStrings(c)[0] = NULL
  BY DEF NoStrings

\* Nothing is owned by an array without strings, if nothing is allocated.
LEMMA EmptyOwns ==
    ASSUME size = 0, \A b \in Blocks : heap[b] = NULL
    PROVE  OwnsItsStrings
  BY BelowIs DEF OwnsItsStrings, SlotsOwnHeap, NoSlotShared

\* Nothing is made and nothing is allocated at first.
LEMMA ArrayStarts == ArrayInit => ArrayInv
<1> SUFFICES ASSUME ArrayInit PROVE ArrayInv
  OBVIOUS
<1>1. ArrayTypeOK
  <2>1. strings \in [0 .. 0 -> Blocks \cup {NULL, Uninitialised}]
    BY NoStringsSlots DEF ArrayInit
  <2>2. strings \in [0 .. capacity -> Blocks \cup {NULL, Uninitialised}]
    BY <2>1 DEF ArrayInit
  <2>3. heap \in [Blocks -> Strings \cup {NULL}]
    BY DEF ArrayInit
  <2>4. size \in Nat /\ capacity \in Nat /\ size <= capacity
    BY DEF ArrayInit
  <2>5. QED
    BY <2>2, <2>3, <2>4, Zenon DEF ArrayInit, ArrayTypeOK
<1>2. SentinelAfterLast
  BY BelowIs DEF ArrayInit, SentinelAfterLast
<1>3. OwnsItsStrings
  BY EmptyOwns DEF ArrayInit
<1>4. QED
  BY <1>1, <1>2, <1>3 DEF ArrayInit, ArrayInv

\* A new array is empty, whatever its block holds behind the sentinel
\* (string_array.c:13-21).
LEMMA MakeInv ==
    ASSUME ArrayInv, NEW c \in Nat, make_string_array(c)
    PROVE  ArrayInv'
<1>1. /\ size = 0 /\ size' = 0 /\ capacity' = c /\ made' = TRUE
      /\ strings' = NoStrings(c) /\ heap' = heap
  BY DEF make_string_array, ArrayInv
<1>2. ArrayTypeOK'
  BY <1>1, NoStringsSlots DEF ArrayInv, ArrayTypeOK
<1>3. SentinelAfterLast'
  BY <1>1, NoStringsSlots, BelowIs DEF SentinelAfterLast
<1>4. OwnsItsStrings'
  BY <1>1, BelowIs DEF ArrayInv, OwnsItsStrings, SlotsOwnHeap, NoSlotShared
<1>5. QED
  BY <1>1, <1>2, <1>3, <1>4 DEF ArrayInv

\* Freeing an array frees every string: those it owns are all there are
\* (string_array.c:23-31).
LEMMA FreeInv ==
    ASSUME ArrayInv, free_string_array
    PROVE  ArrayInv'
<1>1. \A b \in Blocks : heap'[b] = NULL
  BY BelowIs DEF ArrayInv, ArrayTypeOK, OwnsItsStrings, SlotsOwnHeap, free_string_array, FreedFrom
<1>2. /\ size' = 0 /\ capacity' = 0 /\ made' = FALSE /\ strings' = NoStrings(0)
      /\ heap' = FreedFrom(0)
  BY DEF free_string_array
<1>3. ArrayTypeOK'
  <2>1. strings' \in [0 .. 0 -> Blocks \cup {NULL, Uninitialised}]
    BY <1>2, NoStringsSlots
  <2>2. heap' \in [Blocks -> Strings \cup {NULL}]
    BY <1>2, FreedHeap DEF ArrayInv
  <2>3. strings' \in [0 .. capacity' -> Blocks \cup {NULL, Uninitialised}]
    BY <1>2, <2>1
  <2>4. size' \in Nat /\ capacity' \in Nat /\ size' <= capacity'
    BY <1>2
  <2>5. QED
    BY <1>2, <2>2, <2>3, <2>4, Zenon DEF ArrayTypeOK
<1>4. SentinelAfterLast'
  BY <1>2 DEF SentinelAfterLast
<1>5. OwnsItsStrings'
  BY <1>1, <1>2, BelowIs DEF OwnsItsStrings, SlotsOwnHeap, NoSlotShared
<1>6. QED
  BY <1>2, <1>3, <1>4, <1>5 DEF ArrayInv

(***************************************************************************)
(* A resize keeps the strings below both the old size and the new capacity. *)
(***************************************************************************)
LEMMA ResizeInv ==
    ASSUME ArrayInv, NEW c \in Nat, resize(c)
    PROVE  ArrayInv'
<1>0. ArrayTypeOK /\ SentinelAfterLast /\ SlotsOwnHeap /\ NoSlotShared
  BY DEF ArrayInv, OwnsItsStrings
<1>1. size \in Nat /\ capacity \in Nat /\ size <= capacity
  BY <1>0 DEF ArrayTypeOK
<1>2. /\ size' = (IF c < size THEN c ELSE size) /\ capacity' = c
      /\ strings' = Resized(c) /\ made' = made /\ made
      /\ heap' = FreedFrom(c)
  BY DEF resize
<1>3. /\ size' \in Nat /\ size' <= c /\ size' <= size
      /\ size' < c => size' = size
  BY <1>1, <1>2
<1>4. /\ strings' \in [0 .. capacity' -> Blocks \cup {NULL, Uninitialised}]
      /\ strings'[c] = NULL
  BY <1>0, <1>2, ResizedSlots
<1>5. \A i \in Below(c) : i <= size => strings'[i] = strings[i]
  BY <1>0, <1>1, <1>2, ResizedSlots, BelowIs
<1>6. ArrayTypeOK'
  <2>1. heap' \in [Blocks -> Strings \cup {NULL}]
    BY <1>0, <1>2, FreedHeap
  <2>2. QED
    BY <1>0, <1>2, <1>3, <1>4, <2>1 DEF ArrayTypeOK
<1>7. \A i \in Below(size') : i \in Below(size) /\ strings'[i] = strings[i]
  BY <1>1, <1>3, <1>5, BelowIs
<1>8. SentinelAfterLast'
  <2>1. strings'[size'] = NULL
    <3>1. CASE size' = c
      BY <3>1, <1>4
    <3>2. CASE size' # c
      BY <3>2, <1>0, <1>1, <1>2, <1>3, <1>5, BelowIs DEF SentinelAfterLast
    <3>3. QED
      BY <3>1, <3>2
  <2>2. QED
    BY <1>0, <1>2, <1>7, <2>1 DEF SentinelAfterLast
<1>9. NoSlotShared'
  BY <1>0, <1>7 DEF NoSlotShared
<1>10. SlotsOwnHeap'
  <2>1. SUFFICES ASSUME NEW b \in Blocks
                 PROVE  heap'[b] # NULL <=> \E i \in Below(size') : strings'[i] = b
    BY DEF SlotsOwnHeap
  <2>2. heap'[b] = IF \E i \in Below(size) : c <= i /\ strings[i] = b THEN NULL ELSE heap[b]
    BY <1>2 DEF FreedFrom
  <2>3. heap[b] # NULL <=> \E i \in Below(size) : strings[i] = b
    BY <1>0 DEF SlotsOwnHeap
  <2>4. \A i \in Below(size) : i \in Below(size') \/ c <= i
    BY <1>1, <1>2, BelowIs
  <2>5. \A i \in Below(size) : c <= i => i \notin Below(size')
    BY <1>1, <1>3, BelowIs
  <2>6. CASE \E i \in Below(size) : c <= i /\ strings[i] = b
    <3>1. \A j \in Below(size') : strings[j] # b
      BY <2>6, <2>5, <1>0, <1>7 DEF NoSlotShared
    <3>2. QED
      BY <2>2, <2>6, <3>1, <1>7
  <2>7. CASE ~\E i \in Below(size) : c <= i /\ strings[i] = b
    BY <2>2, <2>3, <2>4, <2>7, <1>7
  <2>8. QED
    BY <2>6, <2>7
<1>11. QED
  BY <1>2, <1>6, <1>8, <1>9, <1>10 DEF ArrayInv, OwnsItsStrings

(***************************************************************************)
(* A new string takes the slot of the sentinel, in a block nobody owned.    *)
(***************************************************************************)
LEMMA AddInv ==
    ASSUME ArrayInv, NEW string \in Strings, add_string(string)
    PROVE  ArrayInv'
<1>0. ArrayTypeOK /\ SentinelAfterLast /\ SlotsOwnHeap /\ NoSlotShared
  BY DEF ArrayInv, OwnsItsStrings
<1>1. PICK b \in Blocks :
        /\ heap[b] = NULL
        /\ heap' = [heap EXCEPT ![b] = string]
        /\ strings' = [(IF size = capacity THEN Resized(Grown) ELSE strings)
                          EXCEPT ![size] = b, ![size + 1] = NULL]
  BY DEF add_string
<1>2. /\ made /\ made' = made /\ size' = size + 1 /\ capacity' = Grown
      /\ size \in Nat /\ capacity \in Nat /\ size <= capacity
  BY <1>0 DEF add_string, ArrayTypeOK
<1>3. Grown \in Nat /\ size + 1 <= Grown /\ (size < capacity => Grown = capacity)
  BY <1>0, GrownFits
<1> DEFINE kept == IF size = capacity THEN Resized(Grown) ELSE strings
<1>4. /\ kept \in [0 .. Grown -> Blocks \cup {NULL, Uninitialised}]
      /\ \A i \in Below(size) : kept[i] = strings[i]
  <2>1. CASE size = capacity
    <3>1. kept = Resized(Grown)
      BY <2>1
    <3>2. \A i \in Below(size) : i \in Below(Grown) /\ i <= capacity
      BY <1>2, <1>3, BelowIs
    <3>3. QED
      BY <3>1, <3>2, <1>0, <1>3, ResizedSlots
  <2>2. CASE size # capacity
    BY <2>2, <1>0, <1>2, <1>3 DEF ArrayTypeOK
  <2>3. QED
    BY <2>1, <2>2
<1>5. strings' = [kept EXCEPT ![size] = b, ![size + 1] = NULL]
  BY <1>1
<1> HIDE DEF kept
<1>6. /\ strings' \in [0 .. capacity' -> Blocks \cup {NULL, Uninitialised}]
      /\ strings'[size] = b
      /\ strings'[size + 1] = NULL
      /\ \A i \in Below(size) : strings'[i] = strings[i]
  BY <1>2, <1>3, <1>4, <1>5, BelowIs
<1>7. ArrayTypeOK'
  <2>1. heap' \in [Blocks -> Strings \cup {NULL}]
    BY <1>0, <1>1 DEF ArrayTypeOK
  <2> QED BY <2>1, <1>2, <1>3, <1>6 DEF ArrayTypeOK
<1>8. SentinelAfterLast'
  <2>1. strings'[size'] = NULL
    BY <1>2, <1>6
  <2>2. ASSUME NEW i \in Below(size')  PROVE  strings'[i] \in Blocks
    <3>1. i = size \/ i \in Below(size)
      BY <1>0, <1>2, <2>2, BelowIs
    <3> QED BY <3>1, <1>0, <1>2, <1>6 DEF SentinelAfterLast
  <2> QED BY <2>1, <2>2 DEF SentinelAfterLast
<1>9. \A i \in Below(size) : strings[i] # b
  BY <1>0, <1>1 DEF SlotsOwnHeap
<1>10. NoSlotShared'
  BY <1>0, <1>2, <1>6, <1>9, BelowIs DEF NoSlotShared
<1>11. SlotsOwnHeap'
  <2>1. SUFFICES ASSUME NEW x \in Blocks
                 PROVE  heap'[x] # NULL <=> \E i \in Below(size') : strings'[i] = x
    BY DEF SlotsOwnHeap
  <2>2. CASE x = b
    <3>1. heap'[x] # NULL
      BY <2>2, <1>0, <1>1, StringArrayAssumption DEF ArrayTypeOK
    <3>2. size \in Below(size') /\ strings'[size] = x
      BY <2>2, <1>2, <1>6, BelowIs
    <3>3. QED
      BY <3>1, <3>2
  <2>3. CASE x # b
    <3>1. heap'[x] = heap[x]
      BY <2>3, <1>0, <1>1 DEF ArrayTypeOK
    <3>2. (\E i \in Below(size') : strings'[i] = x) <=> \E i \in Below(size) : strings[i] = x
      BY <2>3, <1>2, <1>6, BelowIs
    <3>3. QED
      BY <3>1, <3>2, <1>0 DEF SlotsOwnHeap
  <2>4. QED
    BY <2>2, <2>3
<1>12. QED
  BY <1>2, <1>7, <1>8, <1>10, <1>11 DEF ArrayInv, OwnsItsStrings

(***************************************************************************)
(* Any call of any client, without the bounds that ArrayNext has for TLC.   *)
(***************************************************************************)
LibraryCall ==
    \/ \E c \in Nat : make_string_array(c) \/ resize(c)
    \/ free_string_array
    \/ \E string \in Strings : add_string(string)

LEMMA ArrayNextCalls == ArrayNext => LibraryCall
<1>1. 0 .. MaxCapacity \subseteq Nat
  OBVIOUS
<1>2. QED
  BY <1>1, Zenon DEF ArrayNext, LibraryCall

\* Every call keeps the invariant.
LEMMA ArraySteps == ArrayInv /\ [ArrayNext]_arrayVars => ArrayInv'
<1> SUFFICES ASSUME ArrayInv, [ArrayNext]_arrayVars
             PROVE  ArrayInv'
  OBVIOUS
<1>0. 0 .. MaxCapacity \subseteq Nat
  OBVIOUS
<1>1. CASE \E c \in 0 .. MaxCapacity : make_string_array(c)
  BY <1>0, <1>1, MakeInv
<1>2. CASE \E c \in 0 .. MaxCapacity : resize(c)
  BY <1>0, <1>2, ResizeInv
<1>3. CASE free_string_array
  BY <1>3, FreeInv
<1>4. CASE \E string \in Strings : add_string(string)
  BY <1>4, AddInv
<1>5. CASE UNCHANGED arrayVars
  BY <1>5 DEF arrayVars, ArrayInv, ArrayTypeOK, SentinelAfterLast, OwnsItsStrings,
              SlotsOwnHeap, NoSlotShared
<1>6. QED
  BY <1>1, <1>2, <1>3, <1>4, <1>5 DEF ArrayNext

(***************************************************************************)
(* Every sequence of calls keeps the invariant.                             *)
(***************************************************************************)
THEOREM ArrayInvariant == ArraySpec => []ArrayInv
  BY ArrayStarts, ArraySteps, PTL DEF ArraySpec

(***************************************************************************)
(* No sequence of calls takes a field of the array out of its range.        *)
(***************************************************************************)
THEOREM ArrayTypeCorrect == ArraySpec => []ArrayTypeOK
<1>1. ArrayInv => ArrayTypeOK
  BY DEF ArrayInv
<1>2. QED
  BY <1>1, ArrayInvariant, PTL

(***************************************************************************)
(* The sentinel follows the last string for any strings and capacities.     *)
(***************************************************************************)
THEOREM SentinelHolds == ArraySpec => []SentinelAfterLast
<1>1. ArrayInv => SentinelAfterLast
  BY DEF ArrayInv
<1>2. QED
  BY <1>1, ArrayInvariant, PTL

(***************************************************************************)
(* No string is leaked, shared or used after it was freed.                  *)
(***************************************************************************)
THEOREM OwnershipHolds == ArraySpec => []OwnsItsStrings
<1>1. ArrayInv => OwnsItsStrings
  BY DEF ArrayInv
<1>2. QED
  BY <1>1, ArrayInvariant, PTL

(***************************************************************************)
(* For any capacities, strings and number of blocks, both parts of the      *)
(* library's contract hold (string_array.c).                                *)
(***************************************************************************)
THEOREM StringsAreKeptHolds == ArraySpec => []StringsAreKept
  BY SentinelHolds, OwnershipHolds, PTL DEF StringsAreKept

-----------------------------------------------------------------------------
(***************************************************************************)
(* What a reader of the array sees after the calls that change it.          *)
(***************************************************************************)
Contents(n) == \A i \in Below(n) : heap'[strings'[i]] = heap[strings[i]]

\* The strings a resize keeps are the strings they were (string_array.c:33-44).
LEMMA ResizeKeeps ==
    ASSUME ArrayInv, NEW c \in Nat, resize(c)
    PROVE  size' \in Nat /\ size' <= size /\ Contents(size')
<1>1. ArrayTypeOK /\ SentinelAfterLast /\ SlotsOwnHeap /\ NoSlotShared /\ made
  BY DEF ArrayInv, OwnsItsStrings, resize
<1>2. /\ size \in Nat /\ capacity \in Nat /\ size <= capacity
      /\ size' = (IF c < size THEN c ELSE size)
      /\ strings' = Resized(c) /\ heap' = FreedFrom(c)
  BY <1>1 DEF resize, ArrayTypeOK
<1>3. \A i \in Below(size') : i \in Below(size) /\ i \in Below(c) /\ i <= capacity /\ ~(c <= i)
  BY <1>2, BelowIs
<1>4. ASSUME NEW i \in Below(size')
      PROVE  heap'[strings'[i]] = heap[strings[i]]
  <2>1. strings'[i] = strings[i] /\ strings[i] \in Blocks
    BY <1>1, <1>2, <1>3, ResizedSlots DEF SentinelAfterLast
  <2>2. \A j \in Below(size) : strings[j] = strings[i] => ~(c <= j)
    BY <1>1, <1>3 DEF NoSlotShared
  <2>3. QED
    BY <1>2, <2>1, <2>2 DEF FreedFrom
<1>5. QED
  BY <1>2, <1>4 DEF Contents

\* An addition changes no string that was there (string_array.c:46-66).
LEMMA AddKeeps ==
    ASSUME ArrayInv, NEW string \in Strings, add_string(string)
    PROVE  /\ size \in Nat /\ size' = size + 1 /\ Contents(size)
           /\ heap'[strings'[size]] = string
<1>1. /\ ArrayTypeOK /\ SentinelAfterLast /\ SlotsOwnHeap /\ made
      /\ size \in Nat /\ capacity \in Nat /\ size <= capacity /\ size' = size + 1
  BY DEF ArrayInv, ArrayTypeOK, OwnsItsStrings, add_string
<1>2. PICK b \in Blocks :
        /\ heap[b] = NULL
        /\ heap' = [heap EXCEPT ![b] = string]
        /\ strings' = [(IF size = capacity THEN Resized(Grown) ELSE strings)
                          EXCEPT ![size] = b, ![size + 1] = NULL]
  BY DEF add_string
<1>3. Grown \in Nat /\ size + 1 <= Grown /\ (size < capacity => Grown = capacity)
  BY <1>1, GrownFits
<1>4. strings'[size] = b /\ \A i \in Below(size) : strings'[i] = strings[i]
  <2>1. CASE size = capacity
    <3>1. strings' = [Resized(Grown) EXCEPT ![size] = b, ![size + 1] = NULL]
      BY <1>2, <2>1
    <3>2. \A i \in Below(size) : i \in Below(Grown) /\ i <= capacity
      BY <1>1, <1>3, BelowIs
    <3>3. QED
      BY <1>1, <1>3, <3>1, <3>2, ResizedSlots, BelowIs
  <2>2. CASE size # capacity
    <3>1. strings' = [strings EXCEPT ![size] = b, ![size + 1] = NULL]
      BY <1>2, <2>2
    <3>2. QED
      BY <1>1, <1>3, <2>2, <3>1, BelowIs DEF ArrayTypeOK
  <2>3. QED
    BY <2>1, <2>2
<1>5. heap'[b] = string /\ \A x \in Blocks : x # b => heap'[x] = heap[x]
  BY <1>1, <1>2 DEF ArrayTypeOK
<1>6. \A i \in Below(size) : strings[i] \in Blocks /\ strings[i] # b
  BY <1>1, <1>2 DEF SentinelAfterLast, SlotsOwnHeap
<1>7. QED
  BY <1>1, <1>4, <1>5, <1>6 DEF Contents

\* A sequence that agrees with a shorter one and has one more element.
LEMMA ExtendedSeq ==
    ASSUME NEW s \in Seq(Strings), NEW t \in Seq(Strings), NEW e \in Strings,
           Len(t) = Len(s) + 1, \A k \in 1 .. Len(s) : t[k] = s[k], t[Len(s) + 1] = e
    PROVE  t = Append(s, e)
  OBVIOUS

\* A sequence that agrees with the beginning of another is that beginning.
LEMMA CutSeq ==
    ASSUME NEW s \in Seq(Strings), NEW t \in Seq(Strings),
           Len(t) <= Len(s), \A k \in 1 .. Len(t) : t[k] = s[k]
    PROVE  t = SubSeq(s, 1, Len(t))
  OBVIOUS

\* What a reader finds in the array.
Strung == [k \in 1 .. size |-> heap[strings[k - 1]]]

LEMMA StrungIs == ArrayInv => size \in Nat /\ Strung \in Seq(Strings) /\ Len(Strung) = size
<1> SUFFICES ASSUME ArrayInv
             PROVE  size \in Nat /\ Strung \in Seq(Strings) /\ Len(Strung) = size
  OBVIOUS
<1>1. size \in Nat /\ (~made => size = 0)
  BY DEF ArrayInv, ArrayTypeOK
<1>2. ASSUME NEW k \in 1 .. size
      PROVE  heap[strings[k - 1]] \in Strings
  <2>1. k - 1 \in Below(size) /\ made
    BY <1>1, BelowIs
  <2>2. strings[k - 1] \in Blocks /\ heap[strings[k - 1]] # NULL
    BY <2>1 DEF ArrayInv, SentinelAfterLast, OwnsItsStrings, SlotsOwnHeap
  <2>3. QED
    BY <2>2 DEF ArrayInv, ArrayTypeOK
<1>3. Strung \in [1 .. size -> Strings]
  BY <1>2 DEF Strung
<1>4. QED
  BY <1>1, <1>3

LEMMA ListStarts == ArrayInit => List!Init
  BY DEF ArrayInit, List!Init

\* A call that is not bounded is an operation of the list or leaves it alone.
LEMMA ListStep ==
    ArrayInv /\ ArrayInv' /\ [LibraryCall]_arrayVars => [List!Next]_List!vars
<1> SUFFICES ASSUME ArrayInv, ArrayInv', [LibraryCall]_arrayVars
             PROVE  List!Next \/ UNCHANGED <<made, Strung>>
  BY DEF List!vars, Strung
<1>1. size \in Nat /\ Strung \in Seq(Strings) /\ Len(Strung) = size
  BY StrungIs
<1>2. size' \in Nat /\ Strung' \in Seq(Strings) /\ Len(Strung') = size'
  <2>1. (ArrayInv => size \in Nat /\ Strung \in Seq(Strings) /\ Len(Strung) = size)'
    BY StrungIs, PTL
  <2>2. QED
    BY <2>1
<1>3. ASSUME NEW k \in 1 .. size, NEW n \in Nat, Contents(n), k <= n, k <= size'
      PROVE  Strung'[k] = Strung[k]
  <2>1. k - 1 \in Below(n) /\ k \in 1 .. size'
    BY <1>1, <1>2, <1>3, BelowIs
  <2>2. heap'[strings'[k - 1]] = heap[strings[k - 1]]
    BY <1>3, <2>1 DEF Contents
  <2>3. QED
    BY <2>1, <2>2 DEF Strung
<1>4. CASE \E c \in Nat : make_string_array(c)
  <2>1. Strung' = << >> /\ ~made /\ made' = TRUE
    BY <1>4 DEF make_string_array, Strung
  <2>2. QED
    BY <2>1 DEF List!Next, List!Make, Strung
<1>5. CASE \E c \in Nat : resize(c)
  <2>1. PICK c \in Nat : resize(c)
    BY <1>5
  <2>2. size' <= size /\ Contents(size') /\ made /\ made' = made
    BY <2>1, ResizeKeeps DEF resize
  <2>3. \A k \in 1 .. size' : Strung'[k] = Strung[k]
    <3> TAKE k \in 1 .. size'
    <3>1. k \in 1 .. size /\ k <= size'
      BY <1>1, <1>2, <2>2
    <3>2. QED
      BY <1>2, <1>3, <2>2, <3>1
  <2>4. Strung' = SubSeq(Strung, 1, size') /\ size' \in 0 .. Len(Strung)
    BY <1>1, <1>2, <2>2, <2>3, CutSeq
  <2>5. QED
    BY <2>2, <2>4 DEF List!Next, List!Cut, Strung
<1>6. CASE free_string_array
  <2>1. Strung' = << >> /\ made /\ made' = FALSE
    BY <1>6 DEF free_string_array, Strung
  <2>2. QED
    BY <2>1 DEF List!Next, List!Free, Strung
<1>7. CASE \E string \in Strings : add_string(string)
  <2>1. PICK string \in Strings : add_string(string)
    BY <1>7
  <2>2. /\ size' = size + 1 /\ Contents(size) /\ heap'[strings'[size]] = string
        /\ made /\ made' = made
    BY <2>1, AddKeeps DEF add_string
  <2>3. \A k \in 1 .. size : Strung'[k] = Strung[k]
    <3> TAKE k \in 1 .. size
    <3>1. k <= size /\ k <= size'
      BY <1>1, <2>2
    <3>2. QED
      BY <1>1, <1>3, <2>2, <3>1
  <2>4. Strung'[size + 1] = string
    <3>1. size + 1 \in 1 .. size' /\ (size + 1) - 1 = size
      BY <1>1, <2>2
    <3>2. QED
      BY <2>2, <3>1 DEF Strung
  <2>5. Strung' = Append(Strung, string)
    BY <1>1, <1>2, <2>1, <2>2, <2>3, <2>4, ExtendedSeq
  <2>6. QED
    BY <2>1, <2>2, <2>5 DEF List!Next, List!Add, Strung
<1>8. CASE UNCHANGED arrayVars
  BY <1>8 DEF arrayVars, Strung
<1>9. QED
  BY <1>4, <1>5, <1>6, <1>7, <1>8 DEF LibraryCall

(***************************************************************************)
(* The array is the list of string_array.h: each call is an operation of    *)
(* the list or leaves it alone.                                             *)
(***************************************************************************)
THEOREM ArrayIsList == ArraySpec => ImplementsStringList
<1>1. ArrayInv /\ ArrayInv' /\ [ArrayNext]_arrayVars => [List!Next]_List!vars
  BY ArrayNextCalls, ListStep
<1>2. QED
  BY <1>1, ListStarts, ArrayInvariant, PTL DEF ArraySpec, ImplementsStringList, List!Spec

-----------------------------------------------------------------------------
(***************************************************************************)
(* tokenize_line().  The words of a line that ended before a position, and  *)
(* the tokens that are these words.                                         *)
(***************************************************************************)
EndsIn(l, p) == {j \in 1 .. Len(l) : j + 1 < p /\ ~isspace(l[j]) /\ isspace(l[j + 1])}

WordIn(l, j) ==
    LET starts == {i \in 1 .. j : \A k \in i .. j : ~isspace(l[k])}
    IN  SubSeq(l, CHOOSE i \in starts : \A k \in starts : i <= k, j)

Rank(ends, j) == Cardinality({i \in ends : i <= j})

Split(l, p, n, tokens) ==
    /\ n = Cardinality(EndsIn(l, p))
    /\ \A j \in EndsIn(l, p) : tokens[Rank(EndsIn(l, p), j)] = WordIn(l, j)

\* A word begins after a space or with the line.
LEMMA WordFrom ==
    ASSUME NEW l, NEW j \in Nat, NEW s \in 1 .. j,
           \A k \in s .. j : ~isspace(l[k]), s = 1 \/ isspace(l[s - 1])
    PROVE  WordIn(l, j) = SubSeq(l, s, j)
<1> DEFINE starts == {i \in 1 .. j : \A k \in i .. j : ~isspace(l[k])}
<1>1. s \in starts
  OBVIOUS
<1>2. ASSUME NEW i \in starts
      PROVE  s <= i
  <2>1. i < s => s - 1 \in i .. j
    OBVIOUS
  <2>2. QED
    BY <2>1
<1>3. \A i \in starts : i \in Int
  OBVIOUS
<1> HIDE DEF starts
<1>4. s \in Int /\ \A i \in starts : (\A k \in starts : i <= k) => i = s
  BY <1>1, <1>2, <1>3
<1>5. s = CHOOSE i \in starts : \A k \in starts : i <= k
  BY <1>1, <1>2, <1>4, Zenon
<1>6. QED
  BY <1>5, Zenon DEF WordIn, starts

LEMMA EndsFinite ==
    ASSUME NEW l, NEW p, Len(l) \in Nat
    PROVE  IsFiniteSet(EndsIn(l, p)) /\ Cardinality(EndsIn(l, p)) \in Nat
<1>1. IsFiniteSet(1 .. Len(l))
  BY FS_Interval
<1>2. EndsIn(l, p) \subseteq 1 .. Len(l)
  BY DEF EndsIn
<1>3. QED
  BY <1>1, <1>2, FS_Subset, FS_CardinalityType

\* The rank of a word is that of a token.
LEMMA RankBounds ==
    ASSUME NEW ends, IsFiniteSet(ends), NEW j \in ends, j <= j
    PROVE  Rank(ends, j) \in 1 .. Cardinality(ends)
<1> DEFINE upto == {i \in ends : i <= j}
<1>1. upto \subseteq ends /\ {j} \subseteq upto
  OBVIOUS
<1>2. IsFiniteSet(upto) /\ Cardinality(upto) <= Cardinality(ends)
  BY <1>1, FS_Subset
<1>3. Cardinality({j}) = 1 /\ Cardinality({j}) <= Cardinality(upto)
  BY <1>1, <1>2, FS_Subset, FS_Singleton
<1>4. Cardinality(ends) \in Nat /\ Cardinality(upto) \in Nat
  BY <1>2, FS_CardinalityType
<1>5. QED
  BY <1>2, <1>3, <1>4 DEF Rank

\* A position that ends no word.
LEMMA SplitGoesOn ==
    ASSUME NEW l, Len(l) \in Nat, NEW p \in 1 .. Len(l), NEW n, NEW tokens,
           Split(l, p, n, tokens),
           ~isspace(l[p]) \/ p = 1 \/ isspace(l[p - 1])
    PROVE  Split(l, p + 1, n, tokens)
<1>1. EndsIn(l, p + 1) = EndsIn(l, p)
  <2>1. \A j \in 1 .. Len(l) : j + 1 < p + 1 <=> j + 1 < p \/ j = p - 1
    OBVIOUS
  <2>2. QED
    BY <2>1 DEF EndsIn
<1>2. QED
  BY <1>1 DEF Split

\* A position that ends one, whose token is added.
LEMMA SplitGrows ==
    ASSUME NEW l, Len(l) \in Nat, NEW p \in 2 .. Len(l), NEW n, NEW tokens, NEW tokens2,
           Split(l, p, n, tokens), isspace(l[p]), ~isspace(l[p - 1]),
           \A k \in 1 .. n : tokens2[k] = tokens[k],
           tokens2[n + 1] = WordIn(l, p - 1)
    PROVE  Split(l, p + 1, n + 1, tokens2)
<1> DEFINE E == EndsIn(l, p)
           F == EndsIn(l, p + 1)
<1>1. F = E \cup {p - 1} /\ p - 1 \notin E /\ \A j \in E : j \in Nat /\ j < p - 1
  <2>1. \A j \in 1 .. Len(l) : j + 1 < p + 1 <=> j + 1 < p \/ j = p - 1
    OBVIOUS
  <2>2. QED
    BY <2>1 DEF EndsIn
<1>2. IsFiniteSet(E) /\ n = Cardinality(E) /\ n \in Nat
  BY EndsFinite DEF Split
<1>3. Cardinality(F) = n + 1
  BY <1>1, <1>2, FS_AddElement
<1>4. ASSUME NEW j \in E
      PROVE  tokens2[Rank(F, j)] = WordIn(l, j)
  <2>1. Rank(F, j) = Rank(E, j)
    <3>1. {i \in F : i <= j} = {i \in E : i <= j}
      BY <1>1
    <3>2. QED
      BY <3>1 DEF Rank
  <2>2. Rank(E, j) \in 1 .. n
    BY <1>1, <1>2, RankBounds
  <2>3. tokens[Rank(E, j)] = WordIn(l, j)
    BY DEF Split
  <2>4. QED
    BY <2>1, <2>2, <2>3
<1>5. tokens2[Rank(F, p - 1)] = WordIn(l, p - 1)
  <2>1. {i \in F : i <= p - 1} = F
    BY <1>1
  <2>2. Rank(F, p - 1) = n + 1
    BY <1>3, <2>1 DEF Rank
  <2>3. QED
    BY <2>2
<1>6. QED
  BY <1>1, <1>3, <1>4, <1>5 DEF Split

(***************************************************************************)
(* The scan: the tokens are the words that ended, and the token that has    *)
(* begun is the word at the position.                                       *)
(***************************************************************************)
InToken ==
    IF token_size = 0 THEN pos = 1 \/ isspace(line[pos - 1])
    ELSE /\ token_start + token_size = pos
         /\ \A k \in token_start .. pos - 1 : ~isspace(line[k])
         /\ token_start = 1 \/ isspace(line[token_start - 1])

ShellInv ==
    /\ ArrayInv /\ ShellTypeOK
    /\ shell_at = "scan" => Split(line, pos, size, Tokens) /\ InToken
    /\ shell_at = "process" => Split(line, Len(line) + 1, size, Tokens)

\* The lengths of the lines, and their words.
LEMMA LinesAre ==
    ASSUME NEW l \in Lines \cup {<< >>}
    PROVE  /\ Len(l) \in Nat /\ DOMAIN l = 1 .. Len(l)
           /\ \A first, last \in 1 .. Len(l) :
                 first <= last /\ (\A k \in first .. last : ~isspace(l[k])) =>
                     SubSeq(l, first, last) \in Strings
<1>1. l \in Lines \/ l = << >>
  OBVIOUS
<1>2. l \in Seq(UNION {{m[k] : k \in DOMAIN m} : m \in Lines}) \/ l = << >>
  BY <1>1, ShellAssumption
<1>3. Len(l) \in Nat /\ DOMAIN l = 1 .. Len(l)
  BY <1>2
<1>4. CASE l \in Lines
  BY <1>3, <1>4, ShellAssumption DEF isspace
<1>5. CASE l = << >>
  BY <1>3, <1>5
<1>6. QED
  BY <1>1, <1>3, <1>4, <1>5

\* The token that has begun ends before the position, and is a string.
LEMMA TokenBegun ==
    ASSUME ShellInv, shell_at = "scan", pos <= Len(line), token_size > 0
    PROVE  /\ Len(line) \in Nat /\ pos \in 2 .. Len(line) /\ pos - 1 \in 1 .. Len(line)
           /\ token_start \in 1 .. pos - 1 /\ token_start + token_size = pos
           /\ \A k \in token_start .. pos - 1 : ~isspace(line[k])
           /\ token_start = 1 \/ isspace(line[token_start - 1])
           /\ Token = SubSeq(line, token_start, pos - 1) /\ Token \in Strings
<1>1. /\ InToken /\ line \in Lines \cup {<< >>} /\ pos \in Nat /\ token_start \in Nat
      /\ token_start >= 1 /\ token_size \in Nat
  BY LinesAre DEF ShellInv, ShellTypeOK
<1>2. Len(line) \in Nat
  BY <1>1, LinesAre
<1>3. /\ token_start + token_size = pos /\ token_start + token_size - 1 = pos - 1
      /\ \A k \in token_start .. pos - 1 : ~isspace(line[k])
      /\ token_start = 1 \/ isspace(line[token_start - 1])
      /\ pos - 1 \in 1 .. Len(line) /\ pos \in 2 .. Len(line) /\ token_start \in 1 .. pos - 1
  BY <1>1, <1>2 DEF InToken
<1>4. Token = SubSeq(line, token_start, pos - 1)
  BY <1>3 DEF Token
<1>5. Token \in Strings
  BY <1>1, <1>2, <1>3, <1>4, LinesAre
<1>6. QED
  BY <1>2, <1>3, <1>4, <1>5

\* ScanSpace at the end of a token.
LEMMA TokenAdded ==
    ASSUME ShellInv, shell_at = "scan", pos <= Len(line), isspace(line[pos]),
           token_size > 0, add_string(Token)
    PROVE  /\ ArrayInv' /\ Split(line, pos + 1, size', Tokens')
<1>1. /\ ArrayInv /\ Split(line, pos, size, Tokens) /\ line \in Lines \cup {<< >>}
      /\ pos \in Nat
  BY LinesAre DEF ShellInv, ShellTypeOK
<1>2. Len(line) \in Nat
  BY <1>1, LinesAre
<1>3. /\ \A k \in token_start .. pos - 1 : ~isspace(line[k])
      /\ token_start = 1 \/ isspace(line[token_start - 1])
      /\ pos - 1 \in 1 .. Len(line) /\ pos \in 2 .. Len(line) /\ token_start \in 1 .. pos - 1
  BY TokenBegun
<1>4. Token = SubSeq(line, token_start, pos - 1)
  BY TokenBegun
<1>5. Token \in Strings
  BY TokenBegun
<1>6. Token = WordIn(line, pos - 1)
  BY <1>3, <1>4, WordFrom
<1>7. /\ size \in Nat /\ size' = size + 1 /\ Contents(size)
      /\ heap'[strings'[size]] = Token
  BY <1>1, <1>5, AddKeeps
<1>8. \A k \in 1 .. size : Tokens'[k] = Tokens[k]
  <2> TAKE k \in 1 .. size
  <2>1. k - 1 \in Below(size) /\ k \in 1 .. size'
    BY <1>7, BelowIs
  <2>2. QED
    BY <1>7, <2>1 DEF Contents, Tokens
<1>9. Tokens'[size + 1] = WordIn(line, pos - 1)
  <2>1. size + 1 \in 1 .. size' /\ (size + 1) - 1 = size
    BY <1>7
  <2>2. QED
    BY <1>6, <1>7, <2>1 DEF Tokens
<1>10. ~isspace(line[pos - 1])
  BY <1>3
<1>11. Split(line, pos + 1, size + 1, Tokens')
  BY <1>1, <1>2, <1>3, <1>8, <1>9, <1>10, SplitGrows
<1>12. QED
  BY <1>1, <1>5, <1>7, <1>11, AddInv

LEMMA ArrayUnchanged ==
    ASSUME ArrayInv, UNCHANGED arrayVars
    PROVE  ArrayInv'
  BY DEF arrayVars, ArrayInv, ArrayTypeOK, SentinelAfterLast, OwnsItsStrings,
         SlotsOwnHeap, NoSlotShared, Below

\* A round of the loop.
LEMMA ScanStep ==
    ASSUME ShellInv, Scan
    PROVE  ShellInv'
<1>1. /\ ArrayInv /\ Split(line, pos, size, Tokens) /\ InToken
      /\ line \in Lines \cup {<< >>} /\ pos \in 1 .. Len(line) /\ Len(line) \in Nat
      /\ token_start \in 1 .. pos /\ token_size \in 0 .. pos - token_start
      /\ shell_at = "scan" /\ shell_at' = "scan" /\ line' = line /\ pos' = pos + 1 /\ feof' = feof
      /\ feof \in BOOLEAN
  <2>1. /\ shell_at = "scan" /\ shell_at' = "scan" /\ line' = line /\ pos' = pos + 1
        /\ feof' = feof /\ pos <= Len(line)
    BY DEF Scan
  <2>2. Len(line) \in Nat
    BY LinesAre DEF ShellInv, ShellTypeOK
  <2>3. QED
    BY <2>1, <2>2 DEF ShellInv, ShellTypeOK
<1>2. ASSUME ArrayInv', Split(line, pos + 1, size', Tokens'), InToken',
             token_start' \in 1 .. pos + 1, token_size' \in 0 .. (pos + 1) - token_start'
      PROVE  ShellInv'
  <2>1. /\ pos' \in 1 .. Len(line') + 1 /\ token_start' \in 1 .. pos'
        /\ token_size' \in 0 .. pos' - token_start'
    <3>1. pos' = pos + 1 /\ line' = line
      BY <1>1
    <3>2. pos + 1 \in 1 .. Len(line) + 1
      BY <1>1
    <3>3. pos' \in 1 .. Len(line') + 1
      BY <3>1, <3>2, Zenon
    <3>4. token_start' \in 1 .. pos'
      BY <3>1, <1>2, Zenon
    <3>5. token_size' \in 0 .. pos' - token_start'
      BY <3>1, <1>2, Zenon
    <3>6. QED
      BY <3>3, <3>4, <3>5, Zenon
  <2>2. ShellTypeOK'
    BY <1>1, <1>2, <2>1 DEF ShellTypeOK, ArrayInv
  <2>3. QED
    BY <1>1, <1>2, <2>2 DEF ShellInv
<1>3. CASE ScanSpace
  <2>1. /\ isspace(line[pos]) /\ token_size' = 0 /\ token_start' = token_start
    BY <1>3 DEF ScanSpace
  <2>2. InToken'
    BY <1>1, <2>1 DEF InToken
  <2>3. CASE token_size > 0
    <3>1. add_string(Token)
      BY <1>3, <2>3 DEF ScanSpace
    <3>2. ArrayInv' /\ Split(line, pos + 1, size', Tokens')
      BY <1>1, <2>1, <2>3, <3>1, TokenAdded
    <3>3. QED
      BY <1>1, <1>2, <2>1, <2>2, <3>2
  <2>4. CASE token_size = 0
    <3>1. UNCHANGED arrayVars
      BY <1>3, <2>4 DEF ScanSpace
    <3>2. ArrayInv' /\ size' = size /\ Tokens' = Tokens
      BY <1>1, <3>1, ArrayUnchanged DEF arrayVars, Tokens
    <3>3. Split(line, pos + 1, size, Tokens)
      BY <1>1, <2>4, SplitGoesOn DEF InToken
    <3>4. QED
      BY <1>1, <1>2, <2>1, <2>2, <3>2, <3>3
  <2>5. QED
    BY <1>1, <2>3, <2>4
<1>4. CASE ScanOther
  <2>1. /\ ~isspace(line[pos]) /\ token_size' = token_size + 1
        /\ token_start' = (IF token_size = 0 THEN pos ELSE token_start)
        /\ UNCHANGED arrayVars
    BY <1>4 DEF ScanOther
  <2>2. ArrayInv' /\ size' = size /\ Tokens' = Tokens
    BY <1>1, <2>1, ArrayUnchanged DEF arrayVars, Tokens
  <2>3. Split(line, pos + 1, size, Tokens)
    BY <1>1, <2>1, SplitGoesOn
  <2>4. InToken'
    BY <1>1, <2>1 DEF InToken
  <2>5. token_start' \in 1 .. pos + 1 /\ token_size' \in 0 .. (pos + 1) - token_start'
    BY <1>1, <2>1
  <2>6. QED
    BY <1>2, <2>2, <2>3, <2>4, <2>5
<1>5. QED
  BY <1>3, <1>4 DEF Scan

LEMMA ShellStep == ShellInv /\ [ShellNext]_shellVars => ShellInv'
<1> SUFFICES ASSUME ShellInv, [ShellNext]_shellVars
             PROVE  ShellInv'
  OBVIOUS
<1>0. /\ ArrayInv /\ ArrayTypeOK /\ feof \in BOOLEAN /\ line \in Lines \cup {<< >>}
      /\ pos \in 1 .. Len(line) + 1 /\ token_start \in 1 .. pos
      /\ token_size \in 0 .. pos - token_start
  BY DEF ShellInv, ShellTypeOK
<1>1. ASSUME NEW l \in Lines, ReadLine(l)
      PROVE  ShellInv'
  <2>1. /\ make_string_array(INITIAL_TOKENS_CAPACITY) /\ line' = l /\ pos' = 1 /\ token_start' = 1
        /\ token_size' = 0 /\ shell_at' = "scan" /\ feof' \in BOOLEAN /\ size' = 0
    BY <1>1 DEF ReadLine, make_string_array
  <2>2. ArrayInv'
    BY <1>0, <2>1, MakeInv, ShellAssumption
  <2>3. Len(l) \in Nat
    BY LinesAre
  <2>4. Split(l, 1, 0, Tokens')
    <3>1. EndsIn(l, 1) = {}
      BY <2>3 DEF EndsIn
    <3>2. QED
      BY <3>1, FS_EmptySet DEF Split
  <2>5. ShellTypeOK'
    BY <2>1, <2>2, <2>3 DEF ShellTypeOK, ArrayInv
  <2>6. QED
    BY <2>1, <2>2, <2>4, <2>5 DEF ShellInv, InToken
<1>2. CASE Scan
  BY <1>2, ScanStep
<1>3. CASE EndScan
  <2>1. /\ shell_at = "scan" /\ shell_at' = "process" /\ pos > Len(line)
        /\ UNCHANGED <<arrayVars, feof, scanVars>>
    BY <1>3 DEF EndScan
  <2>2. pos = Len(line) + 1
    BY <1>0, <2>1, LinesAre
  <2>3. ArrayInv' /\ size' = size /\ Tokens' = Tokens /\ line' = line
    BY <1>0, <2>1, ArrayUnchanged DEF arrayVars, scanVars, Tokens
  <2>4. Split(line, Len(line) + 1, size, Tokens)
    BY <2>1, <2>2 DEF ShellInv
  <2>5. ShellTypeOK'
    BY <1>0, <2>1, <2>3 DEF ShellTypeOK, ArrayInv, scanVars
  <2>6. QED
    BY <2>1, <2>3, <2>4, <2>5 DEF ShellInv
<1>4. CASE Clean
  <2>1. /\ free_string_array /\ line' = << >> /\ pos' = 1 /\ token_start' = 1 /\ token_size' = 0
        /\ shell_at' = "free_command" /\ feof' = feof
    BY <1>4 DEF Clean
  <2>2. ArrayInv'
    BY <1>0, <2>1, FreeInv
  <2>3. Len(<< >>) \in Nat
    OBVIOUS
  <2>4. ShellTypeOK'
    BY <1>0, <2>1, <2>2, <2>3 DEF ShellTypeOK, ArrayInv
  <2>5. QED
    BY <2>1, <2>2, <2>4 DEF ShellInv
<1>5. CASE LeaveLoop \/ ReadNoLine \/ FreeNoCommand
  <2>1. /\ UNCHANGED <<arrayVars, scanVars>> /\ feof' \in BOOLEAN
        /\ shell_at' \in {"loop", "exited", "crashed"}
    BY <1>0, <1>5 DEF LeaveLoop, ReadNoLine, FreeNoCommand
  <2>2. ArrayInv'
    BY <1>0, <2>1, ArrayUnchanged
  <2>3. ShellTypeOK'
    BY <1>0, <2>1, <2>2 DEF ShellTypeOK, ArrayInv, scanVars
  <2>4. QED
    BY <2>1, <2>2, <2>3 DEF ShellInv
<1>6. CASE Ended \/ UNCHANGED shellVars
  <2>1. /\ UNCHANGED <<arrayVars, scanVars>> /\ feof' = feof /\ shell_at' = shell_at
    BY <1>6 DEF Ended, shellVars
  <2>2. ArrayInv' /\ size' = size /\ Tokens' = Tokens /\ InToken' = InToken
    BY <1>0, <2>1, ArrayUnchanged DEF arrayVars, scanVars, Tokens, InToken
  <2>3. ShellTypeOK'
    <3>1. /\ line' = line /\ pos' = pos /\ token_start' = token_start
          /\ token_size' = token_size
      BY <2>1 DEF scanVars
    <3>2. shell_at \in {"loop", "scan", "process", "free_command", "exited", "crashed"}
      BY DEF ShellInv, ShellTypeOK
    <3>3. QED
      BY <1>0, <2>1, <2>2, <3>1, <3>2 DEF ShellTypeOK, ArrayInv
  <2>4. QED
    BY <2>1, <2>2, <2>3 DEF ShellInv, scanVars
<1>7. QED
  BY <1>1, <1>2, <1>3, <1>4, <1>5, <1>6 DEF ShellNext, ShellRuns

\* The shell starts without a line and without an array.
LEMMA ShellStarts == ShellInit => ShellInv
<1> SUFFICES ASSUME ShellInit
             PROVE  ShellInv
  OBVIOUS
<1>1. ArrayInv
  BY ArrayStarts DEF ShellInit
<1>2. Len(<< >>) = 0
  OBVIOUS
<1>3. ShellTypeOK
  <2>1. /\ pos \in 1 .. Len(line) + 1 /\ token_start \in 1 .. pos
        /\ token_size \in 0 .. pos - token_start /\ line = << >>
    BY <1>2 DEF ShellInit
  <2>2. shell_at = "loop" /\ feof = FALSE
    BY DEF ShellInit
  <2>3. QED
    BY <1>1, <2>1, <2>2 DEF ShellTypeOK, ArrayInv
<1>4. QED
  BY <1>1, <1>3 DEF ShellInit, ShellInv

(***************************************************************************)
(* The invariant of the tokeniser, at every step (shell.c:72-105).          *)
(***************************************************************************)
THEOREM ShellInvariant == ShellSpec => []ShellInv
  BY ShellStarts, ShellStep, PTL DEF ShellSpec

\* A line that is read to its end is split into all its ended words.
LEMMA SplitToTheEnd == ShellInv => TokensAreEndedWords
<1> SUFFICES ASSUME ShellInv, shell_at = "process"
             PROVE  TokensAre(WordEnds \ {Len(line)})
  BY DEF TokensAreEndedWords
<1>1. Split(line, Len(line) + 1, size, Tokens) /\ Len(line) \in Nat
  BY LinesAre DEF ShellInv, ShellTypeOK
<1>2. WordEnds \ {Len(line)} = EndsIn(line, Len(line) + 1)
  BY <1>1 DEF WordEnds, EndsIn
<1>3. \A j : Word(j) = WordIn(line, j)
  BY DEF Word, WordIn
<1>4. QED
  BY <1>1, <1>2, <1>3 DEF TokensAre, Split, Rank

(***************************************************************************)
(* For any lines, any whitespace and any initial capacity the tokens of a   *)
(* line are its words that whitespace follows (shell.c:83-105).             *)
(***************************************************************************)
THEOREM TokensAreEndedWordsHolds == ShellSpec => []TokensAreEndedWords
  BY SplitToTheEnd, ShellInvariant, PTL

\* The shell uses the array by its calls alone, and with strings alone.
LEMMA ShellCalls == ShellInv /\ [ShellNext]_shellVars => [LibraryCall]_arrayVars
<1> SUFFICES ASSUME ShellInv, [ShellNext]_shellVars
             PROVE  LibraryCall \/ UNCHANGED arrayVars
  OBVIOUS
<1>1. CASE \E l \in Lines : ReadLine(l)
  BY <1>1, ShellAssumption, Zenon DEF ReadLine, LibraryCall
<1>2. CASE Scan
  <2>1. CASE ScanSpace /\ token_size > 0
    <3>1. Token \in Strings /\ add_string(Token)
      BY <1>2, <2>1, TokenBegun DEF Scan, ScanSpace
    <3>2. QED
      BY <3>1, Zenon DEF LibraryCall
  <2>2. CASE ScanSpace /\ ~(token_size > 0)
    BY <2>2, Zenon DEF ScanSpace
  <2>3. CASE ScanOther
    BY <2>3, Zenon DEF ScanOther
  <2>4. QED
    BY <1>2, <2>1, <2>2, <2>3, Zenon DEF Scan
<1>3. CASE Clean
  BY <1>3, Zenon DEF Clean, LibraryCall
<1>4. CASE LeaveLoop \/ ReadNoLine \/ EndScan \/ FreeNoCommand
  BY <1>4 DEF LeaveLoop, ReadNoLine, EndScan, FreeNoCommand
<1>5. CASE Ended \/ UNCHANGED shellVars
  BY <1>5 DEF Ended, shellVars
<1>6. QED
  BY <1>1, <1>2, <1>3, <1>4, <1>5, Zenon DEF ShellNext, ShellRuns

LEMMA ShellKeepsArray == ShellInv => ArrayInv
  BY DEF ShellInv

(***************************************************************************)
(* The shell finds in the array what the list of string_array.h would hold, *)
(* for lines of any length and however often the array grows: nothing       *)
(* bounds the slots here (shell.c:83-105, string_array.c:48-66).            *)
(***************************************************************************)
THEOREM ShellUsesList == ShellSpec => ImplementsStringList
<1>1. ShellInit => List!Init
  BY ListStarts DEF ShellInit
<1>2. ShellInv /\ ShellInv' /\ [ShellNext]_shellVars => [List!Next]_List!vars
  <2>1. (ShellInv => ArrayInv)'
    BY ShellKeepsArray, PTL
  <2>2. QED
    BY <2>1, ShellKeepsArray, ShellCalls, ListStep
<1>3. QED
  BY <1>1, <1>2, ShellInvariant, PTL DEF ShellSpec, ImplementsStringList, List!Spec
====
