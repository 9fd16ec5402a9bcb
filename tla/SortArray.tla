------------------------------ MODULE SortArray ------------------------------
(***************************************************************************)
(* array_sort.c: an array is sorted in place, or copied and the copy is     *)
(* sorted.  One step is one round of a loop.  The bound of the outer loop,  *)
(* array_size-1, is computed in size_t and wraps for an empty array.        *)
(***************************************************************************)
EXTENDS Integers

CONSTANTS
    Elements,       \* the values of the elements
    ArraySizes,     \* the sizes of the arrays that are sorted
    SIZE_VALUES     \* the number of values of size_t: 2^64 in the source

ASSUME SortAssumption ==
    /\ Elements \subseteq Int
    /\ ArraySizes \subseteq Nat /\ SIZE_VALUES \in Nat \ {0}
    /\ \A n \in ArraySizes : n < SIZE_VALUES

VARIABLES
    sort_at,        \* "called", "copy", "sort" or "returned"
    array_size,
    numbers,        \* the array of the caller, as it was at the call
    sorted,         \* the array that sort_inplace() works on
    sort_i, sort_j

sortLoops == <<sort_i, sort_j>>
sortVars  == <<sort_at, array_size, numbers, sorted, sortLoops>>

Places == 0 .. array_size - 1

SortTypeOK ==
    /\ sort_at \in {"called", "copy", "sort", "returned"}
    /\ array_size \in ArraySizes
    /\ numbers \in [Places -> Elements] /\ sorted \in [Places -> Elements]
    /\ sort_i \in 0 .. SIZE_VALUES - 1 /\ sort_j \in 0 .. SIZE_VALUES - 1

\* The array that will hold a copy may hold anything.
SortInit ==
    /\ sort_at = "called"
    /\ array_size \in ArraySizes
    /\ numbers \in [Places -> Elements] /\ sorted \in [Places -> Elements]
    /\ sort_i = 0 /\ sort_j = 0

\* size_t arithmetic.
LastPlace == (array_size - 1) % SIZE_VALUES

\* The array after swap() of two of its elements.
swap(array, left, right) ==
    [array EXCEPT ![left] = array[right], ![right] = array[left]]

\* sort_inplace() on the array of the caller.
CallInplace ==
    /\ sort_at = "called"
    /\ sorted' = numbers
    /\ sort_i' = 0 /\ sort_j' = 1 % SIZE_VALUES
    /\ sort_at' = "sort"
    /\ UNCHANGED <<array_size, numbers>>

CallCopy ==
    /\ sort_at = "called"
    /\ sort_at' = "copy"
    /\ UNCHANGED <<array_size, numbers, sorted, sortLoops>>

CopyRound ==
    /\ sort_at = "copy" /\ sort_i < array_size
    /\ sorted' = [sorted EXCEPT ![sort_i] = numbers[sort_i]]
    /\ sort_i' = sort_i + 1
    /\ UNCHANGED <<sort_at, array_size, numbers, sort_j>>

Copied ==
    /\ sort_at = "copy" /\ ~(sort_i < array_size)
    /\ sort_i' = 0 /\ sort_j' = 1 % SIZE_VALUES
    /\ sort_at' = "sort"
    /\ UNCHANGED <<array_size, numbers, sorted>>

\* Mutant: the inner loop leaves the last element out.
InnerRound_Short ==
    /\ sort_at = "sort" /\ sort_i < LastPlace /\ sort_j < array_size
    /\ sorted' = IF sorted[sort_j] < sorted[sort_i] /\ sort_j < array_size - 1
                 THEN swap(sorted, sort_i, sort_j) ELSE sorted
    /\ sort_j' = sort_j + 1
    /\ UNCHANGED <<sort_at, array_size, numbers, sort_i>>

InnerRound ==
    /\ sort_at = "sort" /\ sort_i < LastPlace /\ sort_j < array_size
    /\ sorted' = IF sorted[sort_j] < sorted[sort_i] THEN swap(sorted, sort_i, sort_j)
                 ELSE sorted
    /\ sort_j' = sort_j + 1
    /\ UNCHANGED <<sort_at, array_size, numbers, sort_i>>

OuterRound ==
    /\ sort_at = "sort" /\ sort_i < LastPlace /\ ~(sort_j < array_size)
    /\ sort_i' = sort_i + 1
    /\ sort_j' = (sort_i' + 1) % SIZE_VALUES
    /\ UNCHANGED <<sort_at, array_size, numbers, sorted>>

Sorted ==
    /\ sort_at = "sort" /\ ~(sort_i < LastPlace)
    /\ sort_at' = "returned"
    /\ UNCHANGED <<array_size, numbers, sorted, sortLoops>>

SortReturned == sort_at = "returned" /\ UNCHANGED sortVars

SortNext ==
    \/ CallInplace \/ CallCopy \/ CopyRound \/ Copied
    \/ InnerRound \/ OuterRound \/ Sorted \/ SortReturned

SortSpec == SortInit /\ [][SortNext]_sortVars

-----------------------------------------------------------------------------
\* One array holds the elements of another, each as often, in some order.
Rearranges(array, before) ==
    \E from \in [Places -> Places] :
        /\ \A k, l \in Places : from[k] = from[l] => k = l
        /\ \A k \in Places : array[k] = before[from[k]]

Ascends(array) == \A k, l \in Places : k < l => array[k] <= array[l]

(***************************************************************************)
(* The array that is returned holds the numbers of the caller in ascending  *)
(* order, equal ones and empty arrays included: no swap loses one, and no   *)
(* round of the outer loop disturbs what earlier ones have placed           *)
(* (array_sort.c:5-26, array_sort.h:12-27).                                 *)
(***************************************************************************)
SortsNumbers == sort_at = "returned" => Rearranges(sorted, numbers) /\ Ascends(sorted)

=============================================================================
