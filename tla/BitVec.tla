------------------------------- MODULE BitVec -------------------------------
(***************************************************************************)
(* Bit vectors of the SystemVerilog designs.  A vector [n-1:0] is the set   *)
(* of the positions of its 1 bits, so 32'd0 is {} and 8'h81 is {0, 7}.      *)
(* Bitwise operators are set operators, a part select or a concatenation    *)
(* moves positions, and arithmetic is defined by its carries, so 32-bit     *)
(* words need no 32-bit integers.                                           *)
(***************************************************************************)
EXTENDS Integers, FiniteSetsExt

Positions(n) == 0 .. n - 1

\* The values of a vector declared logic [n-1:0].
BV(n) == SUBSET Positions(n)

\* Powers of two.
Pow2[n \in Nat] == IF n = 0 THEN 1 ELSE 2 * Pow2[n - 1]

\* ValueBelow(w)[n] is the number that bits n-1..0 of w stand for.
ValueBelow(w) ==
    LET below[n \in Nat] ==
            IF n = 0 THEN 0 ELSE below[n - 1] + (IF n - 1 \in w THEN Pow2[n - 1] ELSE 0)
    IN  below

\* The natural number a vector stands for.
Value(w) == IF w = {} THEN 0 ELSE ValueBelow(w)[Max(w) + 1]

\* Part select w[hi:lo].
Slice(w, hi, lo) == {i - lo : i \in w \cap (lo .. hi)}

\* A field f placed in a concatenation with its bit 0 at position lo.
Place(f, lo) == {i + lo : i \in f}

\* Replication of one bit over positions lo..hi.
Replicate(bit, hi, lo) == IF bit THEN lo .. hi ELSE {}

\* Positions lo..hi of w overwritten with the low bits of f (w[hi:lo] <= f).
Insert(w, hi, lo, f) == (w \ (lo .. hi)) \cup (Place(f, lo) \cap (lo .. hi))

And(a, b) == a \cap b
Or(a, b)  == a \cup b
Xor(a, b) == (a \ b) \cup (b \ a)

(***************************************************************************)
(* A carry enters position i when some lower position generates one and     *)
(* every position in between propagates it; borrows are the mirror image.   *)
(***************************************************************************)
Carry(a, b, i)  == \E j \in a \cap b : j < i /\ (j + 1 .. i - 1) \subseteq a \cup b
Borrow(a, b, i) == \E j \in b \ a : j < i /\ (j + 1 .. i - 1) \cap (a \ b) = {}

\* The n-bit sum and difference, modulo 2^n.
Add(n, a, b) == {i \in Positions(n) : ~(i \in Xor(a, b) <=> Carry(a, b, i))}
Sub(n, a, b) == {i \in Positions(n) : ~(i \in Xor(a, b) <=> Borrow(a, b, i))}

\* Unsigned and two's complement order.
ULess(a, b) == \E i \in b \ a : \A k \in Xor(a, b) : k <= i
SLess(n, a, b) ==
    \/ n - 1 \in a \ b
    \/ n - 1 \notin Xor(a, b) /\ ULess(a, b)

\* Shifts by s places: left, right filled with 0s, right filled with the sign.
ShiftLeft(n, a, s)  == {i \in Positions(n) : i - s \in a}
ShiftRight(n, a, s) == {i \in Positions(n) : i + s \in a}
ShiftRightArith(n, a, s) ==
    {i \in Positions(n) : i + s \in a \/ (i + s >= n /\ n - 1 \in a)}

=============================================================================
