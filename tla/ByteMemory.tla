------------------------------ MODULE ByteMemory ------------------------------
(***************************************************************************)
(* What the header of memory.sv promises of a store: memory is an array of  *)
(* bytes, and a store replaces the 1, 2 or 4 bytes at an address aligned to *)
(* its size and no other byte.                                              *)
(***************************************************************************)
EXTENDS BitVec

CONSTANT Addresses      \* the byte addresses that hold a byte

VARIABLE bytes

Init == bytes \in [Addresses -> BV(8)]

\* The address of byte k of the aligned block of 2^size bytes around an
\* address: the low size bits of the address are replaced by those of k.
ByteOf(address, size, k) == (address \ Positions(size)) \cup k

\* A store of the low 2^size bytes of data.
Store(address, size, data) ==
    bytes' = [a \in Addresses |->
                IF \E k \in BV(size) : a = ByteOf(address, size, k)
                THEN LET k == a \cap Positions(size)
                     IN  Slice(data, 8 * Value(k) + 7, 8 * Value(k))
                ELSE bytes[a]]

=============================================================================
