----------------------------- MODULE FlatMemory -----------------------------
(***************************************************************************)
(* The memory a program believes it talks to when it calls load() and       *)
(* store() of cache.h: one byte for each address, and nothing in between.   *)
(***************************************************************************)
CONSTANTS Addresses, Bytes

VARIABLES
    memory,
    answer          \* the address and the byte of the last call, if it was a load

vars == <<memory, answer>>

Init == memory \in [Addresses -> Bytes] /\ answer = {}

Load(addr) == answer' = {<<addr, memory[addr]>>} /\ UNCHANGED memory

Store(addr, value) == memory' = [memory EXCEPT ![addr] = value] /\ answer' = {}

Next == \E addr \in Addresses : Load(addr) \/ \E value \in Bytes : Store(addr, value)

Spec == Init /\ [][Next]_vars

=============================================================================
