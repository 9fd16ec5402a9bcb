-------------------------------- MODULE Cache --------------------------------
(***************************************************************************)
(* cache.c: a direct-mapped, write-through cache in front of the memory of  *)
(* the process, with its counters.  An address is a vector of ADDR_BITS     *)
(* bits (64 in the source), so that tag, index and offset are the part      *)
(* selects their masks compute.  A process makes and frees caches; while it *)
(* has none it writes its memory directly, as make_random_matrix does.      *)
(***************************************************************************)
EXTENDS BitVec, FiniteSets

CONSTANTS
    ADDR_BITS,
    Bytes,          \* the values of a byte
    Params,         \* the line_params the process uses
    MaxAccesses     \* bound on the loads and stores of one cache

\* No field is the whole address: make_cache() would shift by the width of a
\* size_t, so that the SIZE_MAX of block_size() is never a size that is used.
ASSUME CacheAssumption ==
    /\ ADDR_BITS \in Nat
    /\ MaxAccesses \in Nat
    /\ Params \subseteq [num_index_bits : 0 .. ADDR_BITS - 1,
                         num_offset_bits : 0 .. ADDR_BITS - 1]
    /\ \A p \in Params : p.num_index_bits + p.num_offset_bits <= ADDR_BITS

VARIABLES
    memory,                     \* the byte at each address
    live,                       \* there is a cache: make_cache() ran, free_cache() not yet
    params,
    valid, tag, block,          \* the lines, by line index
    hits, misses, evictions,
    answer                      \* what the last call was answered, if it was a load

cacheVars   == <<live, params, valid, tag, block, hits, misses, evictions>>
processVars == <<memory, cacheVars, answer>>

Addresses  == BV(ADDR_BITS)
Indices(p) == BV(p.num_index_bits)
Offsets(p) == BV(p.num_offset_bits)

num_line_bits(p) == p.num_index_bits + p.num_offset_bits

\* Mutant: a tag that loses the top bit of the address.
get_tag_Narrow(addr, p) == Slice(addr, ADDR_BITS - 2, num_line_bits(p))

get_tag(addr, p)         == Slice(addr, ADDR_BITS - 1, num_line_bits(p))
get_line_index(addr, p)  == Slice(addr, num_line_bits(p) - 1, p.num_offset_bits)
get_line_offset(addr, p) == addr \cap Positions(p.num_offset_bits)

\* The address of byte o of the block around an address: addr - offset + o.
BlockByte(addr, p, o) == (addr \ Positions(p.num_offset_bits)) \cup o

CacheTypeOK ==
    /\ memory \in [Addresses -> Bytes]
    /\ live \in BOOLEAN
    /\ params \in Params
    /\ valid \in [Indices(params) -> BOOLEAN]
    /\ tag \in [Indices(params) -> Addresses]
    /\ block \in [Indices(params) -> [Offsets(params) -> Bytes]]
    /\ hits \in Nat /\ misses \in Nat /\ evictions \in Nat
    /\ answer \subseteq Addresses \X Bytes

\* make_line for every line: blocks are as malloc() leaves them.
NoneValid(p)       == [i \in Indices(p) |-> FALSE]
ZeroTags(p)        == [i \in Indices(p) |-> {}]
FreshBlocks(p, garbage) == [i \in Indices(p) |-> [o \in Offsets(p) |-> garbage]]

CacheInit ==
    /\ \E b \in Bytes : memory = [a \in Addresses |-> b]
    /\ answer = {}
    /\ live = FALSE
    /\ params \in Params
    /\ valid = NoneValid(params) /\ tag = ZeroTags(params)
    /\ \E garbage \in Bytes : block = FreshBlocks(params, garbage)
    /\ hits = 0 /\ misses = 0 /\ evictions = 0

-----------------------------------------------------------------------------
make_cache(p, garbage) ==
    /\ ~live
    /\ live' = TRUE
    /\ params' = p
    /\ valid' = NoneValid(p) /\ tag' = ZeroTags(p)
    /\ block' = FreshBlocks(p, garbage)
    /\ hits' = 0 /\ misses' = 0 /\ evictions' = 0
    /\ UNCHANGED <<memory, answer>>

\* Nothing of a freed cache can be read again.
free_cache ==
    /\ live
    /\ live' = FALSE
    /\ valid' = NoneValid(params) /\ tag' = ZeroTags(params)
    /\ \E garbage \in Bytes : block' = FreshBlocks(params, garbage)
    /\ hits' = 0 /\ misses' = 0 /\ evictions' = 0
    /\ UNCHANGED <<memory, params, answer>>

\* The line an address maps to holds its block.
Hit(addr) ==
    LET line == get_line_index(addr, params)
    IN  valid[line] /\ tag[line] = get_tag(addr, params)

\* Mutant: every miss counts as an eviction.
Evicts_Always(addr) == ~Hit(addr)

\* A miss that replaces a valid line.
Evicts(addr) == ~Hit(addr) /\ valid[get_line_index(addr, params)]

\* The blocks once the one of an address is in its line.
BlocksWith(addr) ==
    IF Hit(addr) THEN block
    ELSE [block EXCEPT ![get_line_index(addr, params)] =
             [o \in Offsets(params) |-> memory[BlockByte(addr, params, o)]]]

\* What access() does to everything but the blocks.
access(addr) ==
    /\ live
    /\ hits + misses < MaxAccesses
    /\ hits' = hits + (IF Hit(addr) THEN 1 ELSE 0)
    /\ misses' = misses + (IF Hit(addr) THEN 0 ELSE 1)
    /\ evictions' = evictions + (IF Evicts(addr) THEN 1 ELSE 0)
    /\ valid' = [valid EXCEPT ![get_line_index(addr, params)] = TRUE]
    /\ tag' = [tag EXCEPT ![get_line_index(addr, params)] = get_tag(addr, params)]
    /\ UNCHANGED <<live, params>>

load(addr) ==
    /\ access(addr)
    /\ block' = BlocksWith(addr)
    /\ answer' = {<<addr, BlocksWith(addr)[get_line_index(addr, params)]
                                          [get_line_offset(addr, params)]>>}
    /\ UNCHANGED memory

\* Mutant: a store that leaves memory to a write-back that never comes.
store_NoWriteThrough(addr, value) ==
    /\ access(addr)
    /\ block' = [BlocksWith(addr) EXCEPT
                    ![get_line_index(addr, params)][get_line_offset(addr, params)] = value]
    /\ answer' = {}
    /\ UNCHANGED memory

store(addr, value) ==
    /\ access(addr)
    /\ block' = [BlocksWith(addr) EXCEPT
                    ![get_line_index(addr, params)][get_line_offset(addr, params)] = value]
    /\ memory' = [memory EXCEPT ![addr] = value]
    /\ answer' = {}

\* A write that does not go through a cache, while there is none.
Assign(addr, value) ==
    /\ ~live
    /\ memory' = [memory EXCEPT ![addr] = value]
    /\ answer' = {}
    /\ UNCHANGED cacheVars

CacheNext ==
    \/ \E p \in Params, garbage \in Bytes : make_cache(p, garbage)
    \/ free_cache
    \/ \E addr \in Addresses : load(addr)
    \/ \E addr \in Addresses, value \in Bytes : store(addr, value) \/ Assign(addr, value)

CacheSpec == CacheInit /\ [][CacheNext]_processVars

-----------------------------------------------------------------------------
(***************************************************************************)
(* Every valid line of a cache in use holds the bytes that memory holds at  *)
(* the addresses its index and tag stand for, whatever addresses competed   *)
(* for it (cache.c:93-135).                                                 *)
(***************************************************************************)
Coherent ==
    live => \A addr \in Addresses :
        Hit(addr) =>
            block[get_line_index(addr, params)][get_line_offset(addr, params)] = memory[addr]

(***************************************************************************)
(* The counters say what happened: a line becomes valid by a miss that      *)
(* evicts nothing, so the valid lines are the misses that were not          *)
(* evictions (cache.c:97-106).                                              *)
(***************************************************************************)
CountersExact ==
    live => misses - evictions = Cardinality({i \in Indices(params) : valid[i]})

(***************************************************************************)
(* A program that reads and writes through the cache cannot tell it from    *)
(* memory, for any geometry, across caches made and freed (cache.h:143-176).*)
(***************************************************************************)
Flat == INSTANCE FlatMemory
ImplementsFlatMemory == Flat!Spec

=============================================================================
