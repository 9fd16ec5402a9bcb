----------------------------- MODULE CacheProofs -----------------------------
(***************************************************************************)
(* Proofs about the cache and the transpose over it, for every address      *)
(* width, every geometry and every sequence of calls.                       *)
(***************************************************************************)
EXTENDS Transpose, FiniteSetTheorems, TLAPS

(***************************************************************************)
(* Tag, index and offset have their ranges, and a block stays in memory.    *)
(***************************************************************************)
LEMMA FieldRanges ==
    ASSUME NEW p \in Params, NEW a \in Addresses
    PROVE  /\ get_tag(a, p) \in Addresses
           /\ get_line_index(a, p) \in Indices(p)
           /\ get_line_offset(a, p) \in Offsets(p)
           /\ \A o \in Offsets(p) : BlockByte(a, p, o) \in Addresses
<1> DEFINE m == p.num_index_bits
           n == p.num_offset_bits
<1>1. m \in Nat /\ n \in Nat /\ m + n <= ADDR_BITS /\ ADDR_BITS \in Nat
  BY CacheAssumption
<1>2. get_tag(a, p) \in Addresses
  BY <1>1 DEF get_tag, num_line_bits, Slice, Addresses, BV, Positions
<1>3. get_line_index(a, p) \in Indices(p)
  BY <1>1 DEF get_line_index, num_line_bits, Slice, Indices, BV, Positions
<1>4. get_line_offset(a, p) \in Offsets(p)
  BY DEF get_line_offset, Offsets, BV
<1>5. \A o \in Offsets(p) : BlockByte(a, p, o) \in Addresses
  <2>1. Positions(n) \subseteq Positions(ADDR_BITS)
    BY <1>1 DEF Positions
  <2> QED
    BY <2>1 DEF BlockByte, Offsets, Addresses, BV
<1> QED
  BY <1>2, <1>3, <1>4, <1>5

\* Part selects that agree come from words that agree there.
LEMMA SliceInjective ==
    ASSUME NEW a, NEW b, NEW hi \in Int, NEW lo \in Int, Slice(a, hi, lo) = Slice(b, hi, lo),
           NEW i \in lo .. hi
    PROVE  i \in a <=> i \in b
<1>1. ASSUME NEW x, NEW y, Slice(x, hi, lo) = Slice(y, hi, lo), i \in x
      PROVE  i \in y
  <2>1. i - lo \in Slice(x, hi, lo)
    BY <1>1 DEF Slice
  <2>2. PICK j \in y \cap (lo .. hi) : j - lo = i - lo
    BY <1>1, <2>1 DEF Slice
  <2> QED
    BY <2>2
<1> QED
  BY <1>1

(***************************************************************************)
(* Two addresses with the same tag and index are bytes of one block: the    *)
(* three masks leave no bit of the address out.                             *)
(***************************************************************************)
LEMMA OneBlock ==
    ASSUME NEW p \in Params, NEW a \in Addresses, NEW b \in Addresses,
           get_tag(a, p) = get_tag(b, p), get_line_index(a, p) = get_line_index(b, p)
    PROVE  b = BlockByte(a, p, get_line_offset(b, p))
<1> DEFINE m == p.num_index_bits
           n == p.num_offset_bits
<1>1. m \in Nat /\ n \in Nat /\ m + n <= ADDR_BITS /\ ADDR_BITS \in Nat
  BY CacheAssumption
<1>2. \A i \in m + n .. ADDR_BITS - 1 : i \in a <=> i \in b
  BY <1>1, SliceInjective DEF get_tag, num_line_bits
<1>3. \A i \in n .. m + n - 1 : i \in a <=> i \in b
  BY <1>1, SliceInjective DEF get_line_index, num_line_bits
<1>4. \A i \in Positions(ADDR_BITS) : i \notin Positions(n) => (i \in a <=> i \in b)
  BY <1>1, <1>2, <1>3 DEF Positions
<1>5. a \subseteq Positions(ADDR_BITS) /\ b \subseteq Positions(ADDR_BITS)
  BY DEF Addresses, BV
<1> QED
  BY <1>4, <1>5 DEF BlockByte, get_line_offset

(***************************************************************************)
(* Types.                                                                   *)
(***************************************************************************)
LEMMA BlocksType ==
    ASSUME CacheTypeOK, NEW a \in Addresses
    PROVE  BlocksWith(a) \in [Indices(params) -> [Offsets(params) -> Bytes]]
<1>1. params \in Params
  BY DEF CacheTypeOK
<1>2. [o \in Offsets(params) |-> memory[BlockByte(a, params, o)]]
        \in [Offsets(params) -> Bytes]
  BY <1>1, FieldRanges DEF CacheTypeOK
<1> QED
  BY <1>2 DEF BlocksWith, CacheTypeOK

LEMMA NewLinesType ==
    ASSUME NEW p \in Params, NEW garbage \in Bytes
    PROVE  /\ NoneValid(p) \in [Indices(p) -> BOOLEAN]
           /\ ZeroTags(p) \in [Indices(p) -> Addresses]
           /\ FreshBlocks(p, garbage) \in [Indices(p) -> [Offsets(p) -> Bytes]]
<1>1. {} \in Addresses
  BY DEF Addresses, BV
<1> QED
  BY <1>1 DEF NoneValid, ZeroTags, FreshBlocks

LEMMA AccessType ==
    ASSUME CacheTypeOK, NEW a \in Addresses, access(a)
    PROVE  /\ live' \in BOOLEAN /\ params' \in Params
           /\ valid' \in [Indices(params') -> BOOLEAN]
           /\ tag' \in [Indices(params') -> Addresses]
           /\ hits' \in Nat /\ misses' \in Nat /\ evictions' \in Nat
<1>1. params \in Params /\ params' = params
  BY DEF CacheTypeOK, access
<1>2. get_tag(a, params) \in Addresses
  BY <1>1, FieldRanges
<1>3. valid' \in [Indices(params) -> BOOLEAN] /\ tag' \in [Indices(params) -> Addresses]
  BY <1>2 DEF CacheTypeOK, access
<1>4. hits' \in Nat /\ misses' \in Nat /\ evictions' \in Nat
  <2> DEFINE hit == Hit(a)
             evicts == Evicts(a)
  <2>1. /\ hits' = hits + (IF hit THEN 1 ELSE 0)
        /\ misses' = misses + (IF hit THEN 0 ELSE 1)
        /\ evictions' = evictions + (IF evicts THEN 1 ELSE 0)
        /\ hits \in Nat /\ misses \in Nat /\ evictions \in Nat
    BY DEF CacheTypeOK, access
  <2> HIDE DEF hit, evicts
  <2> QED
    BY <2>1
<1>5. live' \in BOOLEAN
  BY DEF CacheTypeOK, access
<1> QED
  BY <1>1, <1>3, <1>4, <1>5

LEMMA CacheTypeStep == CacheTypeOK /\ [CacheNext]_processVars => CacheTypeOK'
<1> SUFFICES ASSUME CacheTypeOK, [CacheNext]_processVars
             PROVE  CacheTypeOK'
  OBVIOUS
<1>1. ASSUME NEW p \in Params, NEW garbage \in Bytes, make_cache(p, garbage)
      PROVE  CacheTypeOK'
  BY <1>1, NewLinesType DEF make_cache, CacheTypeOK
<1>2. CASE free_cache
  <2>1. params \in Params
    BY DEF CacheTypeOK
  <2> QED
    BY <1>2, <2>1, NewLinesType DEF free_cache, CacheTypeOK
<1>3. ASSUME NEW a \in Addresses, load(a)
      PROVE  CacheTypeOK'
  <2>1. params' = params /\ params \in Params
    BY <1>3 DEF load, access, CacheTypeOK
  <2>2. block' \in [Indices(params') -> [Offsets(params') -> Bytes]]
    BY <1>3, <2>1, BlocksType DEF load
  <2>3. answer' \subseteq Addresses \X Bytes
    BY <1>3, <2>1, BlocksType, FieldRanges DEF load
  <2> QED
    BY <1>3, <2>2, <2>3, AccessType DEF load, CacheTypeOK
<1>4. ASSUME NEW a \in Addresses, NEW v \in Bytes, store(a, v)
      PROVE  CacheTypeOK'
  <2>1. params' = params /\ params \in Params
    BY <1>4 DEF store, access, CacheTypeOK
  <2>2. block' \in [Indices(params') -> [Offsets(params') -> Bytes]]
    BY <1>4, <2>1, BlocksType DEF store
  <2> QED
    BY <1>4, <2>2, AccessType DEF store, CacheTypeOK
<1>5. ASSUME NEW a \in Addresses, NEW v \in Bytes, Assign(a, v)
      PROVE  CacheTypeOK'
  BY <1>5 DEF Assign, CacheTypeOK, cacheVars
<1>6. CASE UNCHANGED processVars
  BY <1>6 DEF processVars, cacheVars, CacheTypeOK
<1> QED
  BY <1>1, <1>2, <1>3, <1>4, <1>5, <1>6 DEF CacheNext

LEMMA CacheTypeInit == CacheInit => CacheTypeOK
<1> SUFFICES ASSUME CacheInit
             PROVE  CacheTypeOK
  OBVIOUS
<1>1. params \in Params
  BY DEF CacheInit
<1> QED
  BY <1>1, NewLinesType DEF CacheInit, CacheTypeOK

(***************************************************************************)
(* No sequence of calls takes a field of the cache out of its range.        *)
(***************************************************************************)
THEOREM CacheTypeCorrect == CacheSpec => []CacheTypeOK
  BY CacheTypeInit, CacheTypeStep, PTL DEF CacheSpec

-----------------------------------------------------------------------------
(***************************************************************************)
(* Coherence.  After access() the line of an address holds, for every       *)
(* address of the same block, the byte memory holds there.                  *)
(***************************************************************************)
LEMMA BlocksCoherent ==
    ASSUME CacheTypeOK, Coherent, live, NEW a \in Addresses, NEW b \in Addresses,
           get_line_index(b, params) = get_line_index(a, params),
           get_tag(b, params) = get_tag(a, params)
    PROVE  BlocksWith(a)[get_line_index(b, params)][get_line_offset(b, params)] = memory[b]
<1>1. params \in Params
  BY DEF CacheTypeOK
<1>2. CASE Hit(a)
  <2>1. Hit(b)
    BY <1>2 DEF Hit
  <2> QED
    BY <1>2, <2>1 DEF Coherent, BlocksWith
<1>3. CASE ~Hit(a)
  <2>1. b = BlockByte(a, params, get_line_offset(b, params))
    BY <1>1, OneBlock
  <2>2. /\ get_line_index(b, params) \in Indices(params)
        /\ get_line_offset(b, params) \in Offsets(params)
    BY <1>1, FieldRanges
  <2> QED
    BY <1>3, <2>1, <2>2 DEF BlocksWith, CacheTypeOK
<1> QED
  BY <1>2, <1>3

\* Which addresses hit after an access.
LEMMA HitsAfter ==
    ASSUME CacheTypeOK, NEW a \in Addresses, access(a), NEW b \in Addresses, Hit(b)'
    PROVE  \/ /\ get_line_index(b, params) = get_line_index(a, params)
              /\ get_tag(b, params) = get_tag(a, params)
           \/ /\ get_line_index(b, params) # get_line_index(a, params)
              /\ Hit(b)
<1>1. params \in Params /\ params' = params
  BY DEF CacheTypeOK, access
<1>2. /\ get_line_index(b, params) \in Indices(params)
      /\ get_line_index(a, params) \in Indices(params)
  BY <1>1, FieldRanges
<1>3. valid'[get_line_index(b, params)] /\ tag'[get_line_index(b, params)] = get_tag(b, params)
  BY <1>1 DEF Hit
<1>4. CASE get_line_index(b, params) = get_line_index(a, params)
  BY <1>2, <1>3, <1>4 DEF access, CacheTypeOK
<1>5. CASE get_line_index(b, params) # get_line_index(a, params)
  BY <1>2, <1>3, <1>5 DEF access, CacheTypeOK, Hit
<1> QED
  BY <1>4, <1>5

\* The lines an access does not name keep their blocks.
LEMMA OtherBlocks ==
    ASSUME CacheTypeOK, NEW a \in Addresses, NEW i \in Indices(params),
           i # get_line_index(a, params)
    PROVE  BlocksWith(a)[i] = block[i]
  BY DEF BlocksWith, CacheTypeOK

LEMMA LoadCoherent ==
    ASSUME CacheTypeOK, Coherent, NEW a \in Addresses, load(a)
    PROVE  Coherent'
<1>1. access(a) /\ live /\ params' = params /\ memory' = memory /\ block' = BlocksWith(a)
  BY DEF load, access
<1>2. params \in Params
  BY DEF CacheTypeOK
<1>3. ASSUME NEW b \in Addresses, Hit(b)'
      PROVE  block'[get_line_index(b, params)][get_line_offset(b, params)] = memory[b]
  <2>1. get_line_index(b, params) \in Indices(params)
    BY <1>2, FieldRanges
  <2>2. CASE /\ get_line_index(b, params) = get_line_index(a, params)
             /\ get_tag(b, params) = get_tag(a, params)
    BY <1>1, <2>2, BlocksCoherent
  <2>3. CASE get_line_index(b, params) # get_line_index(a, params) /\ Hit(b)
    BY <1>1, <2>1, <2>3, OtherBlocks DEF Coherent
  <2> QED
    BY <1>1, <1>3, <2>2, <2>3, HitsAfter
<1> QED
  BY <1>1, <1>3 DEF Coherent

LEMMA StoreCoherent ==
    ASSUME CacheTypeOK, Coherent, NEW a \in Addresses, NEW v \in Bytes, store(a, v)
    PROVE  Coherent'
<1> DEFINE line == get_line_index(a, params)
           off  == get_line_offset(a, params)
<1>1. /\ access(a) /\ live /\ params' = params
      /\ memory' = [memory EXCEPT ![a] = v]
      /\ block' = [BlocksWith(a) EXCEPT ![line][off] = v]
  BY DEF store, access
<1>2. params \in Params /\ memory \in [Addresses -> Bytes]
  BY DEF CacheTypeOK
<1>3. BlocksWith(a) \in [Indices(params) -> [Offsets(params) -> Bytes]]
  BY BlocksType
<1>4. line \in Indices(params) /\ off \in Offsets(params)
  BY <1>2, FieldRanges
<1>5. ASSUME NEW b \in Addresses, Hit(b)'
      PROVE  block'[get_line_index(b, params)][get_line_offset(b, params)] = memory'[b]
  <2>1. /\ get_line_index(b, params) \in Indices(params)
        /\ get_line_offset(b, params) \in Offsets(params)
    BY <1>2, FieldRanges
  <2>2. CASE b = a
    BY <1>1, <1>2, <1>3, <1>4, <2>2
  <2>3. CASE /\ b # a
             /\ get_line_index(b, params) = line
             /\ get_tag(b, params) = get_tag(a, params)
    <3>1. b = BlockByte(a, params, get_line_offset(b, params))
      BY <1>2, <2>3, OneBlock
    <3>2. a = BlockByte(a, params, off)
      BY <1>2, OneBlock
    <3>3. get_line_offset(b, params) # off
      BY <2>3, <3>1, <3>2
    <3>4. BlocksWith(a)[line][get_line_offset(b, params)] = memory[b]
      BY <1>1, <2>3, BlocksCoherent
    <3> QED
      BY <1>1, <1>2, <1>3, <1>4, <2>1, <2>3, <3>3, <3>4
  <2>4. CASE get_line_index(b, params) # line /\ Hit(b)
    <3>1. b # a
      BY <2>4
    <3>2. block'[get_line_index(b, params)] = block[get_line_index(b, params)]
      BY <1>1, <1>3, <1>4, <2>1, <2>4, OtherBlocks
    <3> QED
      BY <1>1, <1>2, <2>4, <3>1, <3>2 DEF Coherent
  <2> QED
    BY <1>1, <1>5, <2>2, <2>3, <2>4, HitsAfter
<1> QED
  BY <1>1, <1>5 DEF Coherent

LEMMA CoherentStep ==
    CacheTypeOK /\ CacheTypeOK' /\ Coherent /\ [CacheNext]_processVars => Coherent'
<1> SUFFICES ASSUME CacheTypeOK, CacheTypeOK', Coherent, [CacheNext]_processVars
             PROVE  Coherent'
  OBVIOUS
<1>1. ASSUME NEW p \in Params, NEW garbage \in Bytes, make_cache(p, garbage)
      PROVE  Coherent'
  <2>1. ASSUME NEW b \in Addresses
        PROVE  ~Hit(b)'
    <3>1. get_line_index(b, p) \in Indices(p)
      BY FieldRanges
    <3> QED
      BY <1>1, <3>1 DEF make_cache, NoneValid, Hit
  <2> QED
    BY <2>1 DEF Coherent
<1>2. CASE free_cache
  BY <1>2 DEF free_cache, Coherent
<1>3. ASSUME NEW a \in Addresses, load(a)
      PROVE  Coherent'
  BY <1>3, LoadCoherent
<1>4. ASSUME NEW a \in Addresses, NEW v \in Bytes, store(a, v)
      PROVE  Coherent'
  BY <1>4, StoreCoherent
<1>5. ASSUME NEW a \in Addresses, NEW v \in Bytes, Assign(a, v)
      PROVE  Coherent'
  BY <1>5 DEF Assign, cacheVars, Coherent
<1>6. CASE UNCHANGED processVars
  BY <1>6 DEF processVars, cacheVars, Coherent, Hit
<1> QED
  BY <1>1, <1>2, <1>3, <1>4, <1>5, <1>6 DEF CacheNext

(***************************************************************************)
(* For every geometry a valid line holds what memory holds: access() never  *)
(* hits a line that has gone stale (cache.c:97).                            *)
(***************************************************************************)
THEOREM CoherentHolds == CacheSpec => []Coherent
<1>1. CacheInit => Coherent
  BY DEF CacheInit, Coherent
<1> QED
  BY <1>1, CacheTypeCorrect, CoherentStep, PTL DEF CacheSpec

-----------------------------------------------------------------------------
\* A load returns the byte in memory.
LEMMA LoadReturns ==
    ASSUME CacheTypeOK, Coherent, NEW a \in Addresses, load(a)
    PROVE  answer' = {<<a, memory[a]>>} /\ memory' = memory
  BY BlocksCoherent DEF load, access

LEMMA FlatStep == CacheTypeOK /\ Coherent /\ [CacheNext]_processVars => [Flat!Next]_(Flat!vars)
<1> SUFFICES ASSUME CacheTypeOK, Coherent, [CacheNext]_processVars
             PROVE  [Flat!Next]_(Flat!vars)
  OBVIOUS
<1> USE DEF Flat!vars
<1>1. ASSUME NEW p \in Params, NEW garbage \in Bytes, make_cache(p, garbage)
      PROVE  [Flat!Next]_(Flat!vars)
  BY <1>1 DEF make_cache
<1>2. CASE free_cache
  BY <1>2 DEF free_cache
<1>3. ASSUME NEW a \in Addresses, load(a)
      PROVE  Flat!Next
  BY <1>3, LoadReturns DEF Flat!Next, Flat!Load
<1>4. ASSUME NEW a \in Addresses, NEW v \in Bytes, store(a, v) \/ Assign(a, v)
      PROVE  Flat!Next
  BY <1>4 DEF store, Assign, Flat!Next, Flat!Store
<1>5. CASE UNCHANGED processVars
  BY <1>5 DEF processVars
<1> QED
  BY <1>1, <1>2, <1>3, <1>4, <1>5 DEF CacheNext

(***************************************************************************)
(* For every geometry and every sequence of caches, a program that uses     *)
(* load() and store() cannot tell the cache from memory (cache.c:119-135).  *)
(***************************************************************************)
THEOREM CacheIsMemory == CacheSpec => ImplementsFlatMemory
<1>1. CacheInit => Flat!Init
  <2> SUFFICES ASSUME CacheInit
               PROVE  Flat!Init
    OBVIOUS
  <2>1. PICK b \in Bytes : memory = [a \in Addresses |-> b] /\ answer = {}
    BY DEF CacheInit
  <2> QED
    BY <2>1 DEF Flat!Init
<1> QED
  BY <1>1, CacheTypeCorrect, CoherentHolds, FlatStep, PTL
     DEF CacheSpec, ImplementsFlatMemory, Flat!Spec

-----------------------------------------------------------------------------
(***************************************************************************)
(* The counters.                                                            *)
(***************************************************************************)
LEMMA IndicesFinite ==
    ASSUME NEW p \in Params
    PROVE  IsFiniteSet(Indices(p))
<1>1. p.num_index_bits \in Nat
  BY CacheAssumption
<1>2. IsFiniteSet(Positions(p.num_index_bits))
  BY <1>1, FS_Interval DEF Positions
<1> QED
  BY <1>2, FS_SUBSET DEF Indices, BV

ValidLines == {i \in Indices(params) : valid[i]}

LEMMA CountStep ==
    ASSUME CacheTypeOK, CountersExact, NEW a \in Addresses, access(a)
    PROVE  CountersExact'
<1> DEFINE line == get_line_index(a, params)
<1>1. params \in Params /\ params' = params /\ live
  BY DEF CacheTypeOK, access
<1>2. line \in Indices(params)
  BY <1>1, FieldRanges
<1>3. IsFiniteSet(ValidLines) /\ Cardinality(ValidLines) \in Nat
  BY <1>1, IndicesFinite, FS_Subset, FS_CardinalityType DEF ValidLines
<1>4. ValidLines' = ValidLines \cup {line}
  BY <1>1, <1>2 DEF ValidLines, access, CacheTypeOK
<1>5. misses - evictions = Cardinality(ValidLines) /\ misses \in Nat /\ evictions \in Nat
  BY <1>1 DEF CountersExact, ValidLines, CacheTypeOK
<1>6. CASE valid[line]
  <2>1. ValidLines' = ValidLines
    BY <1>2, <1>4, <1>6 DEF ValidLines
  <2>2. misses' - evictions' = misses - evictions
    BY <1>5, <1>6 DEF access, Evicts
  <2> QED
    BY <1>5, <2>1, <2>2 DEF CountersExact, ValidLines
<1>7. CASE ~valid[line]
  <2>1. Cardinality(ValidLines') = Cardinality(ValidLines) + 1
    BY <1>3, <1>4, <1>7, FS_AddElement DEF ValidLines
  <2>2. ~Hit(a) /\ ~Evicts(a)
    BY <1>7 DEF Hit, Evicts
  <2>3. misses' = misses + 1 /\ evictions' = evictions
    BY <1>5, <2>2 DEF access
  <2>4. misses' - evictions' = Cardinality(ValidLines')
    BY <1>3, <1>5, <2>1, <2>3
  <2> QED
    BY <2>4 DEF CountersExact, ValidLines
<1> QED
  BY <1>6, <1>7

LEMMA CountersStep == CacheTypeOK /\ CountersExact /\ [CacheNext]_processVars => CountersExact'
<1> SUFFICES ASSUME CacheTypeOK, CountersExact, [CacheNext]_processVars
             PROVE  CountersExact'
  OBVIOUS
<1>1. ASSUME NEW p \in Params, NEW garbage \in Bytes, make_cache(p, garbage)
      PROVE  CountersExact'
  <2>1. {i \in Indices(p) : valid'[i]} = {}
    BY <1>1 DEF make_cache, NoneValid
  <2>2. params' = p /\ misses' = 0 /\ evictions' = 0
    BY <1>1 DEF make_cache
  <2> QED
    BY <2>1, <2>2, FS_EmptySet DEF CountersExact
<1>2. CASE free_cache
  BY <1>2 DEF free_cache, CountersExact
<1>3. ASSUME NEW a \in Addresses, access(a)
      PROVE  CountersExact'
  BY <1>3, CountStep
<1>4. ASSUME NEW a \in Addresses, NEW v \in Bytes, Assign(a, v)
      PROVE  CountersExact'
  BY <1>4 DEF Assign, cacheVars, CountersExact
<1>5. CASE UNCHANGED processVars
  BY <1>5 DEF processVars, cacheVars, CountersExact
<1> QED
  BY <1>1, <1>2, <1>3, <1>4, <1>5 DEF CacheNext, load, store

(***************************************************************************)
(* For every geometry the misses that evict nothing are the valid lines     *)
(* (cache.c:97-106).                                                        *)
(***************************************************************************)
THEOREM CountersAreExact == CacheSpec => []CountersExact
<1>1. CacheInit => CountersExact
  BY DEF CacheInit, CountersExact
<1> QED
  BY <1>1, CacheTypeCorrect, CountersStep, PTL DEF CacheSpec

-----------------------------------------------------------------------------
(***************************************************************************)
(* The transpose over the cache.  Cells are visited row by row: cell (r, c) *)
(* is number Nth(r, c) of that order.                                       *)
(***************************************************************************)
Nth(r, c)  == r * WIDTH + c
Rows       == 0 .. HEIGHT - 1
Columns    == 0 .. WIDTH - 1
SrcAt(r, c) == get_addr(src, WIDTH, r, c)
DstAt(r, c) == get_addr(dst, HEIGHT, c, r)
DrawnAt(r, c) == drawn[Nth(r, c) + 1]

\* Where the program is, and what of its variables follows from it.
Phases ==
    /\ params = Line_params
    /\ live <=> transpose_at \notin {"fill", "make", "exited"}
    /\ transpose_at = "malloc" => \A i \in Indices(params) : ~valid[i]
    /\ transpose_at = "fill" => run = 1
    /\ transpose_at = "store" => run = 1 /\ row < HEIGHT
    /\ row = HEIGHT => col = 0
    /\ ReferenceDone => row = HEIGHT
    /\ transpose_at \in {"load", "store", "report", "free"} => Block(src) \cap Block(dst) = {}

\* The source holds the bytes that were drawn, as far as it is filled.
SourceDrawn ==
    /\ Len(drawn) = (IF transpose_at = "fill" THEN Nth(row, col) ELSE HEIGHT * WIDTH)
    /\ \A r \in Rows, c \in Columns :
          Nth(r, c) < Len(drawn) => memory[SrcAt(r, c)] = DrawnAt(r, c)

\* The destination holds them, as far as the reference has come, and the byte
\* on its way is the next one.
DstTransposed ==
    /\ run = 1 /\ transpose_at \in {"load", "store", "report", "free"} =>
          \A r \in Rows, c \in Columns :
              Nth(r, c) < Nth(row, col) => memory[DstAt(r, c)] = DrawnAt(r, c)
    /\ transpose_at = "store" => answer = {<<SrcAt(row, col), DrawnAt(row, col)>>}
    /\ run = 1 /\ transpose_at = "free" => reported = "correct"

TransposeInv ==
    TransposeTypeOK /\ Coherent /\ Phases /\ SourceDrawn /\ DstTransposed

-----------------------------------------------------------------------------
\* The cells of a matrix are numbered in the order of its rows.
LEMMA RowsInOrder ==
    ASSUME NEW w \in Nat \ {0}, NEW r \in Nat, NEW q \in Nat, r < q,
           NEW c \in 0 .. w - 1, NEW d \in 0 .. w - 1
    PROVE  r * w + c < q * w + d
<1>1. PICK k \in Nat : q = r + 1 + k
  <2>1. q - r - 1 \in Nat /\ q = r + 1 + (q - r - 1)
    OBVIOUS
  <2> QED
    BY <2>1
<1>2. q * w = r * w + w + k * w
  BY <1>1
<1>3. k * w \in Nat /\ r * w \in Nat
  OBVIOUS
<1> QED
  BY <1>2, <1>3

LEMMA CellsInOrder ==
    ASSUME NEW w \in Nat \ {0}, NEW r \in Nat, NEW q \in Nat,
           NEW c \in 0 .. w - 1, NEW d \in 0 .. w - 1
    PROVE  r * w + c < q * w + d <=> r < q \/ (r = q /\ c < d)
<1>1. r * w \in Nat /\ q * w \in Nat
  OBVIOUS
<1>2. r < q \/ r = q \/ q < r
  OBVIOUS
<1>3. CASE r < q
  BY <1>1, <1>3, RowsInOrder
<1>4. CASE r = q
  BY <1>1, <1>4
<1>5. CASE q < r
  <2>1. q * w + d < r * w + c
    BY <1>5, RowsInOrder
  <2> QED
    BY <1>1, <1>5, <2>1
<1> QED
  BY <1>2, <1>3, <1>4, <1>5

LEMMA CellsInMatrix ==
    ASSUME NEW h \in Nat \ {0}, NEW w \in Nat \ {0}, NEW r \in 0 .. h - 1, NEW c \in 0 .. w - 1
    PROVE  r * w + c \in 0 .. h * w - 1
<1>1. r * w + c < h * w + 0
  BY RowsInOrder
<1>2. r * w \in Nat /\ h * w \in Nat
  OBVIOUS
<1> QED
  BY <1>1, <1>2

LEMMA CellsDiffer ==
    ASSUME NEW w \in Nat \ {0}, NEW r \in Nat, NEW q \in Nat,
           NEW c \in 0 .. w - 1, NEW d \in 0 .. w - 1, r * w + c = q * w + d
    PROVE  r = q /\ c = d
<1>1. ~(r < q) /\ ~(q < r)
  <2>1. r * w \in Nat /\ q * w \in Nat
    OBVIOUS
  <2> QED
    BY <2>1, RowsInOrder
<1>2. r = q
  BY <1>1
<1>3. r * w \in Nat
  OBVIOUS
<1> QED
  BY <1>2, <1>3

(***************************************************************************)
(* The cells of the two matrices have addresses of their own, if the        *)
(* matrices are apart.                                                      *)
(***************************************************************************)
LEMMA CellAddresses ==
    ASSUME TransposeTypeOK, NEW r \in Rows, NEW q \in Rows, NEW c \in Columns, NEW d \in Columns
    PROVE  /\ SrcAt(r, c) \in Addresses /\ DstAt(r, c) \in Addresses
           /\ SrcAt(r, c) = SrcAt(q, d) => r = q /\ c = d
           /\ DstAt(r, c) = DstAt(q, d) => r = q /\ c = d
           /\ Block(src) \cap Block(dst) = {} => SrcAt(r, c) # DstAt(q, d)
<1>1. HEIGHT \in Nat \ {0} /\ WIDTH \in Nat \ {0} /\ src \in Bases /\ dst \in Bases
  BY TransposeAssumption DEF TransposeTypeOK
<1>2. src \in Nat /\ dst \in Nat
  BY <1>1, TransposeAssumption
<1>3. ASSUME NEW i \in Rows, NEW j \in Columns
      PROVE  src + i * WIDTH + j \in Block(src) /\ dst + j * HEIGHT + i \in Block(dst)
  <2>1. i * WIDTH + j \in 0 .. HEIGHT * WIDTH - 1
    BY <1>1, CellsInMatrix DEF Rows, Columns
  <2>2. j * HEIGHT + i \in 0 .. WIDTH * HEIGHT - 1
    BY <1>1, CellsInMatrix DEF Rows, Columns
  <2>3. WIDTH * HEIGHT = HEIGHT * WIDTH /\ HEIGHT * WIDTH \in Nat
    BY <1>1
  <2>4. i * WIDTH \in Nat /\ j * HEIGHT \in Nat /\ i \in Nat /\ j \in Nat
    BY <1>1 DEF Rows, Columns
  <2> QED
    BY <1>2, <2>1, <2>2, <2>3, <2>4 DEF Block
<1>4. /\ r \in Nat /\ q \in Nat /\ c \in Nat /\ d \in Nat
      /\ r \in 0 .. HEIGHT - 1 /\ q \in 0 .. HEIGHT - 1
      /\ c \in 0 .. WIDTH - 1 /\ d \in 0 .. WIDTH - 1
      /\ r * WIDTH \in Nat /\ q * WIDTH \in Nat /\ c * HEIGHT \in Nat /\ d * HEIGHT \in Nat
  BY <1>1 DEF Rows, Columns
<1>5. SrcAt(r, c) \in Addresses /\ DstAt(r, c) \in Addresses
  BY <1>1, <1>3, TransposeAssumption DEF SrcAt, DstAt, get_addr
<1>6. ASSUME SrcAt(r, c) = SrcAt(q, d)
      PROVE  r = q /\ c = d
  <2>1. src + r * WIDTH + c = src + q * WIDTH + d
    BY <1>1, <1>3, <1>6, TransposeAssumption DEF SrcAt, get_addr
  <2>2. r * WIDTH + c = q * WIDTH + d
    BY <1>2, <1>4, <2>1
  <2> QED
    BY <1>1, <1>4, <2>2, CellsDiffer
<1>7. ASSUME DstAt(r, c) = DstAt(q, d)
      PROVE  r = q /\ c = d
  <2>1. dst + c * HEIGHT + r = dst + d * HEIGHT + q
    BY <1>1, <1>3, <1>7, TransposeAssumption DEF DstAt, get_addr
  <2>2. c * HEIGHT + r = d * HEIGHT + q
    BY <1>2, <1>4, <2>1
  <2> QED
    BY <1>1, <1>4, <2>2, CellsDiffer
<1>8. ASSUME Block(src) \cap Block(dst) = {}
      PROVE  SrcAt(r, c) # DstAt(q, d)
  <2>1. src + r * WIDTH + c \in Block(src) /\ dst + d * HEIGHT + q \in Block(dst)
    BY <1>3
  <2>2. src + r * WIDTH + c # dst + d * HEIGHT + q
    BY <1>8, <2>1
  <2> QED
    BY <1>1, <2>1, <2>2, TransposeAssumption DEF SrcAt, DstAt, get_addr
<1> QED
  BY <1>5, <1>6, <1>7, <1>8

\* The next cell has the next number, and is the only one added below it.
LEMMA NextCell ==
    ASSUME TransposeTypeOK, row < HEIGHT, NextElement
    PROVE  /\ row \in Rows /\ col \in Columns
           /\ row' \in 0 .. HEIGHT /\ col' \in Columns
           /\ row' = HEIGHT => col' = 0
           /\ Nth(row', col') = Nth(row, col) + 1
           /\ \A r \in Rows, c \in Columns :
                 Nth(r, c) < Nth(row, col) + 1 =>
                     Nth(r, c) < Nth(row, col) \/ (r = row /\ c = col)
<1>1. HEIGHT \in Nat \ {0} /\ WIDTH \in Nat \ {0}
  BY TransposeAssumption
<1>2. row \in Nat /\ row \in Rows /\ col \in 0 .. WIDTH - 1 /\ col \in Columns
  BY <1>1 DEF TransposeTypeOK, Rows, Columns
<1>3. CASE col + 1 < WIDTH
  <2>1. row' = row /\ col' = col + 1
    BY <1>3 DEF NextElement
  <2>2. row * WIDTH \in Nat
    BY <1>1, <1>2
  <2> QED
    BY <1>1, <1>2, <1>3, <2>1, <2>2 DEF Nth, Columns, Rows
<1>4. CASE ~(col + 1 < WIDTH)
  <2>1. row' = row + 1 /\ col' = 0 /\ col = WIDTH - 1
    BY <1>1, <1>2, <1>4 DEF NextElement
  <2>2. row * WIDTH \in Nat /\ (row + 1) * WIDTH = row * WIDTH + WIDTH
    BY <1>1, <1>2
  <2> QED
    BY <1>1, <1>2, <2>1, <2>2 DEF Nth, Columns, Rows
<1>5. ASSUME NEW r \in Rows, NEW c \in Columns, Nth(r, c) < Nth(row, col) + 1,
             ~(Nth(r, c) < Nth(row, col))
      PROVE  r = row /\ c = col
  <2>1. r \in Nat /\ c \in 0 .. WIDTH - 1 /\ r * WIDTH \in Nat /\ row * WIDTH \in Nat
    BY <1>1, <1>2 DEF Rows, Columns
  <2>2. r * WIDTH + c = row * WIDTH + col
    BY <1>2, <1>5, <2>1 DEF Nth
  <2> QED
    BY <1>1, <1>2, <2>1, <2>2, CellsDiffer
<1> QED
  BY <1>2, <1>3, <1>4, <1>5

\* All cells are below the end of the last row.
LEMMA AllCells ==
    /\ Nth(HEIGHT, 0) = HEIGHT * WIDTH
    /\ \A r \in Rows, c \in Columns :
          Nth(r, c) \in Nat /\ Nth(r, c) < HEIGHT * WIDTH
<1>1. HEIGHT \in Nat \ {0} /\ WIDTH \in Nat \ {0}
  BY TransposeAssumption
<1>2. HEIGHT * WIDTH \in Nat
  BY <1>1
<1>3. ASSUME NEW r \in Rows, NEW c \in Columns
      PROVE  Nth(r, c) \in 0 .. HEIGHT * WIDTH - 1
  BY <1>1, CellsInMatrix DEF Rows, Columns, Nth
<1> QED
  BY <1>2, <1>3 DEF Nth

LEMMA TransposeInvInit == TransposeInit => TransposeInv
<1> SUFFICES ASSUME TransposeInit
             PROVE  TransposeInv
  OBVIOUS
<1>1. HEIGHT \in Nat \ {0} /\ WIDTH \in Nat \ {0}
  BY TransposeAssumption
<1>2. CacheTypeOK /\ Coherent /\ ~live
  BY CacheTypeInit DEF TransposeInit, CacheInit, Coherent
<1>3. TransposeTypeOK
  BY <1>1, <1>2 DEF TransposeInit, TransposeTypeOK
<1>4. Phases
  BY <1>1, <1>2 DEF TransposeInit, Phases, ReferenceDone
<1>5. SourceDrawn
  <2>1. Len(drawn) = 0 /\ Nth(row, col) = 0
    BY <1>1 DEF TransposeInit, Nth
  <2> QED
    BY <2>1, AllCells DEF SourceDrawn, TransposeInit
<1>6. DstTransposed
  BY DEF DstTransposed, TransposeInit
<1> QED
  BY <1>2, <1>3, <1>4, <1>5, <1>6 DEF TransposeInv

LEMMA FillStep ==
    ASSUME TransposeInv, Fill
    PROVE  TransposeInv'
<1>1. /\ TransposeTypeOK /\ CacheTypeOK /\ Coherent /\ Phases /\ SourceDrawn
      /\ memory \in [Addresses -> Bytes] /\ drawn \in Seq(Bytes)
  BY DEF TransposeInv, TransposeTypeOK, CacheTypeOK
<1>2. PICK value \in Bytes :
        /\ memory' = [memory EXCEPT ![SrcAt(row, col)] = value]
        /\ drawn' = Append(drawn, value)
  BY DEF Fill, SrcAt
<1>3. /\ transpose_at = "fill" /\ transpose_at' = "fill" /\ row < HEIGHT /\ run = 1 /\ ~live
      /\ NextElement
      /\ UNCHANGED <<cacheVars, answer, run, src, dst, reported>>
  BY <1>1 DEF Fill, Phases
<1>4. /\ row \in Rows /\ col \in Columns /\ row' \in 0 .. HEIGHT /\ col' \in Columns
      /\ row' = HEIGHT => col' = 0
      /\ Nth(row', col') = Nth(row, col) + 1
  BY <1>1, <1>3, NextCell
<1>5. Len(drawn) = Nth(row, col) /\ Len(drawn) \in Nat
  BY <1>1, <1>3 DEF SourceDrawn
<1>6. TransposeTypeOK'
  <2>1. SrcAt(row, col) \in Addresses
    BY <1>1, <1>4, CellAddresses
  <2>2. CacheTypeOK'
    BY <1>1, <1>2, <1>3, <2>1 DEF CacheTypeOK, cacheVars
  <2> QED
    BY <1>1, <1>2, <1>3, <1>4, <2>2 DEF TransposeTypeOK, Columns
<1>7. Coherent' /\ Phases' /\ DstTransposed'
  BY <1>1, <1>3, <1>4 DEF Coherent, Phases, DstTransposed, ReferenceDone, cacheVars
<1>8. Len(drawn') = Nth(row', col')
  BY <1>1, <1>2, <1>4, <1>5
<1>9. ASSUME NEW r \in Rows, NEW c \in Columns, Nth(r, c) < Len(drawn')
      PROVE  memory'[SrcAt(r, c)] = drawn'[Nth(r, c) + 1]
  <2>1. Nth(r, c) \in Nat /\ Nth(r, c) < Nth(row, col) + 1
    BY <1>4, <1>8, <1>9, AllCells
  <2>2. SrcAt(r, c) \in Addresses /\ (SrcAt(r, c) = SrcAt(row, col) => r = row /\ c = col)
    BY <1>1, <1>4, CellAddresses
  <2>3. CASE Nth(r, c) < Nth(row, col)
    <3>1. SrcAt(r, c) # SrcAt(row, col)
      BY <1>5, <2>2, <2>3
    <3>2. memory[SrcAt(r, c)] = drawn[Nth(r, c) + 1]
      BY <1>1, <1>5, <2>3 DEF SourceDrawn, DrawnAt
    <3>3. drawn'[Nth(r, c) + 1] = drawn[Nth(r, c) + 1]
      BY <1>1, <1>2, <1>5, <2>1, <2>3
    <3> QED
      BY <1>1, <1>2, <2>2, <3>1, <3>2, <3>3
  <2>4. CASE r = row /\ c = col
    <3>1. drawn'[Nth(r, c) + 1] = value
      BY <1>1, <1>2, <1>5, <2>4
    <3> QED
      BY <1>1, <1>2, <2>2, <2>4, <3>1
  <2> QED
    BY <1>1, <1>3, <1>4, <2>1, <2>3, <2>4, NextCell
<1>10. SourceDrawn'
  BY <1>3, <1>8, <1>9 DEF SourceDrawn, SrcAt, DrawnAt, get_addr, Nth
<1> QED
  BY <1>1, <1>6, <1>7, <1>10 DEF TransposeInv

LEMMA FilledStep ==
    ASSUME TransposeInv, Filled
    PROVE  TransposeInv'
<1>1. /\ TransposeTypeOK /\ Coherent /\ Phases /\ SourceDrawn /\ DstTransposed
      /\ transpose_at = "fill" /\ row = HEIGHT /\ transpose_at' = "make"
      /\ UNCHANGED <<memory, cacheVars, answer, run, src, dst, loopVars, drawn, reported>>
  BY DEF TransposeInv, Filled, processVars
<1>2. TransposeTypeOK' /\ Coherent' /\ Phases' /\ DstTransposed'
  BY <1>1 DEF TransposeTypeOK, CacheTypeOK, Coherent, Hit, Phases, DstTransposed, ReferenceDone,
              cacheVars, loopVars
<1>3. Len(drawn) = HEIGHT * WIDTH
  BY <1>1, AllCells DEF SourceDrawn, Phases
<1>4. SourceDrawn'
  BY <1>1, <1>3 DEF SourceDrawn, SrcAt, DrawnAt, get_addr, loopVars
<1> QED
  BY <1>2, <1>4 DEF TransposeInv

LEMMA MakeCacheStep ==
    ASSUME TransposeInv, MakeCache
    PROVE  TransposeInv'
<1>1. /\ TransposeTypeOK /\ CacheTypeOK /\ Coherent /\ Phases /\ SourceDrawn /\ DstTransposed
      /\ transpose_at = "make" /\ transpose_at' = "malloc" /\ Line_params \in Params
      /\ UNCHANGED <<memory, answer, run, src, dst, loopVars, drawn, reported>>
  BY TransposeAssumption DEF TransposeInv, TransposeTypeOK, MakeCache, make_cache
<1>2. PICK garbage \in Bytes : make_cache(Line_params, garbage)
  BY DEF MakeCache
<1>3. CacheTypeOK' /\ Coherent'
  BY <1>1, <1>2, CacheTypeStep, CoherentStep DEF CacheNext
<1>4. TransposeTypeOK'
  BY <1>1, <1>3 DEF TransposeTypeOK, loopVars
<1>5. Phases'
  BY <1>1, <1>2 DEF Phases, make_cache, NoneValid, ReferenceDone, loopVars
<1>6. SourceDrawn' /\ DstTransposed'
  BY <1>1 DEF SourceDrawn, DstTransposed, SrcAt, DrawnAt, get_addr, loopVars
<1> QED
  BY <1>3, <1>4, <1>5, <1>6 DEF TransposeInv

\* The new matrix is apart from the source, and no line of the cache is valid.
LEMMA MallocStep ==
    ASSUME TransposeInv, make_uninitialized_matrix
    PROVE  TransposeInv'
<1>1. /\ TransposeTypeOK /\ CacheTypeOK /\ Phases /\ SourceDrawn
      /\ HEIGHT \in Nat \ {0} /\ WIDTH \in Nat \ {0}
      /\ transpose_at = "malloc" /\ transpose_at' = "load" /\ row' = 0 /\ col' = 0
      /\ dst' \in Bases /\ src \in Bases /\ Block(dst') \cap Block(src) = {}
      /\ UNCHANGED <<cacheVars, answer, run, src, drawn, reported>>
  BY TransposeAssumption DEF TransposeInv, TransposeTypeOK, make_uninitialized_matrix
<1>2. \/ memory' = memory
      \/ \E garbage \in Bytes : memory' =
            [a \in Addresses |-> IF a \in {Address(n) : n \in Block(dst')} THEN garbage
                                 ELSE memory[a]]
  BY DEF make_uninitialized_matrix
<1>3. TransposeTypeOK'
  <2>1. memory' \in [Addresses -> Bytes]
    BY <1>1, <1>2 DEF CacheTypeOK
  <2> QED
    BY <1>1, <2>1 DEF TransposeTypeOK, CacheTypeOK, cacheVars
<1>4. Coherent'
  <2>1. ASSUME NEW a \in Addresses
        PROVE  ~Hit(a)'
    <3>1. params \in Params /\ get_line_index(a, params) \in Indices(params)
      BY <1>1, FieldRanges DEF CacheTypeOK
    <3> QED
      BY <1>1, <3>1 DEF Hit, Phases, cacheVars
  <2> QED
    BY <2>1 DEF Coherent
<1>5. Phases'
  BY <1>1 DEF Phases, ReferenceDone, Block, cacheVars
<1>6. ASSUME NEW r \in Rows, NEW c \in Columns
      PROVE  memory'[SrcAt(r, c)] = memory[SrcAt(r, c)]
  <2>1. src + r * WIDTH + c \in Block(src)
    <3>1. r * WIDTH + c \in 0 .. HEIGHT * WIDTH - 1
      BY <1>1, CellsInMatrix DEF Rows, Columns
    <3>2. src \in Nat /\ r \in Nat /\ c \in Nat /\ r * WIDTH \in Nat /\ HEIGHT * WIDTH \in Nat
      BY <1>1, TransposeAssumption DEF Rows, Columns
    <3> QED
      BY <3>1, <3>2 DEF Block
  <2>2. SrcAt(r, c) \notin {Address(n) : n \in Block(dst')}
    BY <1>1, <2>1, TransposeAssumption DEF SrcAt, get_addr
  <2>3. SrcAt(r, c) \in Addresses
    BY <1>1, CellAddresses
  <2> QED
    BY <1>2, <2>2, <2>3
<1>7. SourceDrawn'
  BY <1>1, <1>6 DEF SourceDrawn, SrcAt, DrawnAt, get_addr
<1>8. DstTransposed'
  <2>1. Nth(row', col') = 0
    BY <1>1 DEF Nth
  <2>2. \A r \in Rows, c \in Columns : ~(Nth(r, c) < Nth(row', col'))
    BY <2>1, AllCells
  <2> QED
    BY <1>1, <2>2 DEF DstTransposed, Nth
<1> QED
  BY <1>3, <1>4, <1>5, <1>7, <1>8 DEF TransposeInv

LEMMA LoadStep ==
    ASSUME TransposeInv, LoadElement
    PROVE  TransposeInv'
<1>1. /\ TransposeTypeOK /\ CacheTypeOK /\ Coherent /\ Phases /\ SourceDrawn /\ DstTransposed
      /\ transpose_at = "load" /\ run = 1 /\ row < HEIGHT /\ transpose_at' = "store"
      /\ load(SrcAt(row, col))
      /\ UNCHANGED <<run, src, dst, loopVars, drawn, reported>>
  BY DEF TransposeInv, TransposeTypeOK, LoadElement, SrcAt
<1>2. row \in Rows /\ col \in Columns
  BY <1>1, TransposeAssumption DEF TransposeTypeOK, Rows, Columns
<1>3. SrcAt(row, col) \in Addresses
  BY <1>1, <1>2, CellAddresses
<1>4. CacheTypeOK' /\ Coherent'
  BY <1>1, <1>3, CacheTypeStep, LoadCoherent DEF CacheNext
<1>5. answer' = {<<SrcAt(row, col), memory[SrcAt(row, col)]>>} /\ memory' = memory
  BY <1>1, <1>3, LoadReturns
<1>6. TransposeTypeOK'
  BY <1>1, <1>4 DEF TransposeTypeOK, loopVars
<1>7. Phases'
  BY <1>1 DEF Phases, ReferenceDone, Block, load, access, loopVars
<1>8. SourceDrawn'
  BY <1>1, <1>5 DEF SourceDrawn, SrcAt, DrawnAt, get_addr, loopVars
<1>9. memory[SrcAt(row, col)] = DrawnAt(row, col)
  BY <1>1, <1>2, AllCells DEF SourceDrawn
<1>10. DstTransposed'
  BY <1>1, <1>5, <1>9 DEF DstTransposed, SrcAt, DstAt, DrawnAt, get_addr, Nth, loopVars
<1> QED
  BY <1>4, <1>6, <1>7, <1>8, <1>10 DEF TransposeInv

LEMMA StoreStep ==
    ASSUME TransposeInv, StoreElement
    PROVE  TransposeInv'
<1>1. /\ TransposeTypeOK /\ CacheTypeOK /\ Coherent /\ Phases /\ SourceDrawn /\ DstTransposed
      /\ transpose_at = "store" /\ run = 1 /\ row < HEIGHT /\ transpose_at' = "load"
      /\ Block(src) \cap Block(dst) = {}
      /\ store(DstAt(row, col), Loaded) /\ NextElement
      /\ UNCHANGED <<run, src, dst, drawn, reported>>
      /\ drawn \in Seq(Bytes) /\ memory \in [Addresses -> Bytes]
  BY DEF TransposeInv, TransposeTypeOK, CacheTypeOK, Phases, StoreElement, DstAt
<1>2. /\ row \in Rows /\ col \in Columns /\ row' \in 0 .. HEIGHT /\ col' \in Columns
      /\ row' = HEIGHT => col' = 0
      /\ Nth(row', col') = Nth(row, col) + 1
  BY <1>1, NextCell
<1>3. Nth(row, col) \in Nat /\ Nth(row, col) < Len(drawn)
  BY <1>1, <1>2, AllCells DEF SourceDrawn
<1>4. DrawnAt(row, col) \in Bytes
  BY <1>1, <1>3 DEF DrawnAt
<1>5. SrcAt(row, col) \in Addresses /\ DstAt(row, col) \in Addresses
  BY <1>1, <1>2, CellAddresses
<1>6. Loaded = DrawnAt(row, col)
  <2>1. answer = {<<SrcAt(row, col), DrawnAt(row, col)>>}
    BY <1>1 DEF DstTransposed
  <2>2. \A value \in Bytes :
           (\E addr \in Addresses : answer = {<<addr, value>>}) <=> value = DrawnAt(row, col)
    <3>1. ASSUME NEW value \in Bytes, NEW addr \in Addresses, answer = {<<addr, value>>}
          PROVE  value = DrawnAt(row, col)
      <4>1. <<addr, value>> \in answer
        BY <3>1
      <4>2. <<addr, value>> = <<SrcAt(row, col), DrawnAt(row, col)>>
        BY <2>1, <4>1
      <4> QED
        BY <4>2
    <3>2. \E addr \in Addresses : answer = {<<addr, DrawnAt(row, col)>>}
      BY <1>5, <2>1
    <3> QED
      BY <3>1, <3>2
  <2> QED
    BY <1>4, <2>2 DEF Loaded
<1>7. store(DstAt(row, col), DrawnAt(row, col))
  BY <1>1, <1>6
<1>8. CacheTypeOK' /\ Coherent'
  BY <1>1, <1>4, <1>5, <1>7, CacheTypeStep, StoreCoherent DEF CacheNext
<1>9. memory' = [memory EXCEPT ![DstAt(row, col)] = DrawnAt(row, col)]
  BY <1>7 DEF store
<1>10. TransposeTypeOK'
  BY <1>1, <1>2, <1>8 DEF TransposeTypeOK, Columns
<1>11. Phases'
  BY <1>1, <1>2, <1>7 DEF Phases, ReferenceDone, Block, store, access
<1>12. ASSUME NEW r \in Rows, NEW c \in Columns
       PROVE  memory'[SrcAt(r, c)] = memory[SrcAt(r, c)]
  <2>1. SrcAt(r, c) \in Addresses /\ SrcAt(r, c) # DstAt(row, col)
    BY <1>1, <1>2, CellAddresses
  <2> QED
    BY <1>1, <1>9, <2>1
<1>13. SourceDrawn'
  BY <1>1, <1>12 DEF SourceDrawn, SrcAt, DrawnAt, get_addr
<1>14. ASSUME NEW r \in Rows, NEW c \in Columns, Nth(r, c) < Nth(row', col')
       PROVE  memory'[DstAt(r, c)] = DrawnAt(r, c)
  <2>1. /\ DstAt(r, c) \in Addresses
        /\ DstAt(r, c) = DstAt(row, col) => r = row /\ c = col
    BY <1>1, <1>2, CellAddresses
  <2>2. CASE Nth(r, c) < Nth(row, col)
    <3>1. memory[DstAt(r, c)] = DrawnAt(r, c)
      BY <1>1, <2>2 DEF DstTransposed
    <3>2. DstAt(r, c) # DstAt(row, col)
      BY <1>3, <2>1, <2>2
    <3> QED
      BY <1>1, <1>9, <2>1, <3>1, <3>2
  <2>3. CASE r = row /\ c = col
    BY <1>1, <1>9, <2>1, <2>3
  <2> QED
    BY <1>1, <1>2, <1>14, <2>2, <2>3, NextCell
<1>15. DstTransposed'
  BY <1>1, <1>14 DEF DstTransposed, DstAt, DrawnAt, get_addr, Nth
<1> QED
  BY <1>8, <1>10, <1>11, <1>13, <1>15 DEF TransposeInv

\* The loops end, or the stub returns at once: only the control moves.
LEMMA ReturnStep ==
    ASSUME TransposeInv, TransposeRefEnds \/ TransposeStub
    PROVE  TransposeInv'
<1>1. /\ TransposeTypeOK /\ Coherent /\ Phases /\ SourceDrawn /\ DstTransposed
      /\ transpose_at = "load" /\ transpose_at' = "report" /\ (run = 1 => row = HEIGHT)
      /\ UNCHANGED <<memory, cacheVars, answer, run, src, dst, loopVars, drawn, reported>>
  BY DEF TransposeInv, TransposeTypeOK, TransposeRefEnds, TransposeStub, processVars
<1>2. TransposeTypeOK'
  BY <1>1 DEF TransposeTypeOK, CacheTypeOK, cacheVars, loopVars
<1>3. Coherent'
  BY <1>1 DEF Coherent, Hit, cacheVars
<1>4. Phases'
  BY <1>1 DEF Phases, ReferenceDone, Block, cacheVars, loopVars
<1>5. SourceDrawn' /\ DstTransposed'
  BY <1>1 DEF SourceDrawn, DstTransposed, SrcAt, DstAt, DrawnAt, get_addr, Nth, loopVars
<1> QED
  BY <1>2, <1>3, <1>4, <1>5 DEF TransposeInv

\* After the reference both matrices hold what was drawn.
LEMMA WhenDone ==
    ASSUME TransposeInv, ReferenceDone, NEW r \in Rows, NEW c \in Columns
    PROVE  memory[SrcAt(r, c)] = DrawnAt(r, c) /\ memory[DstAt(r, c)] = DrawnAt(r, c)
<1>1. Phases /\ SourceDrawn /\ DstTransposed /\ run = 1 /\ transpose_at \in {"report", "free"}
  BY DEF TransposeInv, ReferenceDone
<1>2. Nth(r, c) < HEIGHT * WIDTH /\ Nth(row, col) = HEIGHT * WIDTH
  BY <1>1, AllCells DEF Phases, ReferenceDone
<1> QED
  BY <1>1, <1>2 DEF SourceDrawn, DstTransposed

LEMMA ReportStep ==
    ASSUME TransposeInv, Report
    PROVE  TransposeInv'
<1>1. /\ TransposeTypeOK /\ Coherent /\ Phases /\ SourceDrawn /\ DstTransposed
      /\ transpose_at = "report" /\ transpose_at' = "free"
      /\ reported' = (IF is_transpose THEN "correct" ELSE "incorrect")
      /\ UNCHANGED <<memory, cacheVars, answer, run, src, dst, loopVars, drawn>>
  BY DEF TransposeInv, TransposeTypeOK, Report, processVars
<1>2. TransposeTypeOK'
  BY <1>1 DEF TransposeTypeOK, CacheTypeOK, cacheVars, loopVars
<1>3. Coherent'
  BY <1>1 DEF Coherent, Hit, cacheVars
<1>4. Phases'
  BY <1>1 DEF Phases, ReferenceDone, Block, cacheVars, loopVars
<1>5. SourceDrawn'
  BY <1>1 DEF SourceDrawn, SrcAt, DrawnAt, get_addr, loopVars
<1>6. run = 1 => is_transpose
  BY <1>1, WhenDone DEF is_transpose, ReferenceDone, SrcAt, DstAt, Rows, Columns
<1>7. DstTransposed'
  BY <1>1, <1>6 DEF DstTransposed, DstAt, DrawnAt, get_addr, Nth, loopVars
<1> QED
  BY <1>2, <1>3, <1>4, <1>5, <1>7 DEF TransposeInv

LEMMA FreeStep ==
    ASSUME TransposeInv, Free
    PROVE  TransposeInv'
<1>1. /\ TransposeTypeOK /\ CacheTypeOK /\ Coherent /\ Phases /\ SourceDrawn
      /\ transpose_at = "free" /\ transpose_at' \in {"make", "exited"} /\ run' = 2
      /\ free_cache
      /\ UNCHANGED <<memory, params, answer, src, dst, loopVars, drawn, reported>>
  BY DEF TransposeInv, TransposeTypeOK, Free, free_cache
<1>2. CacheTypeOK' /\ Coherent'
  BY <1>1, CacheTypeStep, CoherentStep DEF CacheNext
<1>3. TransposeTypeOK'
  BY <1>1, <1>2 DEF TransposeTypeOK, loopVars
<1>4. Phases'
  BY <1>1 DEF Phases, ReferenceDone, free_cache, loopVars
<1>5. SourceDrawn' /\ DstTransposed'
  BY <1>1 DEF SourceDrawn, DstTransposed, SrcAt, DrawnAt, get_addr, loopVars
<1> QED
  BY <1>2, <1>3, <1>4, <1>5 DEF TransposeInv

LEMMA TransposeInvStep == TransposeInv /\ [TransposeNext]_transposeVars => TransposeInv'
<1>1. CASE UNCHANGED transposeVars
  BY <1>1 DEF TransposeInv, TransposeTypeOK, CacheTypeOK, Coherent, Hit, Phases, ReferenceDone,
              SourceDrawn, DstTransposed, SrcAt, DstAt, DrawnAt, get_addr, Nth, Block,
              transposeVars, processVars, cacheVars, loopVars
<1> QED
  BY <1>1, FillStep, FilledStep, MakeCacheStep, MallocStep, LoadStep, StoreStep, ReturnStep,
     ReportStep, FreeStep DEF TransposeNext, TransposeExited

\* No variable of the program or of its caches leaves its range.
LEMMA TransposeTypes == TransposeSpec => []TransposeTypeOK
<1>1. TransposeInv => TransposeTypeOK
  BY DEF TransposeInv
<1> QED
  BY <1>1, TransposeInvInit, TransposeInvStep, PTL DEF TransposeSpec

(***************************************************************************)
(* For every size of the matrices, every geometry of the cache and wherever *)
(* malloc() puts them, the reference leaves the transpose of what was drawn *)
(* and the run reports it (transpose.c:49-61).                              *)
(***************************************************************************)
THEOREM ReferenceTransposesHolds == TransposeSpec => []ReferenceTransposes
<1>1. TransposeInv => ReferenceTransposes
  <2> SUFFICES ASSUME TransposeInv, ReferenceDone,
                      NEW r \in 0 .. HEIGHT - 1, NEW c \in 0 .. WIDTH - 1
               PROVE  LET value == drawn[r * WIDTH + c + 1]
                      IN  /\ memory[get_addr(src, WIDTH, r, c)] = value
                          /\ memory[get_addr(dst, HEIGHT, c, r)] = value
                          /\ transpose_at = "free" => reported = "correct"
    BY DEF ReferenceTransposes
  <2>1. memory[SrcAt(r, c)] = DrawnAt(r, c) /\ memory[DstAt(r, c)] = DrawnAt(r, c)
    BY WhenDone DEF Rows, Columns
  <2>2. transpose_at = "free" => reported = "correct"
    BY DEF TransposeInv, DstTransposed, ReferenceDone
  <2> QED
    BY <2>1, <2>2 DEF SrcAt, DstAt, DrawnAt, Nth
<1> QED
  BY <1>1, TransposeInvInit, TransposeInvStep, PTL DEF TransposeSpec

=============================================================================
