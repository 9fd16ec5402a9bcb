----------------------------- MODULE Transpose -----------------------------
(***************************************************************************)
(* run_transpose.c and transpose.c over the cache: a matrix is filled, and  *)
(* then transposed twice, each time with a new cache and a new destination  *)
(* matrix, by the reference and by transpose(), which is a stub.  Matrices  *)
(* are written and compared directly in memory, next to the live cache.     *)
(***************************************************************************)
EXTENDS Cache, Sequences

CONSTANTS
    HEIGHT, WIDTH,
    Line_params,    \* the geometry of the caches
    Bases,          \* where malloc() may put a matrix: the number of its first byte
    Address(_)      \* the address of a byte, by its number

\* The bytes of a matrix.
Block(matrix) == matrix .. matrix + HEIGHT * WIDTH - 1

\* What pointer arithmetic promises: different bytes have different addresses.
ASSUME TransposeAssumption ==
    /\ HEIGHT \in Nat \ {0} /\ WIDTH \in Nat \ {0}
    /\ Line_params \in Params
    /\ Bases \subseteq Nat
    /\ MaxAccesses >= 2 * HEIGHT * WIDTH
    /\ \A one, other \in Bases : \A m \in Block(one), n \in Block(other) :
          /\ Address(m) \in Addresses
          /\ Address(m) = Address(n) => m = n

VARIABLES
    transpose_at,   \* "fill", "make", "malloc", "load", "store", "report", "free" or "exited"
    run,            \* 1 for the reference, 2 for the stub
    src, dst,       \* the matrices
    row, col,
    drawn,          \* history: the bytes make_random_matrix() has drawn, in order
    reported        \* what the run printed: that its result is correct, or not

loopVars      == <<row, col>>
transposeVars == <<processVars, transpose_at, run, src, dst, loopVars, drawn, reported>>

TransposeTypeOK ==
    /\ CacheTypeOK
    /\ transpose_at \in {"fill", "make", "malloc", "load", "store", "report", "free", "exited"}
    /\ run \in {1, 2}
    /\ src \in Bases /\ dst \in Bases
    /\ row \in 0 .. HEIGHT /\ col \in 0 .. WIDTH - 1
    /\ drawn \in Seq(Bytes)
    /\ reported \in {"nothing", "correct", "incorrect"}

TransposeInit ==
    /\ CacheInit /\ params = Line_params
    /\ transpose_at = "fill" /\ run = 1
    /\ src \in Bases /\ dst = src
    /\ row = 0 /\ col = 0 /\ drawn = << >>
    /\ reported = "nothing"

-----------------------------------------------------------------------------
\* Mutant: the row length of the other matrix.
get_addr_Height(matrix, width, r, c) == Address(matrix + r * HEIGHT + c)

get_addr(matrix, width, r, c) == Address(matrix + r * width + c)

\* The loops over the rows and columns of a matrix.
NextElement ==
    /\ row' = IF col + 1 < WIDTH THEN row ELSE row + 1
    /\ col' = IF col + 1 < WIDTH THEN col + 1 ELSE 0

\* make_random_matrix()
Fill ==
    /\ transpose_at = "fill" /\ row < HEIGHT
    /\ \E value \in Bytes :
          /\ memory' = [memory EXCEPT ![get_addr(src, WIDTH, row, col)] = value]
          /\ drawn' = Append(drawn, value)
    /\ NextElement
    /\ UNCHANGED <<cacheVars, answer, transpose_at, run, src, dst, reported>>

Filled ==
    /\ transpose_at = "fill" /\ row = HEIGHT
    /\ transpose_at' = "make"
    /\ UNCHANGED <<processVars, run, src, dst, loopVars, drawn, reported>>

MakeCache ==
    /\ transpose_at = "make"
    /\ \E garbage \in Bytes : make_cache(Line_params, garbage)
    /\ transpose_at' = "malloc"
    /\ UNCHANGED <<run, src, dst, loopVars, drawn, reported>>

\* The block may be one that was freed, with what is left in it, or hold
\* anything else.
make_uninitialized_matrix ==
    /\ transpose_at = "malloc"
    /\ dst' \in {base \in Bases : Block(base) \cap Block(src) = {}}
    /\ \/ UNCHANGED memory
       \/ \E garbage \in Bytes : memory' =
             [a \in Addresses |-> IF a \in {Address(n) : n \in Block(dst')} THEN garbage
                                 ELSE memory[a]]
    /\ row' = 0 /\ col' = 0
    /\ transpose_at' = "load"
    /\ UNCHANGED <<cacheVars, answer, run, src, drawn, reported>>

\* The body of the loops of transpose_ref().
LoadElement ==
    /\ transpose_at = "load" /\ run = 1 /\ row < HEIGHT
    /\ load(get_addr(src, WIDTH, row, col))
    /\ transpose_at' = "store"
    /\ UNCHANGED <<run, src, dst, loopVars, drawn, reported>>

Loaded == CHOOSE value \in Bytes : \E addr \in Addresses : answer = {<<addr, value>>}

StoreElement ==
    /\ transpose_at = "store"
    /\ store(get_addr(dst, HEIGHT, col, row), Loaded)
    /\ NextElement
    /\ transpose_at' = "load"
    /\ UNCHANGED <<run, src, dst, drawn, reported>>

TransposeRefEnds ==
    /\ transpose_at = "load" /\ run = 1 /\ row = HEIGHT
    /\ transpose_at' = "report"
    /\ UNCHANGED <<processVars, run, src, dst, loopVars, drawn, reported>>

\* transpose() returns at once.
TransposeStub ==
    /\ transpose_at = "load" /\ run = 2
    /\ transpose_at' = "report"
    /\ UNCHANGED <<processVars, run, src, dst, loopVars, drawn, reported>>

is_transpose ==
    \A r \in 0 .. HEIGHT - 1, c \in 0 .. WIDTH - 1 :
        memory[get_addr(src, WIDTH, r, c)] = memory[get_addr(dst, HEIGHT, c, r)]

Report ==
    /\ transpose_at = "report"
    /\ reported' = IF is_transpose THEN "correct" ELSE "incorrect"
    /\ transpose_at' = "free"
    /\ UNCHANGED <<processVars, run, src, dst, loopVars, drawn>>

\* The second run follows the first.
Free ==
    /\ transpose_at = "free"
    /\ free_cache
    /\ transpose_at' = IF run = 1 THEN "make" ELSE "exited"
    /\ run' = 2
    /\ UNCHANGED <<src, dst, loopVars, drawn, reported>>

TransposeExited == transpose_at = "exited" /\ UNCHANGED transposeVars

TransposeNext ==
    \/ Fill \/ Filled \/ MakeCache \/ make_uninitialized_matrix
    \/ LoadElement \/ StoreElement \/ TransposeRefEnds \/ TransposeStub \/ Report \/ Free
    \/ TransposeExited

TransposeSpec == TransposeInit /\ [][TransposeNext]_transposeVars

-----------------------------------------------------------------------------
ReferenceDone == run = 1 /\ transpose_at \in {"report", "free"}

(***************************************************************************)
(* The reference leaves the transpose of the bytes that were drawn, the     *)
(* matrix it reads is still what was drawn, and the run says so: no store   *)
(* through the cache lands in another byte, whichever lines the matrices    *)
(* compete for (transpose.c:49-61, run_transpose.c:17-23).                  *)
(***************************************************************************)
ReferenceTransposes ==
    ReferenceDone =>
        \A r \in 0 .. HEIGHT - 1, c \in 0 .. WIDTH - 1 :
            LET value == drawn[r * WIDTH + c + 1]
            IN  /\ memory[get_addr(src, WIDTH, r, c)] = value
                /\ memory[get_addr(dst, HEIGHT, c, r)] = value
                /\ transpose_at = "free" => reported = "correct"

=============================================================================
