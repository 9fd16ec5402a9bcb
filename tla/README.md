# TLA+ models of courses-at-olin

The repository collects the coursework of three classes. Its programs are
independent of each other; each is small, and each has its own state. This
directory holds a specification of the programs with behaviour worth checking,
the TLC configurations that check them, and the proofs of their main theorems.

## 1. Inventory

Paths are relative to the repository. "Status" is what this directory covers.

### Processor (`computer-architecture/miniproject04/src`) — modelled

A single-cycle RV32I processor in SystemVerilog.

| Part | State | Operations | Module |
|---|---|---|---|
| `cpu/alu.sv` | none | ten operation codes, zero flag | `Alu` over `BitVec` |
| `cpu/imm_gen.sv` | none | five immediate formats, one hard-coded word | `ImmGen` over `Instruction` |
| `cpu/instruction_decoder.sv` | none | one control signal per output | `InstructionDecoder` |
| `memory/memory.sv` | memory array, `read_value`, `leds`, PWM counter, two timers with prescalers | clock edge | `Memory` |
| `cpu/program_counter.sv`, `cpu/register_file.sv` | `pc`, 32 registers | clock edge, asynchronous reset | `Top` |
| `top.sv`, `mux_2x1.sv`, `mux_4x1.sv`, `pc_adder.sv` | none | wiring | `Top` |

*Interaction.* Everything is one synchronous circuit. The decoder, the immediate
generator and the ALU are combinational functions of the word the memory shows
at `pc`. The memory has **one** address port, and `top.sv:125` wires it to `pc`
for fetches and for data alike. Reset reaches `pc` and the register file
asynchronously and does not reach the memory.

*What is hard.* Reset may rise at any moment between two edges, and the memory
keeps being clocked while it is held. A data access uses an address the
instruction did not compute. Branches depend on a pairing of operation code and
flag that two different modules choose. Byte lanes, sign bits and counters have
their boundaries.

*What makes it correct.* Each step is the step of the RV32I machine; a store
changes exactly its bytes; timers are exact through their wraps; PWM outputs
follow their duty cycles; reset restarts the machine from any state.

`cpu/instruction_register.sv` and `memory/instruction_memory.sv` are
instantiated nowhere and are not modelled; neither are the test benches (`tb/`).

### Memory image tool (`computer-architecture/miniproject04/tools/memgen.py`) — modelled

State: the files it makes (linker script, ELF, binary, image) and the exit
status. Operations: choose by suffix, write the script, assemble, remove the
script, extract, read, write, or refuse the input for its suffix. Hard: each step
may fail or be killed, what earlier runs left behind is still there, and `main()`
and the process report in different ways. Correct when a status of 0 means that
the image is the program as it is now, and no run leaves its script. The first
holds but for a refused input, which ends with status 0 as well (section 3).

### Small circuits (`computer-architecture/miniproject01` to `03++`) — modelled

| Circuit | State | Hard | Module |
|---|---|---|---|
| LED colour machine, `miniproject01` | colour, two counters | the counters have no initial value | `ColourMachine` |
| HSV wheel and PWM, `miniproject02` | step and PWM counters | the borders of six regions and the wrap | `HsvWheel` |
| Sine generator, `miniproject03` | address, registered sample | the quadrant is one edge ahead of the sample | `SineGenerator` |
| Function generator, `miniproject03++` | buttons, selections, phase, registered sample | buttons at any edge, frequency changes within a wave | `FunctionGenerator` |

### Thread pool barrier (`softsys/assignments/09-concurrency/src/weave.c`) — modelled

State: a mutex, a semaphore and a counter on the stack of `start_threads()`,
and the program counter of each thread. Operations: create, join and destroy by
the caller; ready, lock, increment, post, unlock, wait, go by each thread.
Hard: every interleaving; deadlock when a token is lost; use of the semaphore
after `start_threads()` has destroyed it. Correct when it is a rendezvous.

### Cache simulator (`softsys/assignments/06-latency-caching/src/cache.c`) — modelled

State: an array of lines (valid bit, tag, block), three counters, and the
memory the cached pointers point into. Operations: `load`, `store`, both over
`access`. Hard: two addresses that compete for a line, a line that goes stale,
the limits of the index, offset and tag fields. Correct when a program cannot
tell the cache from memory, and the counters say what happened.

### Tic-tac-toe (`softsys/assignments/03-refactoring-build-structure/src`) — modelled

State: the board, whose turn it is, the number of moves. Operations: `move`, the
tests of rows, columns and diagonals, the input line, and the loop of
`run_tic_tac_toe.c`. Hard: the second diagonal is read past the end of a row; the
result is decided from the turn and not from the board; input may end at any
time. Correct when every run is a game by the rules and its result is announced.

### Matrix transpose (`softsys/assignments/06-latency-caching/src/transpose.c`, `run_transpose.c`) — modelled

State: two matrices in the memory behind a cache. Operations: fill, make the cache,
allocate, load and store element by element, compare, free. Hard: matrices are
filled and compared directly in memory while a cache is live. Correct when the
reference leaves the transpose and the program reports it. `transpose()` is a stub.

### String array and shell (`softsys/assignments/07-syscalls-ipc/src`) — modelled

State: slots, size, capacity, the heap blocks of the strings; the line and the position
in it. Operations: make, free, resize, add; read a line, split it, clean up. Hard: the
NULL sentinel through any sequence of resizes, the owner of each block, a line that
the input ends. Correct when the array is the list its header describes, the tokens
are the words of the line, and every line is worked off. `process_tokens`, `run` and
`process_command` are stubs: the first returns NULL, which the loop hands to `free_command`,
so that the program ends with a crash after its first line.

### Echo client (`softsys/assignments/08-networking/src/client.c`, `run_client.c`) — modelled

State: the line of a call, the buffer of the socket's stream, two end-of-file
indicators, the exit status. Operations: open, read, send, flush, receive, check. It
interacts with its user and, over two queues, with a server that may answer, close or be lost
at any time, in the middle of an answer too. Hard: one stream that is written and read in
turn, a last line without newline, a connection lost between any two steps. Correct when what
is shown is what was typed, up to the point where the server was lost, and a loss is told. The server and the socket helpers are
stubs; the server of the model does what `server.h` promises.

### 2048 (`advanced-algorithms/lab-assignments/03-heuristics/game.py`) — modelled

State: board, score. Operations: slides in four directions, a random tile, the test
for the end. Hard: zeros written while neighbours are compared. Correct when each
tile merges at most once, the score is what the tiles cost, and the game ends exactly when no
move is left. The search over it is in a notebook.

### Allowable increase (`advanced-algorithms/lab-assignments/01-linear-programming/helpers.py`) — modelled

State: the objective of a copied model, the loop. Hard: the objective is changed and
changed back. Correct when the result brackets the increase at which the optimum changes: it is
the first of the increases tried that has another optimum. The docstring promises the last
that has not (section 3).

### Reading numbers (`softsys/assignments/04-testing-debugging/src/read_int_correct.c`) — modelled

State: what of a line is still unread. Hard: lines around the size of the buffer.
Correct when each call takes one line.

### Sorting an array (`softsys/assignments/01-compilation-memory/src/array_sort.c`) — modelled

State: the array, its copy, two loop counters. Operations: sort in place, sort a copy, the
rounds of both loops. Hard: the bound of the outer loop is `array_size - 1` in `size_t`,
which is the largest number for an empty array. Correct when the result is the
caller's numbers in ascending order, each as often.

### Not modelled

* `cpu/instruction_register.sv`, `memory/instruction_memory.sv`: no module
  instantiates them. Test benches (`tb/`, `testbench.sv`): they drive modules and print.
* Stubs: the functions of `linked_list.c` (all but `make_node` and `free_node`),
  `string_utils.c`, `server.c` (all but the two that allocate and free an
  `echo_server`) and `util.c` (all but `error_and_exit`, which `EchoClient` has)
  return without doing anything.
* `mean_correct.c`, `shout.c`, `surprisal.c`: functions of a few lines
  whose result depends on their argument only. The files named `*_incorrect.c`
  are wrong on purpose, for testing exercises.
* Class sessions: demonstrations of one C feature each.
* Notebooks: they call optimisation libraries on numeric data.
* CMake build trees, simulation traces, plots, provisioning: generated or configuration.

## 2. Modules

```
BitVec ─┬─ Alu ── AluBench ─────────────────┐      Rendezvous
        │    │                              │           ▲ (INSTANCE)
        ├─ Instruction ── ImmGen ── InstructionDecoder  Weave ── WeaveProofs
        │    │                          │   │
        │    └── RV32I ◄──(INSTANCE)────┤   │
        ├─ Memory ─────────────────── Top ──┼── MCTop, TopProofs
        │    └── MemoryBus ─────────────────┤
        │          ▼ (INSTANCE)             ├── WordProofs (AluBench, MemoryBus, ColourMachine)
        ├─ ByteMemory                       │
        └─ Cache ───────────────────────────┤
             │ ▼ (INSTANCE) FlatMemory      │
             └── Transpose ── CacheProofs   │
                                            │
ColourMachine (over BitVec; in WordProofs) ─┤
HsvWheel ───────────────────────────────────┤
QuarterWave ── SineGenerator, FunctionGenerator ── MCParts

LineGame   ◄─(INSTANCE)─ TicTacToe ──┬───────── GameProofs
                          Game2048 ──┘
StringList ◄─(INSTANCE)─ StringArray ── Shell ─ StringArrayProofs
EchoClient, MemGen, AllowableIncrease, ReadInt, SortArray, Transpose
       all of these ── MCPrograms ── ProgramsProofs (over the proofs of each)

EchoClient, MemGen, AllowableIncrease, ReadInt, SortArray, HsvWheel,
SineGenerator, FunctionGenerator ── ComponentProofs
```

**Words.** A word of `w` bits is the set of the positions of its ones, so
`BV(w) == SUBSET (0 .. w - 1)`. A part select, a concatenation or a replication
of the source is a small set expression, and every width of the source is kept:
addition drops the carry, shifts drop what leaves the word. `Value(w)` is the number a
word stands for, from `ValueBelow(w)[n]`, that of its lowest `n` bits: a function of
`n` by recursion, as is `Pow2`, so that both can be reasoned about at every width.

**Alu, ImmGen, InstructionDecoder** have an operator for each wire, with the
name of the wire. `Alu` is parameterised by its width, so that TLC can compare it
with arithmetic on integers for *every* pair of operands (`AluBench`, 4 bits).

**Memory** holds the registers of `memory.sv` and one clock edge, `MemClock`.
Array size, counter widths and prescaler limits are constants. **MemoryBus**
puts it under a bus master that may make any access, and states what the header
of `memory.sv` promises; the byte-level part of the promise is `ByteMemory`.

**Top** composes all of them as `top.sv` does. One action per event:
`AssertReset` (asynchronous, no clock), `ReleaseReset`, `Step` (a clock edge with
reset low) and `HeldStep` (a clock edge with reset high). The registers start
from an arbitrary power-up value, since no `initial` block defines them.

**RV32I** is the abstract machine: the base instruction set the processor's
README tabulates, written from the format tables and not from the decoder. A
word that encodes no instruction is `Unspecified`. `Top` is related to it by
`x <- [r |-> ReadRegister(r)]`: the register file's flip-flops for x0 may hold
garbage before the first reset, what the read ports show may not.

**Weave** has one action per statement of `synchronize()` and per call of
`start_threads()`. `(*my_args->ready_threads)++` is a `Load` and a `Store`.
**Rendezvous** is what `weave.h` promises, in two stages per thread.

**Cache** models `access`, `load` and `store` over a memory of bytes, with the
index, offset and tag masks of the source at a parametric address width. A field
is narrower than an address (`CacheAssumption`): for a wider one `make_cache` would
shift by the width of a `size_t`, so the answer `SIZE_MAX` of `block_size` is not modelled.
**FlatMemory** is the memory a program believes it talks to.

**TicTacToe** keeps the board as the array it is in memory: `spaces[r][c]` is
element `r * BOARD_DIM + c`. A turn of the loop is a `PlayTurn` (a valid move) or
a `Reprompt` (anything the program refuses). **LineGame** is the game itself, over
any set of winning lines.

**StringArray** keeps the slots as a function on `0 .. capacity`, with `Uninitialised`
for what `realloc` leaves, and a heap of blocks; **StringList** is the list of its
header. **Shell** adds `tokenize_line` and the loop, one action per round of the loop.

**EchoClient** has one action per library call of `echo()` and `main()`, and `Flush` for the
write that turning the stream to reading makes. `Answer`, `Close` and `Reset` are the server;
the last two keep any beginning of what was on its way, down to a piece of a text (`LoseRest`).

**Game2048** writes a slide as the rounds of the loop do it (`MergeAt`), zeros included:
`Merging(tiles)[c]` is the row and the points before the round of tile `c`.
**MemGen** has one action per step of `memgen.py`; each may fail, and `Kill` may come
at any time. `Refuse` is the `return 1` of `main()` with the bare call of line 145 that drops it. **AllowableIncrease** takes a linear program to be the set of its basic
solutions. **ReadInt** counts the characters of a line that are unread.
**Transpose** composes its loops with the actions of `Cache`. The places of the two matrices
are a constant, `Address(_)`, that maps the bytes `malloc` handed out to addresses; all that
is assumed of it is that different bytes of live blocks have different addresses.
**SortArray** has one action per round of a loop, and its counters have the width of `size_t`.

**ColourMachine, HsvWheel, SineGenerator, FunctionGenerator** have one action, the
clock edge, and an operator for each wire. **QuarterWave** is the quarter of a sine
that both generators store, and the whole wave for reference.

**MCPrograms** and **MCParts** explore components that share nothing side by side: `program`
(`part`) chooses one in the initial state, its steps run, and all others stay in an initial
state. `MCPrograms` has ten programs; `MCParts` has six circuits, the memory of the processor a
second time ("stores"), and the cache. The states explored are the disjoint union of those of
the components.

Operators named `X_Something` beside a definition `X`, each with a comment that
starts with "Mutant", are defective variants of `X`. No specification uses them;
they exist to show that the properties notice a plausible bug.

## 3. Runs

| Run | Question | Bounds |
|---|---|---|
| `TopPrograms` | is each step an RV32I step, and what do loads and stores do? | every arrangement of three instructions of a pool and a closing one in 4 words, three power-up values of pc, 6 edges (`MaxEdges`), resets anywhere |
| `TopDataAccess` | do data accesses reach their address? They do not | the pool of loads and stores |
| `TopJumps` | do jumps land on their target? Not all | the pool of branches and jumps |
| `Parts`: stores | does a store of each width change its bytes and no other, and is the port read-first? | 4 words of memory, seven addresses (two bytes of one word, the last byte of the next, one beyond memory, the LED register, both timers), four accesses from power-up (`MaxBurst`) |
| `Parts`: ALU | does each operation compute what its name says, and does its zero flag tell equality and order? | all operands and codes at 4 bits: sign, carry, the extreme words and shifts by 0 to 3 all occur |
| `Parts`: memory | are timers exact and do PWM outputs follow duty cycles? | 4-bit PWM counter, 2-bit timers with prescalers of 2 and 4: every counter wraps, several times in a period |
| `Parts`: colours | does every colour come in turn, for its interval? | intervals of 5 and 6 in 3 bits: counters may power up past them |
| `Parts`: hue | does the hue go round without a jump? | all 360 steps at 8 bits, two edges each |
| `Parts`: generators | are the sine and the triangle whole? | quarters of four samples, one of them not monotonic, 4 bits of data, a phase of 6 bits, increments of 1 to 4, buttons at any edge |
| `Parts`: cache | can a program tell the cache from memory, and are the counters exact? | 8 addresses, five geometries, caches made and freed any number of times, 3 accesses each (`MaxAccesses`) |
| `HeldButton` | does one press of a button select once? It does not | as `Parts` |
| `Weave` | is the pool a rendezvous under every schedule? | 5 threads: one posts, one contends, one waits, one is being created, one is done |
| `Programs`: transpose | is the reference right and reported so? | 2 by 3 bytes, 16 addresses, two lines of two bytes, matrices at four addresses: inside a block, at its border, adjacent |
| `Programs`: tic-tac-toe | is every run a game by the rules, over the lines `is_win` looks at? | the board of the source; coordinates -1 to 3, so off the board on every side |
| `Programs`: string array | is it its list, with one sentinel and one owner for each string? | capacities to 4 (`MaxCapacity`), reached by doubling from 0 and 1 and by any resize |
| `Programs`: shell | does it make tokens of words, and work off every line? | every line of up to 5 characters, word characters and spaces, ended by a newline or by the input |
| `Programs`: echo client | is every line shown once, and which loss is told? | 2 texts, 3 lines (`MaxTyped`), each with or without its newline, answers cut before the newline or within the text |
| `Programs`: 2048 | are slides, score and end right? | 2 by 3 squares, turns until the score is past 12 (`MaxScore`): tiles to 8, and boards that are full |
| `Programs`: memgen | does status 0 mean the right image, but for a refused input? | programs of 4, 5 and 8 bytes, images of 1 and 3 words: shorter than the program and longer |
| `Programs`: helpers | is the result the first increase tried with another optimum? | six linear programs: the optimum never changes, changes at once, later, at the last step or after it, or is not unique |
| `Programs`: array sort | is the result the caller's numbers in order? | arrays of 0 to 4 elements of 3 values, equal ones included, `size_t` of 6 values: the bound of the outer loop wraps for size 0 |
| `Programs`: read_int | does a call take one line? | a buffer of 5, lines of 0 to 8 characters: short, exact, over by one and by more |
| `ShellTokens` | are the tokens the words of the line? Not all | as `Programs` |
| `CommandCrash` | is a command made of the tokens? It is not | as `Programs` |
| `RefusedOutput` | does a refused input fail? It does not | as `Programs` |
| `IncreaseOptimum` | does the increase returned keep the optimum? It does not | as `Programs` |
| `TicTacToeLines` | are the lines `is_win` looks at those of the game? They are not | as `Programs` |

`MaxEdges` is 6 because a program of four words with a closing jump executes its
loop once and returns into it. A memory of four words (`ABITS = 2`) is enough to
tell a word from its neighbour and an address from its alias. Three accesses fill
a line, evict it by another and bring it back; whatever the cache holds, each is checked against
the answer of memory, and section 6 proves the same for any number of them. Four stores and
loads from power-up write a word twice and read it before and after, while both timers
tick. A third line typed after two answers is
sent in a state that every later one meets, too. Deadlock is
checked in every run.

Eight runs are expected to find a violation:

* `TopDataAccess`: `top.sv:125` gives the memory `pc` as its address. A store
  therefore overwrites a lane of its *own* instruction word, and a load returns
  the word latched at the preceding edge. The README of miniproject04 says that
  "Data is read from or written to memory if needed" (line 304).
* `TopJumps`: `jalr` to an odd sum keeps bit 0 of its target (`top.sv:155`), and
  `imm_gen.sv:34` gives the word `0xFFC000EF` the offset -4 although its bits
  encode another one. `docs/instructions.md:18` asks for "all instructions in
  the base RV32I instruction set".

* `TicTacToeLines`: line 136 of `tic_tac_toe.c` reads the second diagonal at column
  `BOARD_DIM - index`. The build sets no optimisation, so that `spaces[0][3]` is
  the first cell of row 1: marks on (1,0), (1,2) and (2,1) win and the real diagonal
  does not. `tic_tac_toe.h:113-114` says "A player is considered to have won on a
  board if they have three of their character in a row."

* `ShellTokens`: `tokenize_line` (`shell.c:83-105`) adds a token when whitespace follows
  it, and not when the line ends. The last word of an input without a final
  newline is lost; `shell.h:68-69` says "split a string by whitespace into tokens".
* `CommandCrash`: `process_tokens` is a stub that returns NULL (`shell.c:109`). `shell_loop`
  gives it to `free_command` (`softshell.c:29`), which reads the tokens of the command
  (`shell.c:66`): the shell ends at the first line it reads. `shell.h:86-87` says "Create a
  new command struct to represent these items and return this struct to the user."
* `RefusedOutput`: `main()` of `memgen.py` returns 1 for a suffix it does not know, next to the
  message "Unsupported input file format" (lines 127-128), and line 145 calls it without using
  the value. The process exits with status 0, and an old image stays where it was.
* `IncreaseOptimum`: `find_allowable_increase` returns the increase at which it has just found
  another optimum (`helpers.py:62`). Its docstring calls the result "The maximum increase in the
  coefficient without changing the optimal basis" (lines 18-19).
* `HeldButton`: line 24 of `miniproject03++/top.sv` is commented "detect rising edge
  (button press)" (line 22) and computes `boot_sync1 & ~boot_r`, which toggles
  while the button is held. The selection advances at every other edge.

`TopPrograms` shows what is true instead: `StoresOverwriteThemselves`,
`LoadsReturnPreviousFetch` (its history variable `previous` holds the word fetched at the
preceding edge), and `HeldResetErasesStore` (a clock edge during reset
executes the store at address 0 against itself).

Two more comments of `memory.sv` are not what its code does. Byte and half-word
reads are not extended (lines 7-8 against line 82), and the fetch port ignores
the address bits above the array (line 10 against line 77). `Memory` models the
code; `RV32I` takes the fetch of an aliased address from the alias, and a load of
any width is outside the refinement anyway, as a data access.

## 4. Fairness

* `Top`, `MemoryBus`: weak fairness of the clock edge, since an oscillator never stops;
  no property of a run rests on it. `ColourMachine`: the same, for `ColoursInTurn`.
* `Weave`: weak fairness of each thread and of the caller, which is what a
  preemptive scheduler gives. No strong fairness of the mutex is needed: a thread
  locks it once in its life, so it is free in the end and stays free until the
  waiting thread takes it.
* `TicTacToe`: weak fairness of `Announce`, which needs no input. Nobody has to
  type a move, and at end of file the program may stay in `flush_input_line` for
  good (`Flushing`), so a game need not end.
* `Shell`: weak fairness of `ShellRuns`, the steps that need no input. `LinesAreWorkedOff`
  says that a line that was read is scanned to its end and its tokens are freed, and that the
  loop ends at the end of the input; what follows `free_command` is no part of it, and a crash
  does not satisfy it. Nobody has to type, and a read error may keep the loop prompting.
* `EchoClient`: weak fairness of `ClientRuns`, and of `Answer`: `server.h` promises an
  echo, and a server that ends instead disables `Answer`. `LinesAreAnswered` names the
  one case in which both wait for each other (`BothWait`: a line without newline).
* `Cache`, `MemGen`, `Game2048` and the others: none, they promise nothing about progress.

## 5. Components in detail

**Cache.** The fields of `Cache` are those of `struct cache` with an array of lines
split into `valid`, `tag` and `block`. `get_tag`, `get_line_index` and
`get_line_offset` are the three masks; an address is 3 bits wide in the run and
any width in the proofs. `load` and `store` are one action each, with the whole of
`access`: the counters, the replaced line and the copied block. `make_cache` leaves
the blocks as `malloc` does, with any byte. `Assign` is a write that bypasses the cache;
the programs do that only before `make_cache`, so it needs `~live`. `answer` is what the
last call returned and at which address; `FlatMemory` computes it from memory alone,
which makes `ImplementsFlatMemory` a statement about every value a program reads.
Each of tag, index and offset is empty in one of the five geometries at least.

**Tic-tac-toe.** `at` says where the program is: in the loop, in `flush_input_line`, or
done. `printed` is the announcement. `WinnerMovedLast` is what makes `player_win`
right although it asks about one player only. `ImplementsLineGame` relates the turn and
the number of moves, two fields the program updates on their own, to the marks
on the board.

**Echo client.** A line is a text and the part of it that is there: the whole line, its text
without the newline, or a piece of the text. The stream of the socket is one buffer for
both directions: `Send` fills it, and only the `getline()` that waits for the answer writes
it (`Flush`). After a server has closed its end, that write is answered with a reset, which the
read after it may meet or not. A server that is lost takes with it what it was sent and any part
of its answers (`LoseRest`), and `getline()` returns, and `echo()` prints, what there is of a
line. `ShowsWhatWasTyped` therefore allows a cut line, but only as the last one shown and only of
a lost server; before it no line is missing, doubled or changed. `SuccessMeansEchoed`
states exactly when status 0 goes with lines that are not shown whole. The server ended its
stream, which `run_client.c:26` says is meant; or a reset goes untold, because `feof(stdin)`
excuses it: it cut the last answer and the user then ended the input, or it
took the answer to a last line without newline.

**memgen.** `Words` computes each word from its bytes; `SuccessLeavesImage` reads the image
back byte by byte (`ByteAt`), so that byte order and padding are checked against
each other. It speaks of every run that ends with status 0: one that was refused has left the
old image, which `RefusedRunsFail` records as a disagreement. `ScriptRemoved` says that only a killed run, or one that could not write the
script, leaves it.

**Array sort.** For an empty array the outer loop runs up to the largest value of `size_t`,
and no round of the inner loop is entered, so nothing is read: `SortsNumbers` holds there too, after
`SIZE_VALUES - 1` rounds. With one element the loop has no round.

**2048.** `SlidesGreedily` compares the loop of the source with a definition by recursion
over the tiles (`Greedily`), on every board on which a turn is played. `TilesAccounted` computes the score
from the board alone.

**Function generator.** `sampled_phase` and `released` are history variables. Since an increment
is at most one sample, as in the source, the sample whose quadrant is one edge late is the
middle of the wave at each change of sign; `WavesAreWhole` would fail if the
first sample of the quarter were not 0 (`QuarterAssumption`, true of `sine.txt` and
`sine_quarter.txt`).

## 6. Proofs

All proofs are checked by TLAPS with no assumption other than the named
assumptions on the constants, and the hypotheses that four theorems state and this
section explains.

**TopProofs.** `TypeCorrect`: the registers keep their widths for every program,
memory size and reset sequence. The width lemmas say that each wire has its
width; `MemClockType` is shared by the two clocked actions.

`StepsAreRV32I`: every step outside `Deviates` is a step of
`RV32I`, for *every* program. `Deviates` names exactly the three known
differences (data accesses, the hard-coded word, a jalr to an odd sum). The proof
needs `TypeOK` and nothing stronger for a `Step`; for `HeldStep` it also needs
`HeldAtZero`, that pc and the registers are zero while reset is high
(`ResetHoldsZero`). The argument goes by instruction class:
`ImmediatesAgree` (five formats, bit by bit), `ArithmeticAgrees` (decoder and ALU
against `Compute`), `BranchAgrees` (operation code and flag against the
comparison), `WriteAgrees` (the register file), then one lemma per class of
steps. `SubZero` is the one arithmetic fact: a difference is zero iff the operands
are equal; it uses well-founded choice of the least differing bit.
`OnlyCodeIsWritten` and `HeldResetErases` prove `StoresOverwriteThemselves` and
`HeldResetErasesStore` for every program, and `LoadsReturnPreviousFetchHolds` proves
`LoadsReturnPreviousFetch` from an invariant that ties the data port to the history:
after an edge it holds the word fetched there (`PortHoldsFetch`).

**WordProofs**, for every width. Words are sets, so what is to be proved about them as
numbers is proved by induction over positions. The library's induction theorems take
an operator and cannot be cited here; `SetInduction` says the same of a *set* of numbers and
follows from the least element of its complement. `PrimitiveRecursion` gives the
existence of functions defined by recursion, whence `Pow2Def` and `BelowDef`, the
equations of `Pow2` and `ValueBelow`. On these rest: `BelowSplit`, the quotient and
remainder by a power of two are the high and the low bits; `SumBelow` and
`DifferenceBelow`, below each position the sum is right but for the carry into it; `BelowOrder`, the
highest differing bit decides. Then

* `AluComputesArithmeticHolds`: each operation of the ALU is arithmetic on integers, for every
  `XLEN` and `SHAMT`. A left shift is compared with the unbounded product, a right shift of a
  negative number with the word extended by copies of its sign.
* `TimersKeepTimeHolds` and `LitForDutyCountsHolds`, for every prescaler, counter width and
  period. The timers alone are not inductive: that a carry comes at the right edge
  rests on each prescaler being the remainder of the number of edges (`CountInv`).
* `EachColourItsIntervalHolds`, the safety half of `ColoursInTurn`, for every interval: a counter of
  `$clog2` bits reaches its interval and wraps there (`EnoughBits`), and one that powers up past it is
  back in range before the first colour that is counted.
* `ReadsAreReadFirstHolds` and `StoresAreByteExactHolds`, for every memory size, address and datum. The
  second relates each bit field of the source to bytes: a store covers a byte lane whole or leaves
  it alone (`ByteLanes`), and addresses of one cell differ in two bits (`SameCell`).

**WeaveProofs**, for every number of threads. The barrier is not inductive: why
may a thread pass the semaphore? The invariant `Inv` adds that threads not yet
created are unborn, that whoever is between lock and unlock holds the mutex
(`MutexHeld`), that the counter equals the number of threads past their increment
and a loaded value is still current (`CounterExact`), that a positive semaphore
or a thread past it means the count was complete (`TokensMeanAll`), and that joined
threads are done (`JoinedAreDone`). From it follow `BarrierHolds`, `ReturnsLast`
and `RefinesRendezvous`: each step of the pool is a step of the rendezvous.
`TokensHold` counts: tokens posted are tokens taken and tokens left.

**CacheProofs**, for every address width, geometry and sequence of calls.
`FieldRanges` bounds the masks. `OneBlock` is the fact everything rests on: two
addresses with the same tag and index are bytes of one block, so the masks leave no
bit out. `Coherent` is inductive with `CacheTypeOK` (`BlocksCoherent`, `HitsAfter` and
`OtherBlocks` say what one access changes), `CacheIsMemory` follows from it, and
`CountersAreExact` counts the valid lines. `ReferenceTransposesHolds` is about the program
above the cache, for every size of the matrices and any place of them: its invariant
`TransposeInv` says which variables each phase has set (`Phases`), that the source keeps its
elements (`SourceDrawn`) and that all elements passed are transposed
(`DstTransposed`), all of memory as the cache shows it, which needs `Coherent`. A store into the
destination does not reach the source or an earlier element because their addresses differ
(`CellAddresses`).

**GameProofs**, tic-tac-toe, for every `BOARD_DIM` above 1. Every cell `is_win` looks at is in the
array, line 136 included (`LinesInBoard`). The invariant `Inv` adds to the types that
turn and count follow from the marks (`MovesCounted`) and `WinnerMovedLast`. A move
cannot complete a line of the other player because the game was not over
(`MoveWins`). From `Inv`, `TicTacToeIsLineGame`: each step is a step of the game.

**GameProofs**, 2048, for every number of rows and columns, any tiles drawn and any turns.
The rows, their sums and the rounds of the loop are recursive functions: the library's theorems
on recursion take operators, so `Recursion` and `SetInduction` are proved here for functions
and sets, from the fact that a set of numbers has a least element. What a row is worth is
unchanged by dropping its empty squares (`TilesUpToFacts`), and a round of the loop changes it by
what it scores (`MergeOnce`, `MergeRound`); the worth of a board is unchanged by reversing its rows
(`WorthReversed`) and by transposing it (`WorthTransposed`, from `TotalSwap`: the row sums and
the column sums have one sum), so the four directions are one argument (`MovedIs`). With a drawn tile
(`RandomTile`) `GameInv` is inductive, and `TilesAccountedHolds` is one of its conjuncts.
`GameTypeCorrect` bounds the tiles: on n squares none exceeds 2^(n+1). A bound on single tiles is not
inductive (a board of equal tiles of that size would merge past it); one on their sum is, 2^(n+2) - 4
(`SumLimit`). A slide leaves the sum as it is: what a row is worth is proved for any weight of the
tiles (`Weights`), and `MoveKeepsSum` compares two weights that differ by a tile's face. Only a
drawn tile adds to it, 4 at most and into an empty square. The fewer than n tiles then on the board
are powers of two, so their sum has fewer than n ones in binary (`OnesOfBoard`), and each of the four
sums just below the bound has n or more (`RoomForFour`).
`SlidesGreedilyHolds` rests on `GreedySoFar`, what the loop has done before each round beside
what the reference does with all tiles. For `OverMeansStuckHolds`, a slide leaves a row as it is exactly if
no tile is behind an empty square and no two neighbours are equal (`SlidFixed`); a board with a tile
and an empty square has the two side by side (`EmptyBesideTile`), which is why the invariant must
say that the board is never empty (`HasTile`): without a tile the code's test would be wrong.

**StringArrayProofs**, for any capacities, strings and number of blocks. `ArrayInv` is the type invariant,
that an array not made is empty, `SentinelAfterLast` and `OwnsItsStrings`
(`StringsAreKept` is both). The sentinel alone is not inductive: `add_string` overwrites the slot at `size`, which is
right only because no string is there. `ResizedSlots` and `GrownFits` are the facts
about `realloc` and doubling; `ListStep` maps each call to one of `StringList`, for calls of any size
(`LibraryCall`, without the bound that `ArrayNext` has for TLC), whence `ArrayIsList`. For the
shell, for every line: `ShellInv` says that the tokens so far are the words ended by the
spaces scanned so far and that the next word begins at the position the loop
remembers, from which `TokensAreEndedWordsHolds`. `ShellUsesList`: the shell, whose tokens may be
as many as the line has words, uses the array by its calls alone (`ShellCalls`), so that
it finds in it what the list of the header would hold.

**ComponentProofs**, the components with a few theorems each.

* Echo client, for any texts and number of lines: `EchoInv` follows the one line that is not
  shown yet. It is the last typed (`Pending`), and in at most one of buffer, queue to the
  server and queue to the client, cut only if the server is lost (`OnItsWay`). A line shown in
  part is the last, and nothing comes after it (`LossInv`). From it follow
  `ShowsWhatWasTyped`, `OneLineInFlight` and `SuccessMeansEchoed`.
* `ReadsOneLineHolds`: a call that goes on to flush has met a line too long for the buffer, or the
  end of the input (`ReadIntInv`). The theorem is for the buffer of the source (`BUFFER_SIZE` = 5): the property
  speaks of lines of at most three characters, what that buffer holds beside newline and terminator.
* `BracketsIncreaseHolds`, for any models, step and number of rounds: before each round the
  increase tried is its number of steps, and no smaller multiple changed the optimum (`SearchInv`).
* `ScriptRemovedHolds` and `SuccessLeavesImageHolds`, for any programs and sizes of image. The image is computed
  with divisions and read back with powers of two: `Lanes` and `LanePowers` relate the two. The theorem
  is about every run that ends with status 0, the refused ones included.
* `HueIsContinuousHolds`, for all 360 steps, by the ramp each region shows.
* `SineIsWholeHolds`, for any quarter wave of any length, at the source's 10 bits of data;
  `WavesAreWholeHolds` at the widths of the source (`SourceWidths`: 32 bits of phase, 10 of data, a quarter of
  128). Both compare outputs with the wave by powers of two of these widths, which the prover
  evaluates for given exponents only. The invariants tie the registered sample to the
  address or phase it was read at.
* `SortsNumbersHolds`, for any array and any `SIZE_VALUES`: behind the outer counter every
  element is at most all later ones, and the one at the counter at most those the inner
  loop has passed (`Placed`); a swap rearranges (`SwapRearranges`).

**ProgramsProofs**, the composition that the run `Programs` explores, for every size of each
program's data. A step of the composition is a step of the program that runs and of no other
(`ProgramsStep`), so the programs without fairness keep their own specifications (`EachProgram`),
and the others their invariants. The array is shared: a client of any kind drives it, or the shell
does, and the one that does not run must not have left its start (`ArraysInv`). `TypesHold`
proves `TypesOK`; `ProgramsAreSafe` (with the transposition, over the invariant of the cache), `ProgramsReadLines` and `ProgramsKeepPromises` prove the other
invariants of the run, its action properties, and the safety half of its refinements.

**Only model-checked.** Liveness (that the pool ends, that a decided
game is announced, that every colour comes again, that lines are answered and that the shell
works off its lines), which the prover does not reach, so of the refinements the proofs have the safety
half, and so they have of `ColoursInTurn`;
`OnePressOneSelection`, `TokensAreWords`, `CommandsAreMade`, `RefusedRunsFail`, `IncreaseKeepsOptimum`,
`JumpsLandOnTarget`, `DataAccessesReachTheirAddress` and `WonIsThreeInARow`, which do not hold.

## 7. Abstractions

* Combinational logic settles between two events; a clock edge and a change of
  reset do not coincide. Metastability is not modelled.
* Memory contents are the image the configuration names; the Icarus and Yosys
  initialisation of an array without an image file is zero, one of the images.
* `x` and `z` of SystemVerilog do not occur after power-up; the power-up value
  itself is an arbitrary word.
* The calls of `weave.c` succeed; it checks none of them.
* No field of a cache's parameters is as wide as an address, which `make_cache` could not shift by.
* `printf`, allocation failure and the wording of messages are left out.
* What is uninitialised is an arbitrary value; for the registered samples of the function
  generator two values stand for all, as nothing depends on them after the first edge.
* A stack buffer that `fgets` leaves alone at the end of the input holds anything:
  `read_int` may then return any number, or never.
* A character is a space, a newline or neither. A line of input to `read_int` is its length
  and the number `strtol` makes of it.
* A linear program is solved by any of its optimal solutions, and the same one when
  the objective is the same.
* The cross assembler and `objcopy` write a file or fail; a failing one may remove it.

## 8. Plan

1. Processor: `Memory`, `Top`, `RV32I`, proofs — done.
2. `Weave` and `Rendezvous`, proofs — done.
3. `Cache` and `FlatMemory`, proofs — done.
4. `TicTacToe` and `LineGame`, proofs — done.
5. `StringArray`, `StringList`, `Shell`, proofs of the array — done.
6. `EchoClient`, proofs — done.
7. `Transpose`, `Game2048`, `MemGen`, `AllowableIncrease`, `ReadInt`, the small circuits — done.
8. `SortArray` — done.
9. Theorems about words, the memory, the transposition, the shell's tokens and the small
   components (section 6) — done.
10. 2048 with recursive functions, and its theorems — done.
11. The largest tile of 2048 for every size of the board — done.
12. The programs side by side, and the shell over the list of strings — done.
13. Answers cut anywhere, refused inputs, and the promises of `shell.h` and `helpers.py` that the
    code does not keep — done.
